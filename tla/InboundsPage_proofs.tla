------------------------- MODULE InboundsPage_proofs -------------------------
(* For every number of clients, sockets, inbounds and users: a reconnection   *)
(* leaves no second socket behind, and no client is left without both a       *)
(* socket and the timer that makes the next one; the page shows the inbounds   *)
(* of its last list; and no save or dialog takes a client's key away.          *)
EXTENDS InboundsPage, TLAPS

\* The two properties are not inductive: a timer must also find that its
\* client has no socket in use, or it would open a second one.
ConnInv(c) ==
    /\ \A k \in Sockets : sockets[c][k] \in Alive => ws[c] = k
    /\ ws[c] # 0 => ws[c] \in Sockets /\ sockets[c][ws[c]] # "none"
    /\ isConnected[c] => ws[c] # 0
    /\ ws[c] = 0 => reconnectTimer[c]
    /\ reconnectTimer[c] => ~Busy(c)

ConnTypes ==
    /\ sockets \in [Conns -> [Sockets -> SocketStates]]
    /\ ws \in [Conns -> Sockets \cup {0}]
    /\ isConnected \in [Conns -> BOOLEAN]
    /\ reconnectTimer \in [Conns -> BOOLEAN]

FeedInv == ConnTypes /\ \A c \in Conns : ConnInv(c)

-----------------------------------------------------------------------------
(* One client's step.                                                         *)

\* A step of one client leaves the others as they are.
LEMMA Others ==
    ASSUME FeedInv, NEW c \in Conns,
           NEW states \in [Sockets -> SocketStates], NEW w \in Sockets \cup {0},
           NEW on \in BOOLEAN, NEW timer \in BOOLEAN,
           sockets' = [sockets EXCEPT ![c] = states], ws' = [ws EXCEPT ![c] = w],
           isConnected' = [isConnected EXCEPT ![c] = on],
           reconnectTimer' = [reconnectTimer EXCEPT ![c] = timer],
           \A k \in Sockets : states[k] \in Alive => w = k,
           w # 0 => states[w] # "none",
           on => w # 0,
           w = 0 => timer,
           timer => w = 0 \/ states[w] \notin Alive
    PROVE  FeedInv'
<1>1. ConnTypes'
  <2>1. sockets' \in [Conns -> [Sockets -> SocketStates]] /\ ws' \in [Conns -> Sockets \cup {0}]
    BY SMT DEF FeedInv, ConnTypes
  <2>2. isConnected' \in [Conns -> BOOLEAN] /\ reconnectTimer' \in [Conns -> BOOLEAN]
    BY DEF FeedInv, ConnTypes
  <2> QED BY <2>1, <2>2 DEF ConnTypes
<1>2. ConnInv(c)'
  <2>1. sockets'[c] = states /\ ws'[c] = w /\ (isConnected'[c] <=> on) /\ (reconnectTimer'[c] <=> timer)
    BY DEF FeedInv, ConnTypes
  <2> QED BY <2>1, FeedAssumption, Zenon DEF ConnInv, Busy
<1>3. ASSUME NEW d \in Conns, d # c PROVE ConnInv(d)'
  <2>1. /\ sockets'[d] = sockets[d] /\ ws'[d] = ws[d] /\ isConnected'[d] = isConnected[d]
        /\ reconnectTimer'[d] = reconnectTimer[d]
    BY <1>3 DEF FeedInv, ConnTypes
  <2>2. ConnInv(d)
    BY DEF FeedInv
  <2> QED BY <2>1, <2>2, Zenon DEF ConnInv, Busy
<1> QED BY <1>1, <1>2, <1>3, Zenon DEF FeedInv

\* What an alive socket and a set timer mean for the one in use.
LEMMA Client ==
    ASSUME FeedInv, NEW c \in Conns
    PROVE  /\ ConnInv(c) /\ sockets[c] \in [Sockets -> SocketStates] /\ ws[c] \in Sockets \cup {0}
           /\ isConnected[c] \in BOOLEAN /\ reconnectTimer[c] \in BOOLEAN
           /\ sockets = [sockets EXCEPT ![c] = sockets[c]] /\ ws = [ws EXCEPT ![c] = ws[c]]
           /\ isConnected = [isConnected EXCEPT ![c] = isConnected[c]]
           /\ reconnectTimer = [reconnectTimer EXCEPT ![c] = reconnectTimer[c]]
BY DEF FeedInv, ConnTypes

\* A client without a socket in use may open one, or fail and set the timer.
LEMMA OpenSocketStep ==
    ASSUME FeedInv, NEW c \in Conns, ~Busy(c), OpenSocket(c), UNCHANGED isConnected
    PROVE  FeedInv'
<1>1. \A k \in Sockets : sockets[c][k] \notin Alive
  BY Client, FeedAssumption, Zenon DEF ConnInv, Busy
<1>2. CASE \E k \in Sockets :
             /\ sockets[c][k] = "none"
             /\ sockets' = [sockets EXCEPT ![c][k] = "connecting"]
             /\ ws' = [ws EXCEPT ![c] = k]
             /\ reconnectTimer' = [reconnectTimer EXCEPT ![c] = FALSE]
  <2>1. PICK k \in Sockets :
           /\ sockets' = [sockets EXCEPT ![c][k] = "connecting"]
           /\ ws' = [ws EXCEPT ![c] = k]
           /\ reconnectTimer' = [reconnectTimer EXCEPT ![c] = FALSE]
    BY <1>2, Zenon
  <2> DEFINE states == [sockets[c] EXCEPT ![k] = "connecting"]
  <2>2. sockets' = [sockets EXCEPT ![c] = states]
    BY <2>1, Client
  <2>3. states \in [Sockets -> SocketStates] /\ states[k] = "connecting"
    BY Client, SMT DEF SocketStates
  <2>4. \A j \in Sockets : j # k => states[j] = sockets[c][j]
    BY Client
  <2> HIDE DEF states
  <2>5. /\ \A j \in Sockets : states[j] \in Alive => k = j
        /\ states[k] # "none" /\ k # 0 /\ k \in Sockets \cup {0}
    BY <1>1, <2>3, <2>4, FeedAssumption, SMT
  <2>6. isConnected[c] \in BOOLEAN /\ isConnected' = [isConnected EXCEPT ![c] = isConnected[c]]
    BY Client
  <2> QED BY <2>1, <2>2, <2>3, <2>5, <2>6, Others, Zenon
<1>3. CASE reconnectTimer' = [reconnectTimer EXCEPT ![c] = TRUE] /\ UNCHANGED <<sockets, ws>>
  <2>1. /\ sockets' = [sockets EXCEPT ![c] = sockets[c]] /\ ws' = [ws EXCEPT ![c] = ws[c]]
        /\ isConnected' = [isConnected EXCEPT ![c] = isConnected[c]]
    BY <1>3, Client
  <2>2. /\ sockets[c] \in [Sockets -> SocketStates] /\ ws[c] \in Sockets \cup {0}
        /\ isConnected[c] \in BOOLEAN /\ TRUE \in BOOLEAN
    BY Client
  <2>3. /\ \A k \in Sockets : sockets[c][k] \in Alive => ws[c] = k
        /\ ws[c] # 0 => sockets[c][ws[c]] # "none"
        /\ isConnected[c] => ws[c] # 0
        /\ ws[c] = 0 \/ sockets[c][ws[c]] \notin Alive
    BY Client, Zenon DEF ConnInv, Busy
  <2> QED BY <1>3, <2>1, <2>2, <2>3, Others, Zenon
<1> QED BY <1>2, <1>3, Zenon DEF OpenSocket

LEMMA SocketOpensStep ==
    ASSUME FeedInv, NEW c \in Conns, NEW k \in Sockets, SocketOpens(c, k)
    PROVE  FeedInv'
<1> DEFINE states == [sockets[c] EXCEPT ![k] = "open"]
<1>1. /\ sockets[c][k] = "connecting" /\ sockets' = [sockets EXCEPT ![c][k] = "open"]
      /\ isConnected' = IF ws[c] = k THEN [isConnected EXCEPT ![c] = TRUE] ELSE isConnected
      /\ UNCHANGED <<ws, reconnectTimer>>
  BY DEF SocketOpens
<1>2. ws[c] = k /\ k # 0 /\ ~reconnectTimer[c]
  <2>1. ws[c] = k /\ k # 0
    BY <1>1, Client, FeedAssumption, SMT DEF ConnInv, Alive
  <2> QED BY <1>1, <2>1, Client, SMT DEF ConnInv, Busy, Alive
<1>3. /\ sockets' = [sockets EXCEPT ![c] = states] /\ ws' = [ws EXCEPT ![c] = k]
      /\ isConnected' = [isConnected EXCEPT ![c] = TRUE]
      /\ reconnectTimer' = [reconnectTimer EXCEPT ![c] = FALSE]
  <2>1. sockets' = [sockets EXCEPT ![c] = states]
    BY <1>1, Client
  <2>2. ws' = [ws EXCEPT ![c] = k]
    BY <1>1, <1>2, Client
  <2>3. reconnectTimer[c] = FALSE
    BY <1>2, Client
  <2>4. reconnectTimer' = [reconnectTimer EXCEPT ![c] = FALSE]
    BY <1>1, <2>3, Client
  <2> QED BY <1>1, <1>2, <2>1, <2>2, <2>4
<1>4. states \in [Sockets -> SocketStates] /\ states[k] = "open"
  BY Client, SMT DEF SocketStates
<1>5. \A j \in Sockets : j # k => states[j] = sockets[c][j]
  BY Client
<1> HIDE DEF states
<1>6. /\ \A j \in Sockets : states[j] \in Alive => k = j
      /\ states[k] # "none" /\ k \in Sockets \cup {0}
  BY <1>2, <1>4, <1>5, Client, SMT DEF ConnInv
<1> QED BY <1>2, <1>3, <1>4, <1>6, Others, Zenon

\* A socket that begins to close is still the one in use.
LEMMA SocketClosesStep ==
    ASSUME FeedInv, NEW c \in Conns, NEW k \in Sockets, SocketCloses(c, k)
    PROVE  FeedInv'
<1> DEFINE states == [sockets[c] EXCEPT ![k] = "closing"]
<1>1. sockets' = [sockets EXCEPT ![c][k] = "closing"] /\ UNCHANGED <<ws, isConnected, reconnectTimer>>
  BY DEF SocketCloses
<1>2. /\ sockets' = [sockets EXCEPT ![c] = states] /\ ws' = [ws EXCEPT ![c] = ws[c]]
      /\ isConnected' = [isConnected EXCEPT ![c] = isConnected[c]]
      /\ reconnectTimer' = [reconnectTimer EXCEPT ![c] = reconnectTimer[c]]
  BY <1>1, Client
<1>3. states \in [Sockets -> SocketStates] /\ states[k] = "closing"
  BY Client, SMT DEF SocketStates
<1>4. \A j \in Sockets : j # k => states[j] = sockets[c][j]
  BY Client
<1> HIDE DEF states
<1>5. /\ \A j \in Sockets : states[j] \in Alive => sockets[c][j] \in Alive
      /\ \A j \in Sockets : sockets[c][j] # "none" => states[j] # "none"
  BY <1>3, <1>4, SMT DEF Alive
<1>6. /\ \A j \in Sockets : states[j] \in Alive => ws[c] = j
      /\ ws[c] # 0 => states[ws[c]] # "none"
      /\ isConnected[c] => ws[c] # 0
      /\ ws[c] = 0 => reconnectTimer[c]
      /\ reconnectTimer[c] => ws[c] = 0 \/ states[ws[c]] \notin Alive
  BY <1>5, Client, Zenon DEF ConnInv, Busy
<1>7. /\ ws[c] \in Sockets \cup {0}
      /\ isConnected[c] \in BOOLEAN /\ reconnectTimer[c] \in BOOLEAN
  BY Client
<1> QED BY <1>2, <1>3, <1>6, <1>7, Others, Zenon

\* A close event of a socket no longer in use changes nothing else.
LEMMA SocketClosedStep ==
    ASSUME FeedInv, NEW c \in Conns, NEW k \in Sockets, SocketClosed(c, k)
    PROVE  FeedInv'
<1> DEFINE states == [sockets[c] EXCEPT ![k] = "none"]
<1>1. sockets' = [sockets EXCEPT ![c] = states]
  <2>1. sockets' = [sockets EXCEPT ![c][k] = "none"]
    BY DEF SocketClosed
  <2> QED BY <2>1, Client
<1>2. states \in [Sockets -> SocketStates] /\ states[k] = "none"
  BY Client, SMT DEF SocketStates
<1>3. \A j \in Sockets : j # k => states[j] = sockets[c][j]
  BY Client
<1> HIDE DEF states
<1>4. \A j \in Sockets : states[j] \in Alive => j # k /\ sockets[c][j] \in Alive
  BY <1>2, <1>3, SMT DEF Alive
<1>5. CASE InUse(c, k)
  <2>1. /\ ws' = [ws EXCEPT ![c] = 0]
        /\ isConnected' = [isConnected EXCEPT ![c] = FALSE]
        /\ reconnectTimer' = [reconnectTimer EXCEPT ![c] = TRUE]
    BY <1>5 DEF SocketClosed
  <2>2. \A j \in Sockets : states[j] \notin Alive
    BY <1>4, <1>5, Client, Zenon DEF ConnInv, InUse
  <2>3. 0 \in Sockets \cup {0} /\ TRUE \in BOOLEAN /\ FALSE \in BOOLEAN
    OBVIOUS
  <2> QED BY <1>1, <1>2, <2>1, <2>2, <2>3, Others, Zenon
<1>6. CASE ~InUse(c, k)
  <2>1. /\ ws' = [ws EXCEPT ![c] = ws[c]]
        /\ isConnected' = [isConnected EXCEPT ![c] = isConnected[c]]
        /\ reconnectTimer' = [reconnectTimer EXCEPT ![c] = reconnectTimer[c]]
    BY <1>6, Client DEF SocketClosed
  <2>2. ws[c] # k
    BY <1>6 DEF InUse
  <2>3. /\ \A j \in Sockets : states[j] \in Alive => ws[c] = j
        /\ isConnected[c] => ws[c] # 0
        /\ ws[c] = 0 => reconnectTimer[c]
    BY <1>4, Client, Zenon DEF ConnInv
  <2>4. /\ ws[c] # 0 => states[ws[c]] # "none"
        /\ reconnectTimer[c] => ws[c] = 0 \/ states[ws[c]] \notin Alive
    BY <1>3, <2>2, Client, SMT DEF ConnInv, Busy
  <2>5. /\ ws[c] \in Sockets \cup {0}
        /\ isConnected[c] \in BOOLEAN /\ reconnectTimer[c] \in BOOLEAN
    BY Client
  <2> QED BY <1>1, <1>2, <2>1, <2>3, <2>4, <2>5, Others, Zenon
<1> QED BY <1>5, <1>6

-----------------------------------------------------------------------------
(* What the page does leaves the connections alone.                           *)

LEMMA SameFeed == FeedInv /\ UNCHANGED connection => FeedInv'
BY Zenon DEF FeedInv, ConnTypes, ConnInv, Busy, connection

LEMMA FeedStep == FeedInv /\ Feed => FeedInv'
<1> SUFFICES ASSUME FeedInv, Feed PROVE FeedInv'
  OBVIOUS
<1>1. ASSUME NEW c \in Conns, Connect(c) PROVE FeedInv'
  BY <1>1, OpenSocketStep, Zenon DEF Connect
<1>2. ASSUME NEW c \in Conns, ReconnectFires(c) PROVE FeedInv'
  <2>1. ~Busy(c)
    BY <1>2, Client, Zenon DEF ReconnectFires, ConnInv
  <2> QED BY <1>2, <2>1, OpenSocketStep, Zenon DEF ReconnectFires
<1>3. ASSUME NEW c \in Conns, NEW k \in Sockets,
             SocketOpens(c, k) \/ SocketCloses(c, k) \/ SocketClosed(c, k)
      PROVE  FeedInv'
  BY <1>3, SocketOpensStep, SocketClosesStep, SocketClosedStep, Zenon
<1>4. ASSUME NEW c \in Conns, OnInvalidate(c) PROVE FeedInv'
  BY <1>4, SameFeed, Zenon DEF OnInvalidate, Arrives
<1>5. CASE FetchFails \/ MarkLocalInvalidate \/ InvalidateFires \/ WindowEnds \/ ServerAnswers(Slim(srv))
  BY <1>5, SameFeed, Zenon DEF FetchFails, MarkLocalInvalidate, InvalidateFires, WindowEnds, ServerAnswers
<1> QED BY <1>1, <1>2, <1>3, <1>4, <1>5, Zenon DEF Feed

LEMMA RowsStep ==
    ASSUME \/ \E c \in Conns : OnInbounds(c) \/ OnClientStats(c)
           \/ FetchReturns
           \/ \E i \in Rows : OnSwitchEnable(i) \/ OtherAdmin(i)
           \/ \E g \in toggles : ServerSwitches(g) \/ SwitchReturns(g)
    PROVE  UNCHANGED connection
<1>1. ASSUME NEW c \in Conns, OnInbounds(c) \/ OnClientStats(c) PROVE UNCHANGED connection
  BY <1>1, Zenon DEF OnInbounds, OnClientStats, Arrives
<1>2. FetchReturns => UNCHANGED connection
  BY Zenon DEF FetchReturns
<1>3. ASSUME NEW i \in Rows, OnSwitchEnable(i) \/ OtherAdmin(i) PROVE UNCHANGED connection
  BY <1>3, Zenon DEF OnSwitchEnable, OtherAdmin
<1>4. ASSUME NEW g, ServerSwitches(g) \/ SwitchReturns(g) PROVE UNCHANGED connection
  BY <1>4, Zenon DEF ServerSwitches, SwitchReturns
<1> QED BY <1>1, <1>2, <1>3, <1>4, Zenon

LEMMA FormStep ==
    ASSUME \/ \E i \in Rows, key \in {"edit", "clone", "attach"} : OnRowAction(i, key)
           \/ ServerHydrates \/ HydrateReturns
           \/ OnAddInbound \/ ChangeForm \/ CloseForm \/ Submit
           \/ \E l \in loads : ServerLists(l) \/ FallbacksLoaded(l)
           \/ ServerSaves \/ SaveGoesOn \/ ServerSavesFallbacks \/ SaveReturns \/ SaveFails
    PROVE  UNCHANGED connection
<1>1. ASSUME NEW i \in Rows, NEW key, OnRowAction(i, key) PROVE UNCHANGED connection
  BY <1>1 DEF OnRowAction
<1>2. ServerHydrates \/ HydrateReturns => UNCHANGED connection
  BY Zenon DEF ServerHydrates, HydrateReturns
<1>3. OnAddInbound \/ ChangeForm \/ CloseForm \/ Submit => UNCHANGED connection
  BY Zenon DEF OnAddInbound, ChangeForm, CloseForm, Submit
<1>4. ASSUME NEW l, ServerLists(l) \/ FallbacksLoaded(l) PROVE UNCHANGED connection
  BY <1>4, Zenon DEF ServerLists, FallbacksLoaded
<1>5. ServerSaves \/ SaveGoesOn \/ ServerSavesFallbacks => UNCHANGED connection
  BY Zenon DEF ServerSaves, SaveGoesOn, ServerSavesFallbacks
<1>6. SaveReturns \/ SaveFails => UNCHANGED connection
  BY Zenon DEF SaveReturns, SaveFails, Refresh
<1> QED BY <1>1, <1>2, <1>3, <1>4, <1>5, <1>6, Zenon

LEMMA DialogStep ==
    ASSUME \/ \E kind \in {"delete", "delAllClients", "detach"}, i \in Rows : OpenConfirm(kind, {i})
           \/ \E ids \in SUBSET Rows : OpenConfirm("delete", ids)
           \/ Cancel \/ Answer \/ ServerDoes \/ RequestReturns
    PROVE  UNCHANGED connection
<1>1. ASSUME NEW kind, NEW ids, OpenConfirm(kind, ids) PROVE UNCHANGED connection
  BY <1>1 DEF OpenConfirm
<1>2. Cancel \/ Answer \/ ServerDoes => UNCHANGED connection
  BY Zenon DEF Cancel, Answer, ServerDoes
<1>3. RequestReturns => UNCHANGED connection
  BY Zenon DEF RequestReturns, Refresh
<1> QED BY <1>1, <1>2, <1>3, Zenon

-----------------------------------------------------------------------------
(* The invariant of the connections and what it gives.                        *)

LEMMA InitFeed == Init => FeedInv
<1> SUFFICES ASSUME Init PROVE FeedInv
  OBVIOUS
<1> DEFINE first == CHOOSE k \in Sockets : TRUE
<1>1. first \in Sockets /\ first # 0
  BY FeedAssumption, Zenon
<1> HIDE DEF first
<1>2. /\ ws = [c \in Conns |-> first]
      /\ sockets = [c \in Conns |-> [k \in Sockets |-> IF k = ws[c] THEN "open" ELSE "none"]]
      /\ isConnected = [c \in Conns |-> TRUE] /\ reconnectTimer = [c \in Conns |-> FALSE]
  BY DEF Init, FeedInit, first
<1>3. ConnTypes
  BY <1>1, <1>2, SMT DEF ConnTypes, SocketStates
<1>4. ASSUME NEW c \in Conns PROVE ConnInv(c)
  <2>1. /\ ws[c] = first /\ isConnected[c] /\ ~reconnectTimer[c]
        /\ \A k \in Sockets : sockets[c][k] = IF k = first THEN "open" ELSE "none"
    BY <1>2
  <2>2. sockets[c][first] # "none" /\ \A k \in Sockets : sockets[c][k] \in Alive => first = k
    BY <1>1, <2>1, SMT DEF Alive
  <2> QED BY <1>1, <2>1, <2>2, Zenon DEF ConnInv
<1> QED BY <1>3, <1>4 DEF FeedInv

LEMMA StepFeed == FeedInv /\ [Next]_vars => FeedInv'
<1> SUFFICES ASSUME FeedInv, [Next]_vars PROVE FeedInv'
  OBVIOUS
<1>1. CASE UNCHANGED vars
  BY <1>1, SameFeed, Zenon DEF vars
<1>2. CASE Next
  <2>1. Feed \/ UNCHANGED connection
    BY <1>2, RowsStep, FormStep, DialogStep, Zenon DEF Next
  <2> QED BY <2>1, FeedStep, SameFeed, Zenon
<1> QED BY <1>1, <1>2

LEMMA FeedAlways == Spec => []FeedInv
BY InitFeed, StepFeed, PTL DEF Spec

\* A client never has two sockets that can deliver, however its timer, its
\* pages and the closing of its sockets interleave.
THEOREM OneSocket == Spec => []SingleSocket
<1>1. FeedInv => SingleSocket
  BY Zenon DEF FeedInv, ConnInv, SingleSocket
<1> QED BY <1>1, FeedAlways, PTL

\* A client without a socket has the timer that makes one, and shows itself
\* connected only while it holds one.
THEOREM NobodyStranded == Spec => []NeverStranded
<1>1. FeedInv => NeverStranded
  BY Zenon DEF FeedInv, ConnInv, NeverStranded
<1> QED BY <1>1, FeedAlways, PTL
-----------------------------------------------------------------------------
(* The page: what its rows, forms and requests hold.                          *)

\* What travels to a client: a list, or word that the lists are out of date.
Event == [type : {"inbounds", "client_stats"}, list : Lists] \cup [type : {"invalidate"}, list : {<<>>}]
Fetches == [st : {"none", "asked"}, list : {<<>>}, retry : BOOLEAN]
           \cup [st : {"answered"}, list : Lists, retry : BOOLEAN]
Toggle == [id : Rows, next : BOOLEAN, st : {"sent", "done", "failed"}, same : BOOLEAN]
Dialog == [kind : {"none", "delete", "delAllClients", "detach", "clone", "attach"}, ids : SUBSET Rows, row : Row]
Form == [open : BOOLEAN, mode : {"add", "edit"}, id : Rows \cup {Gone}, row : Row, fb : SUBSET Dests]
SaveStates == {"none", "sent", "failed", "saved", "fallbacks", "over"}
Save == [st : SaveStates, mode : {"add", "edit"}, id : Rows \cup {Gone}, row : Row, fb : SUBSET Dests]
Hydrate == [st : {"none", "asked", "answered"}, id : Rows \cup {Gone}, row : Row,
            key : {"edit", "clone", "attach"}, got : Row \cup {Gone}]
Load == [id : Rows, st : {"asked", "answered"}, got : SUBSET Dests]

\* The server's inbounds hold no client without its key.
ServerKeyed == \A i \in Keyed : srv[i] # Gone => Valid(i, srv[i])
NoClients(row) == \A m \in Mails : row.cl[m] = "none"

ServerInv == srv \in Lists /\ fbs \in [Rows -> SUBSET Dests] /\ ServerKeyed
WireInv == wire \in [Conns -> Seq(Event)]
QueryInv == slim \in Lists /\ fetch \in Fetches
RowsInv == rows \in Lists /\ There(rows) = There(slim)
TogglesInv == toggles \subseteq Toggle
HydrateInv == hydrate \in Hydrate /\ (hydrate.st # "none" => hydrate.id \in Rows)
LoadsInv == loads \subseteq Load
\* An added inbound has no clients; one that is edited has the keys it needs
\* by the time it is sent.
FormInv == form \in Form /\ (form.mode = "edit" => form.id \in Rows) /\ (form.mode = "add" => NoClients(form.row))
SaveInv ==
    /\ save \in Save
    /\ save.st # "none" /\ save.mode = "edit" => save.id \in Rows
    /\ save.st = "sent" =>
           IF save.mode = "edit" THEN Valid(save.id, save.row) ELSE NoClients(save.row)
    /\ save.st \in {"saved", "fallbacks", "over"} => save.id \in Rows
DialogInv == confirm \in Dialog /\ request \in [st : {"none", "sent", "done"}, do : Dialog]

PageInv ==
    /\ ServerInv /\ WireInv /\ QueryInv /\ RowsInv /\ TogglesInv
    /\ HydrateInv /\ LoadsInv /\ FormInv /\ SaveInv /\ DialogInv

-----------------------------------------------------------------------------
(* Rows and lists of rows.                                                    *)

LEMMA OwnFact ==
    /\ "full" \in Own /\ "bare" \in Own
    /\ \A k \in Own : k # "none" /\ k # "slim" /\ k # "fresh"
BY DEF Own

LEMMA NoRowFact == NoRow \in Row /\ NoClients(NoRow)
<1> DEFINE r == [conf |-> "new", enable |-> TRUE, cl |-> [m \in Mails |-> "none"]]
<1>1. r \in Row /\ r.conf = "new" /\ r.enable /\ \A m \in Mails : r.cl[m] = "none"
  BY SMT DEF Row, Confs, Clients
<1> HIDE DEF r
<1> QED BY <1>1, Zenon DEF NoRow, NoClients

LEMMA RowChanges ==
    ASSUME NEW r \in Row
    PROVE  /\ \A b \in BOOLEAN : [r EXCEPT !.enable = b] \in Row /\ [r EXCEPT !.enable = b].cl = r.cl
           /\ \A x \in Confs : [r EXCEPT !.conf = x] \in Row /\ [r EXCEPT !.conf = x].cl = r.cl
           /\ \A x \in Clients : [r EXCEPT !.cl = x] \in Row /\ [r EXCEPT !.cl = x].cl = x
           /\ r.enable \in BOOLEAN /\ r.cl \in Clients
BY SMT DEF Row

\* What the list leaves out are keys, never rows.
LEMMA SlimIsList ==
    ASSUME NEW list \in Lists
    PROVE  Slim(list) \in Lists
<1>1. ASSUME NEW i \in Rows, list[i] # Gone
      PROVE  [list[i] EXCEPT !.cl = [m \in Mails |-> IF list[i].cl[m] = "none" THEN "none" ELSE "slim"]] \in Row
  <2>1. list[i] \in Row
    BY <1>1 DEF Lists
  <2>2. [m \in Mails |-> IF list[i].cl[m] = "none" THEN "none" ELSE "slim"] \in Clients
    BY DEF Clients
  <2> QED BY <2>1, <2>2, RowChanges, Zenon
<1> QED BY <1>1 DEF Slim, Lists

\* Nobody sends a client anything but an event.
LEMMA SentEvents ==
    ASSUME WireInv, NEW event \in Event
    PROVE  Sent(event) \in [Conns -> Seq(Event)]
<1>1. ASSUME NEW c \in Conns PROVE wire[c] \in Seq(Event) /\ Append(wire[c], event) \in Seq(Event)
  BY DEF WireInv
<1> QED BY <1>1 DEF Sent

LEMMA ListEvents ==
    ASSUME NEW list \in Lists
    PROVE  /\ [type |-> "inbounds", list |-> list] \in Event
           /\ [type |-> "client_stats", list |-> list] \in Event
           /\ [type |-> "invalidate", list |-> <<>>] \in Event
BY DEF Event

LEMMA EventArrives ==
    ASSUME WireInv, NEW c \in Conns, NEW i \in 1..Len(wire[c]), Arrives(c, wire[c][i])
    PROVE  WireInv' /\ wire[c][i] \in Event /\ UNCHANGED connection
<1>1. wire[c] \in Seq(Event)
  BY DEF WireInv
<1>2. wire[c] # <<>> /\ wire' = [wire EXCEPT ![c] = Tail(wire[c])] /\ UNCHANGED connection
  BY DEF Arrives
<1>3. Tail(wire[c]) \in Seq(Event)
  BY <1>1, <1>2
<1> QED BY <1>1, <1>2, <1>3 DEF WireInv

-----------------------------------------------------------------------------
(* What a step leaves alone stays as it should be.                            *)

LEMMA Frame ==
    ASSUME PageInv
    PROVE  /\ UNCHANGED <<srv, fbs>> => ServerInv'
           /\ UNCHANGED wire => WireInv'
           /\ UNCHANGED query => QueryInv'
           /\ UNCHANGED <<rows, slim>> => RowsInv'
           /\ UNCHANGED toggles => TogglesInv'
           /\ UNCHANGED hydrate => HydrateInv'
           /\ UNCHANGED loads => LoadsInv'
           /\ UNCHANGED form => FormInv'
           /\ UNCHANGED save => SaveInv'
           /\ UNCHANGED <<confirm, request>> => DialogInv'
<1>1. UNCHANGED <<srv, fbs>> => ServerInv'
  BY DEF PageInv, ServerInv, ServerKeyed, Valid
<1>2. UNCHANGED wire => WireInv'
  BY DEF PageInv, WireInv
<1>3. UNCHANGED query => QueryInv'
  BY DEF PageInv, QueryInv, query
<1>4. UNCHANGED <<rows, slim>> => RowsInv'
  BY DEF PageInv, RowsInv, There
<1>5. UNCHANGED toggles => TogglesInv'
  BY DEF PageInv, TogglesInv
<1>6. UNCHANGED hydrate => HydrateInv'
  BY DEF PageInv, HydrateInv
<1>7. UNCHANGED loads => LoadsInv'
  BY DEF PageInv, LoadsInv
<1>8. UNCHANGED form => FormInv'
  BY DEF PageInv, FormInv, NoClients
<1>9. UNCHANGED save => SaveInv'
  BY Zenon DEF PageInv, SaveInv, NoClients, Valid
<1>10. UNCHANGED <<confirm, request>> => DialogInv'
  BY DEF PageInv, DialogInv
<1> QED BY <1>1, <1>2, <1>3, <1>4, <1>5, <1>6, <1>7, <1>8, <1>9, <1>10, Zenon

-----------------------------------------------------------------------------
(* The steps that take a list or change a row.                                *)

LEMMA ToggleFields ==
    ASSUME PageInv, NEW g \in toggles
    PROVE  /\ g.id \in Rows /\ g.next \in BOOLEAN
           /\ \A s \in {"sent", "done", "failed"} : [g EXCEPT !.st = s] \in Toggle
           /\ [g EXCEPT !.same = FALSE] \in Toggle
<1>1. g \in Toggle
  BY DEF PageInv, TogglesInv
<1>2. g.id \in Rows /\ g.next \in BOOLEAN
  BY <1>1 DEF Toggle
<1>3. ASSUME NEW s \in {"sent", "done", "failed"} PROVE [g EXCEPT !.st = s] \in Toggle
  BY <1>1, SMT DEF Toggle
<1>4. ASSUME NEW b \in BOOLEAN PROVE [g EXCEPT !.same = b] \in Toggle
  BY <1>1, SMT DEF Toggle
<1>5. [g EXCEPT !.same = FALSE] \in Toggle
  BY <1>4, Zenon
<1> QED BY <1>2, <1>3, <1>5

LEMMA TakeListStep ==
    ASSUME PageInv, NEW list \in Lists, TakeList(list)
    PROVE  slim' \in Lists /\ RowsInv' /\ TogglesInv'
<1>1. slim' = list /\ rows' = list
  BY DEF TakeList, Seed
<1>2. RowsInv'
  BY <1>1 DEF RowsInv, There
<1>3. \A g \in toggles : [g EXCEPT !.same = FALSE] \in Toggle
  BY ToggleFields
<1>4. TogglesInv'
  BY <1>3, Zenon DEF TakeList, TogglesInv
<1> QED BY <1>1, <1>2, <1>4

\* A row that is there is replaced by another.
LEMMA RowStep ==
    ASSUME PageInv, NEW i \in Rows, rows[i] # Gone, NEW r \in Row,
           rows' = [rows EXCEPT ![i] = r], UNCHANGED slim
    PROVE  RowsInv'
<1>1. rows \in Lists /\ There(rows) = There(slim)
  BY DEF PageInv, RowsInv
<1>2. rows' \in Lists /\ rows'[i] = r /\ \A j \in Rows : j # i => rows'[j] = rows[j]
  BY <1>1 DEF Lists
<1>3. r # Gone
  BY PageAssumption
<1>4. There(rows') = There(rows)
  BY <1>2, <1>3, SMT DEF There
<1> QED BY <1>1, <1>2, <1>4, Zenon DEF RowsInv, There

LEMMA OnInboundsStep ==
    ASSUME PageInv, NEW c \in Conns, OnInbounds(c)
    PROVE  PageInv'
<1>1. PICK i \in 1..Len(wire[c]) :
          wire[c][i].type = "inbounds" /\ Arrives(c, wire[c][i]) /\ TakeList(wire[c][i].list)
  BY Zenon DEF OnInbounds
<1>2. WireInv' /\ wire[c][i] \in Event
  BY <1>1, EventArrives DEF PageInv
<1>3. wire[c][i].list \in Lists
  BY <1>1, <1>2, SMT DEF Event
<1>4. slim' \in Lists /\ RowsInv' /\ TogglesInv'
  BY <1>1, <1>3, TakeListStep
<1>5. UNCHANGED <<fetch, srv, fbs, hydrate, loads, form, save, confirm, request>>
  BY DEF OnInbounds
<1>6. QueryInv'
  BY <1>4, <1>5 DEF PageInv, QueryInv
<1> QED BY <1>2, <1>4, <1>5, <1>6, Frame, Zenon DEF PageInv

LEMMA FetchReturnsStep ==
    ASSUME PageInv, FetchReturns
    PROVE  PageInv'
<1>1. /\ fetch.st = "answered" /\ TakeList(fetch.list) /\ fetch' = NoFetch
      /\ UNCHANGED <<wire, srv, fbs, hydrate, loads, form, save, confirm, request>>
  BY DEF FetchReturns
<1>2. fetch.list \in Lists
  BY <1>1, SMT DEF PageInv, QueryInv, Fetches
<1>3. slim' \in Lists /\ RowsInv' /\ TogglesInv'
  BY <1>1, <1>2, TakeListStep
<1>4. QueryInv'
  BY <1>1, <1>3, SMT DEF QueryInv, Fetches, NoFetch
<1> QED BY <1>1, <1>3, <1>4, Frame, Zenon DEF PageInv

LEMMA OnClientStatsStep ==
    ASSUME PageInv, NEW c \in Conns, OnClientStats(c)
    PROVE  PageInv'
<1>1. PICK i \in 1..Len(wire[c]) :
          /\ wire[c][i].type = "client_stats" /\ Arrives(c, wire[c][i])
          /\ rows' = [j \in Rows |-> IF rows[j] = Gone \/ wire[c][i].list[j] = Gone THEN rows[j]
                                     ELSE [rows[j] EXCEPT !.enable = wire[c][i].list[j].enable]]
  BY Zenon DEF OnClientStats
<1> DEFINE list == wire[c][i].list
<1>2. WireInv' /\ wire[c][i] \in Event
  BY <1>1, EventArrives DEF PageInv
<1>3. list \in Lists
  BY <1>1, <1>2, SMT DEF Event
<1> HIDE DEF list
<1>4. rows \in Lists /\ There(rows) = There(slim)
  BY DEF PageInv, RowsInv
<1>5. ASSUME NEW j \in Rows
      PROVE  rows'[j] \in Row \cup {Gone} /\ (rows'[j] = Gone <=> rows[j] = Gone)
  <2>1. CASE rows[j] = Gone \/ list[j] = Gone
    BY <1>1, <1>4, <2>1 DEF Lists, list
  <2>2. CASE ~(rows[j] = Gone \/ list[j] = Gone)
    <3>1. rows[j] \in Row /\ list[j] \in Row
      BY <1>3, <1>4, <2>2 DEF Lists
    <3>2. [rows[j] EXCEPT !.enable = list[j].enable] \in Row
      BY <3>1, RowChanges, Zenon
    <3> QED BY <1>1, <2>2, <3>2, PageAssumption, Zenon DEF list
  <2> QED BY <2>1, <2>2
<1>6. rows' \in Lists
  BY <1>1, <1>5 DEF Lists
<1>7. UNCHANGED <<query, srv, fbs, toggles, hydrate, loads, form, save, confirm, request>>
  BY DEF OnClientStats
<1>8. RowsInv'
  BY <1>4, <1>5, <1>6, <1>7, Zenon DEF RowsInv, There, query
<1> QED BY <1>2, <1>7, <1>8, Frame, Zenon DEF PageInv

LEMMA OnSwitchEnableStep ==
    ASSUME PageInv, NEW i \in Rows, OnSwitchEnable(i)
    PROVE  PageInv'
<1>1. /\ rows[i] # Gone
      /\ rows' = [rows EXCEPT ![i].enable = ~@]
      /\ toggles' = toggles \cup {[id |-> i, next |-> ~rows[i].enable, st |-> "sent", same |-> TRUE]}
      /\ UNCHANGED <<wire, query, srv, fbs, hydrate, loads, form, save, confirm, request>>
  BY DEF OnSwitchEnable
<1>2. rows[i] \in Row
  BY <1>1 DEF PageInv, RowsInv, Lists
<1>3. [rows[i] EXCEPT !.enable = ~rows[i].enable] \in Row
  BY <1>2, RowChanges, Zenon
<1>4. RowsInv'
  BY <1>1, <1>3, RowStep DEF query
<1>5. [id |-> i, next |-> ~rows[i].enable, st |-> "sent", same |-> TRUE] \in Toggle
  BY SMT DEF Toggle
<1>6. TogglesInv'
  BY <1>1, <1>5 DEF PageInv, TogglesInv
<1> QED BY <1>1, <1>4, <1>6, Frame, Zenon DEF PageInv

\* A change of the server's rows that leaves the keys where they are.
LEMMA ServerRow ==
    ASSUME PageInv, NEW i \in Rows, NEW x \in Row \cup {Gone},
           x # Gone => Valid(i, x),
           srv' = [srv EXCEPT ![i] = x], UNCHANGED fbs
    PROVE  ServerInv'
<1>1. srv \in Lists /\ fbs \in [Rows -> SUBSET Dests] /\ ServerKeyed
  BY DEF PageInv, ServerInv
<1>2. srv' \in Lists /\ srv'[i] = x /\ \A j \in Rows : j # i => srv'[j] = srv[j]
  BY <1>1 DEF Lists
<1>3. ServerKeyed'
  BY <1>1, <1>2, PageAssumption, Zenon DEF ServerKeyed, Valid
<1> QED BY <1>1, <1>2, <1>3 DEF ServerInv

\* What holds of the row of an inbound the server has.
LEMMA ServerHas ==
    ASSUME PageInv, NEW i \in Rows, srv[i] # Gone
    PROVE  srv[i] \in Row /\ Valid(i, srv[i])
<1>1. srv[i] \in Row
  BY DEF PageInv, ServerInv, Lists
<1>2. Valid(i, srv[i])
  BY Zenon DEF PageInv, ServerInv, ServerKeyed, Valid
<1> QED BY <1>1, <1>2

\* The clients of a row decide whether it has its keys.
LEMMA SameClients ==
    ASSUME NEW i, NEW r, NEW s, r.cl = s.cl, Valid(i, s)
    PROVE  Valid(i, r)
BY Zenon DEF Valid

LEMMA ServerSwitchesStep ==
    ASSUME PageInv, NEW g \in toggles, ServerSwitches(g)
    PROVE  PageInv'
<1>1. UNCHANGED <<query, fbs, rows, hydrate, loads, form, save, confirm, request>>
  BY DEF ServerSwitches
<1>2. ASSUME NEW s \in {"sent", "done", "failed"}, toggles' = (toggles \ {g}) \cup {[g EXCEPT !.st = s]}
      PROVE  TogglesInv'
  BY <1>2, ToggleFields, Zenon DEF PageInv, TogglesInv
<1>3. CASE srv[g.id] = Gone
  <2>1. UNCHANGED <<srv, wire>> /\ toggles' = (toggles \ {g}) \cup {[g EXCEPT !.st = "failed"]}
    BY <1>3 DEF ServerSwitches
  <2> QED BY <1>1, <1>2, <2>1, Frame, Zenon DEF PageInv, query
<1>4. CASE srv[g.id] # Gone
  <2>1. /\ srv' = [srv EXCEPT ![g.id].enable = g.next] /\ wire' = OutOfDate
        /\ toggles' = (toggles \ {g}) \cup {[g EXCEPT !.st = "done"]}
    BY <1>4 DEF ServerSwitches
  <2>2. g.id \in Rows /\ g.next \in BOOLEAN
    BY ToggleFields
  <2>3. srv[g.id] \in Row /\ Valid(g.id, srv[g.id])
    BY <1>4, <2>2, ServerHas
  <2> DEFINE new == [srv[g.id] EXCEPT !.enable = g.next]
  <2>4. new \in Row /\ new.cl = srv[g.id].cl
    BY <2>2, <2>3, RowChanges
  <2>5. Valid(g.id, new)
    BY <2>3, <2>4, SameClients, Zenon
  <2>6. ServerInv'
    BY <1>1, <2>1, <2>2, <2>4, <2>5, ServerRow
  <2>7. WireInv'
    BY <2>1, ListEvents, SentEvents, Zenon DEF PageInv, QueryInv, WireInv, OutOfDate
  <2> QED BY <1>1, <1>2, <2>1, <2>6, <2>7, Frame, Zenon DEF PageInv, query
<1> QED BY <1>3, <1>4

LEMMA SwitchReturnsStep ==
    ASSUME PageInv, NEW g \in toggles, SwitchReturns(g)
    PROVE  PageInv'
<1>1. /\ toggles' = toggles \ {g}
      /\ UNCHANGED <<wire, query, srv, fbs, hydrate, loads, form, save, confirm, request>>
  BY DEF SwitchReturns
<1>2. TogglesInv'
  BY <1>1 DEF PageInv, TogglesInv
<1>3. CASE rows' = rows
  BY <1>1, <1>2, <1>3, Frame, Zenon DEF PageInv, query
<1>4. CASE rows' = [rows EXCEPT ![g.id].enable = ~g.next] /\ rows[g.id] # Gone
  <2>1. g.id \in Rows /\ rows[g.id] \in Row
    BY <1>4, ToggleFields DEF PageInv, RowsInv, Lists
  <2>2. [rows[g.id] EXCEPT !.enable = ~g.next] \in Row
    BY <2>1, RowChanges, Zenon
  <2>3. RowsInv'
    BY <1>1, <1>4, <2>1, <2>2, RowStep DEF query
  <2> QED BY <1>1, <1>2, <2>3, Frame, Zenon DEF PageInv
<1> QED BY <1>3, <1>4, Zenon DEF SwitchReturns

-----------------------------------------------------------------------------
(* The full record and the form.                                              *)

LEMMA OnRowActionStep ==
    ASSUME PageInv, NEW i \in Rows, NEW key \in {"edit", "clone", "attach"}, OnRowAction(i, key)
    PROVE  PageInv'
<1>1. /\ rows[i] # Gone
      /\ hydrate' = [st |-> "asked", id |-> i, row |-> rows[i], key |-> key, got |-> Gone]
      /\ UNCHANGED <<wire, query, srv, fbs, rows, toggles, loads, form, save, confirm, request>>
  BY DEF OnRowAction
<1>2. rows[i] \in Row
  BY <1>1 DEF PageInv, RowsInv, Lists
<1>3. HydrateInv'
  BY <1>1, <1>2 DEF HydrateInv, Hydrate
<1> QED BY <1>1, <1>3, Frame, Zenon DEF PageInv, query

LEMMA ServerHydratesStep ==
    ASSUME PageInv, ServerHydrates
    PROVE  PageInv'
<1>1. /\ hydrate.st = "asked"
      /\ hydrate' = [hydrate EXCEPT !.st = "answered", !.got = srv[hydrate.id]]
      /\ UNCHANGED <<wire, query, srv, fbs, rows, toggles, loads, form, save, confirm, request>>
  BY DEF ServerHydrates
<1>2. hydrate \in Hydrate /\ hydrate.id \in Rows
  BY <1>1 DEF PageInv, HydrateInv
<1>3. srv[hydrate.id] \in Row \cup {Gone}
  BY <1>2 DEF PageInv, ServerInv, Lists
<1>4. hydrate' \in Hydrate /\ hydrate'.id = hydrate.id
  <2> DEFINE sent == [hydrate EXCEPT !.st = "answered"]
  <2>1. sent \in Hydrate /\ sent.id = hydrate.id
    BY <1>2, SMT DEF Hydrate
  <2>2. hydrate' = [sent EXCEPT !.got = srv[hydrate.id]]
    BY <1>1, <1>2, SMT DEF Hydrate
  <2> HIDE DEF sent
  <2> QED BY <1>3, <2>1, <2>2, SMT DEF Hydrate
<1>5. HydrateInv'
  BY <1>2, <1>4 DEF HydrateInv
<1> QED BY <1>1, <1>5, Frame, Zenon DEF PageInv, query

LEMMA Opens ==
    ASSUME PageInv, NEW i \in Rows, NEW row \in Row, NEW key \in {"edit", "clone", "attach"},
           UNCHANGED request,
           IF key = "edit" THEN OpenEdit(i, row) ELSE OpenDialog(key, i, row)
    PROVE  FormInv' /\ LoadsInv' /\ DialogInv'
<1>1. CASE key = "edit"
  <2>1. /\ form' = [open |-> TRUE, mode |-> "edit", id |-> i, row |-> row, fb |-> {}]
        /\ loads' = IF i \in Keyed THEN loads \cup {[id |-> i, st |-> "asked", got |-> {}]} ELSE loads
        /\ UNCHANGED confirm
    BY <1>1 DEF OpenEdit
  <2>2. FormInv'
    BY <2>1 DEF FormInv, Form
  <2>3. LoadsInv'
    BY <2>1 DEF PageInv, LoadsInv, Load
  <2> QED BY <2>1, <2>2, <2>3, Frame
<1>2. CASE key # "edit"
  <2>1. confirm' = [kind |-> key, ids |-> {i}, row |-> row] /\ UNCHANGED <<form, loads>>
    BY <1>2 DEF OpenDialog
  <2>2. confirm' \in Dialog
    <3>1. key \in {"none", "delete", "delAllClients", "detach", "clone", "attach"} /\ {i} \in SUBSET Rows
      BY <1>2
    <3> QED BY <2>1, <3>1, SMT DEF Dialog
  <2>3. DialogInv'
    BY <2>2 DEF PageInv, DialogInv
  <2> QED BY <2>1, <2>3, Frame
<1> QED BY <1>1, <1>2

LEMMA HydrateReturnsStep ==
    ASSUME PageInv, HydrateReturns
    PROVE  PageInv'
<1> DEFINE failed == hydrate.got = Gone
           target == IF failed THEN hydrate.row ELSE hydrate.got
<1>1. /\ hydrate.st # "none" /\ hydrate' = NoHydrate
      /\ IF ~failed /\ rows[hydrate.id] # Gone
         THEN /\ rows' = [rows EXCEPT ![hydrate.id] = hydrate.got]
              /\ toggles' = {IF g.id = hydrate.id THEN [g EXCEPT !.same = FALSE] ELSE g : g \in toggles}
         ELSE UNCHANGED <<rows, toggles>>
      /\ IF hydrate.key = "edit" THEN OpenEdit(hydrate.id, target)
         ELSE OpenDialog(hydrate.key, hydrate.id, target)
      /\ UNCHANGED <<wire, query, srv, fbs, save, request>>
  BY DEF HydrateReturns
<1>2. /\ hydrate.id \in Rows /\ hydrate.row \in Row /\ hydrate.got \in Row \cup {Gone}
      /\ hydrate.key \in {"edit", "clone", "attach"}
  BY <1>1, SMT DEF PageInv, HydrateInv, Hydrate
<1>3. target \in Row
  BY <1>2
<1> HIDE DEF target
<1>4. FormInv' /\ LoadsInv' /\ DialogInv'
  BY <1>1, <1>2, <1>3, Opens
<1>5. HydrateInv'
  BY <1>1, NoRowFact DEF HydrateInv, Hydrate, NoHydrate
<1>6. RowsInv' /\ TogglesInv'
  <2>1. CASE ~failed /\ rows[hydrate.id] # Gone
    <3>1. hydrate.got \in Row
      BY <1>2, <2>1
    <3>2. RowsInv'
      BY <1>1, <1>2, <2>1, <3>1, RowStep DEF query
    <3>3. \A g \in toggles : [g EXCEPT !.same = FALSE] \in Toggle /\ g \in Toggle
      BY ToggleFields DEF PageInv, TogglesInv
    <3>4. TogglesInv'
      <4>1. ASSUME NEW h \in toggles' PROVE h \in Toggle
        <5>1. PICK g \in toggles : h = IF g.id = hydrate.id THEN [g EXCEPT !.same = FALSE] ELSE g
          BY <1>1, <2>1, <4>1
        <5> QED BY <3>3, <5>1
      <4> QED BY <4>1 DEF TogglesInv
    <3> QED BY <3>2, <3>4
  <2>2. CASE ~(~failed /\ rows[hydrate.id] # Gone)
    BY <1>1, <2>2, Frame, Zenon DEF query
  <2> QED BY <2>1, <2>2
<1> QED BY <1>1, <1>4, <1>5, <1>6, Frame, Zenon DEF PageInv

LEMMA NoFormFact == NoForm \in Form /\ NoForm.mode = "add" /\ NoClients(NoForm.row)
BY NoRowFact DEF NoForm, Form

LEMMA FormFields ==
    ASSUME PageInv
    PROVE  /\ form \in Form /\ form.row \in Row /\ form.fb \in SUBSET Dests
           /\ form.id \in Rows \cup {Gone} /\ form.mode \in {"add", "edit"}
BY DEF PageInv, FormInv, Form

\* A change of the form that leaves the inbound and its clients alone.
LEMMA FormChange ==
    ASSUME PageInv, form' \in Form, form'.mode = form.mode, form'.id = form.id, form'.row.cl = form.row.cl
    PROVE  FormInv'
BY Zenon DEF PageInv, FormInv, NoClients

LEMMA OnAddInboundStep ==
    ASSUME PageInv, OnAddInbound \/ CloseForm
    PROVE  PageInv'
<1>1. /\ form' = NoForm \/ form' = [NoForm EXCEPT !.open = TRUE]
      /\ UNCHANGED <<wire, query, srv, fbs, rows, toggles, hydrate, loads, save, confirm, request>>
  BY Zenon DEF OnAddInbound, CloseForm
<1> DEFINE f(b) == [open |-> b, mode |-> "add", id |-> Gone, row |-> NoRow, fb |-> {}]
<1>2. ASSUME NEW b \in BOOLEAN PROVE f(b) \in Form /\ f(b).mode = "add" /\ f(b).row = NoRow
  <2>1. f(b) \in Form
    BY NoRowFact DEF Form
  <2>2. f(b).mode = "add" /\ f(b).row = NoRow
    OBVIOUS
  <2> QED BY <2>1, <2>2
<1>3. NoForm = f(FALSE) /\ \A b \in BOOLEAN : [NoForm EXCEPT !.open = b] = f(b)
  BY DEF NoForm
<1> HIDE DEF f
<1>4. form' \in Form /\ form'.mode = "add" /\ form'.row = NoRow
  BY <1>1, <1>2, <1>3, Zenon
<1>5. FormInv'
  BY <1>4, NoRowFact, Zenon DEF FormInv, NoClients
<1> QED BY <1>1, <1>5, Frame, Zenon DEF PageInv, query

LEMMA FallbacksStep ==
    ASSUME PageInv, NEW l \in loads, ServerLists(l) \/ FallbacksLoaded(l)
    PROVE  PageInv'
<1>1. l \in Load /\ loads \subseteq Load
  BY DEF PageInv, LoadsInv
<1>2. l.id \in Rows /\ l.got \in SUBSET Dests
  BY <1>1 DEF Load
<1>3. CASE ServerLists(l)
  <2>1. /\ loads' = (loads \ {l}) \cup {[l EXCEPT !.st = "answered", !.got = fbs[l.id]]}
        /\ UNCHANGED <<wire, query, srv, fbs, rows, toggles, hydrate, form, save, confirm, request>>
    BY <1>3 DEF ServerLists
  <2>2. fbs[l.id] \in SUBSET Dests
    BY <1>2 DEF PageInv, ServerInv
  <2>3. [l EXCEPT !.st = "answered", !.got = fbs[l.id]] \in Load
    <3> DEFINE sent == [l EXCEPT !.st = "answered"]
    <3>1. sent \in Load
      BY <1>1, SMT DEF Load
    <3>2. [l EXCEPT !.st = "answered", !.got = fbs[l.id]] = [sent EXCEPT !.got = fbs[l.id]]
      OBVIOUS
    <3> HIDE DEF sent
    <3>3. \A got \in SUBSET Dests : [sent EXCEPT !.got = got] \in Load
      BY <3>1, SMT DEF Load
    <3> QED BY <2>2, <3>2, <3>3, Zenon
  <2>4. LoadsInv'
    BY <1>1, <2>1, <2>3, Zenon DEF LoadsInv
  <2> QED BY <2>1, <2>4, Frame, Zenon DEF PageInv, query
<1>4. CASE FallbacksLoaded(l)
  <2>1. /\ form' = IF form.open THEN [form EXCEPT !.fb = l.got] ELSE form
        /\ loads' = loads \ {l}
        /\ UNCHANGED <<wire, query, srv, fbs, rows, toggles, hydrate, save, confirm, request>>
    BY <1>4 DEF FallbacksLoaded
  <2>2. /\ [form EXCEPT !.fb = l.got] \in Form
        /\ [form EXCEPT !.fb = l.got].mode = form.mode
        /\ [form EXCEPT !.fb = l.got].id = form.id
        /\ [form EXCEPT !.fb = l.got].row = form.row
    BY <1>2, FormFields, SMT DEF Form
  <2>3. FormInv'
    BY <2>1, <2>2, FormFields, FormChange
  <2>4. LoadsInv'
    BY <1>1, <2>1 DEF LoadsInv
  <2> QED BY <2>1, <2>3, <2>4, Frame, Zenon DEF PageInv, query
<1> QED BY <1>3, <1>4

LEMMA ChangeFormStep ==
    ASSUME PageInv, ChangeForm
    PROVE  PageInv'
<1>1. UNCHANGED <<wire, query, srv, fbs, rows, toggles, hydrate, loads, save, confirm, request>>
  BY DEF ChangeForm
<1>2. CASE form' = [form EXCEPT !.row.conf = "new"]
  <2> DEFINE row == [form.row EXCEPT !.conf = "new"]
  <2>1. "new" \in Confs
    BY DEF Confs
  <2>2. row \in Row /\ row.cl = form.row.cl
    BY <2>1, FormFields, RowChanges
  <2>3. form' = [form EXCEPT !.row = row]
    BY <1>2
  <2> HIDE DEF row
  <2>4. form' \in Form /\ form'.mode = form.mode /\ form'.id = form.id /\ form'.row = row
    BY <2>2, <2>3, FormFields, SMT DEF Form
  <2> QED BY <1>1, <2>2, <2>4, FormChange, Frame, Zenon DEF PageInv, query
<1>3. CASE \E d \in Dests : form' = [form EXCEPT !.fb = (form.fb \ {d}) \cup ({d} \ form.fb)]
  <2>1. PICK fb : fb \in SUBSET Dests /\ form' = [form EXCEPT !.fb = fb]
    <3>1. PICK d \in Dests : form' = [form EXCEPT !.fb = (form.fb \ {d}) \cup ({d} \ form.fb)]
      BY <1>3
    <3>2. (form.fb \ {d}) \cup ({d} \ form.fb) \in SUBSET Dests
      BY FormFields
    <3> QED BY <3>1, <3>2
  <2>2. form' \in Form /\ form'.mode = form.mode /\ form'.id = form.id /\ form'.row = form.row
    BY <2>1, FormFields, SMT DEF Form
  <2> QED BY <1>1, <2>2, FormChange, Frame, Zenon DEF PageInv, query
<1> QED BY <1>2, <1>3, Zenon DEF ChangeForm

-----------------------------------------------------------------------------
(* The save.                                                                  *)

LEMMA SaveFields ==
    ASSUME PageInv
    PROVE  /\ save \in Save /\ save.row \in Row /\ save.fb \in SUBSET Dests
           /\ \A s \in SaveStates : LET new == [save EXCEPT !.st = s]
                                    IN  /\ new \in Save /\ new.st = s /\ new.mode = save.mode
                                        /\ new.id = save.id /\ new.row = save.row
<1>1. save \in Save
  BY DEF PageInv, SaveInv
<1>2. save.row \in Row /\ save.fb \in SUBSET Dests
  BY <1>1 DEF Save
<1>3. ASSUME NEW s \in SaveStates
      PROVE  LET new == [save EXCEPT !.st = s]
             IN  new \in Save /\ new.st = s /\ new.mode = save.mode /\ new.id = save.id /\ new.row = save.row
  <2> DEFINE new == [save EXCEPT !.st = s]
  <2>1. new \in Save
    BY <1>1, SMT DEF Save
  <2>2. new.st = s /\ new.mode = save.mode /\ new.id = save.id /\ new.row = save.row
    BY <1>1, SMT DEF Save
  <2> QED BY <2>1, <2>2
<1> QED BY <1>1, <1>2, <1>3, Zenon

LEMMA NoSaveFact == NoSave \in Save /\ NoSave.st = "none"
BY NoRowFact DEF NoSave, Save, SaveStates

\* What the schema leaves of a row: no client is lost, none loses its key.
LEMMA PayloadFact ==
    ASSUME NEW row \in Row
    PROVE  /\ Payload(row) \in Row
           /\ \A m \in Mails : \/ Payload(row).cl[m] = row.cl[m]
                               \/ row.cl[m] = "full" /\ Payload(row).cl[m] = "bare"
<1> DEFINE cl == [m \in Mails |-> IF row.cl[m] = "full" THEN "bare" ELSE row.cl[m]]
<1>1. row.cl \in Clients
  BY RowChanges
<1>2. cl \in Clients
  BY <1>1, SMT DEF Clients, Own
<1>3. \A m \in Mails : cl[m] = row.cl[m] \/ (row.cl[m] = "full" /\ cl[m] = "bare")
  OBVIOUS
<1>4. Payload(row) = [row EXCEPT !.cl = cl]
  BY DEF Payload
<1> HIDE DEF cl
<1>5. [row EXCEPT !.cl = cl] \in Row /\ [row EXCEPT !.cl = cl].cl = cl
  BY <1>2, RowChanges
<1>6. Payload(row).cl = cl
  BY <1>4, <1>5
<1> QED BY <1>3, <1>4, <1>5, <1>6, SMT

\* What the server makes of one: the keys of a Keyed inbound stay as sent, and
\* elsewhere only a missing one is made, or all of them after a new cipher.
LEMMA NormalizedFact ==
    ASSUME NEW i \in Rows, NEW row \in Row, NEW resized \in BOOLEAN, Valid(i, row)
    PROVE  /\ Normalized(i, row, resized) \in Row /\ Valid(i, Normalized(i, row, resized))
           /\ i \in Keyed => Normalized(i, row, resized) = row
           /\ ~resized => \A m \in Mails : row.cl[m] \in Own => Normalized(i, row, resized).cl[m] = row.cl[m]
<1>1. CASE i \notin Remade
  <2>1. Normalized(i, row, resized) = row
    BY <1>1 DEF Normalized
  <2> QED BY <2>1, SMT
<1>2. CASE i \in Remade
  <2> DEFINE cl == [m \in Mails |->
                      IF row.cl[m] = "slim" \/ (resized /\ row.cl[m] # "none") THEN "fresh" ELSE row.cl[m]]
  <2>1. row.cl \in Clients
    BY RowChanges
  <2>2. cl \in Clients
    BY <2>1, SMT DEF Clients, Own
  <2>3. ~resized => \A m \in Mails : row.cl[m] \in Own => cl[m] = row.cl[m]
    BY SMT DEF Own
  <2>4. Normalized(i, row, resized) = [row EXCEPT !.cl = cl]
    BY <1>2 DEF Normalized
  <2> HIDE DEF cl
  <2>5. [row EXCEPT !.cl = cl] \in Row /\ [row EXCEPT !.cl = cl].cl = cl
    BY <2>2, RowChanges
  <2>6. i \notin Keyed
    BY <1>2, PageAssumption
  <2>7. Normalized(i, row, resized) \in Row /\ Normalized(i, row, resized).cl = cl
    BY <2>4, <2>5
  <2> QED BY <2>3, <2>6, <2>7, Zenon DEF Valid
<1> QED BY <1>1, <1>2

\* The form's schema has let the row through.
LEMMA SubmitStep ==
    ASSUME PageInv, Submit
    PROVE  PageInv'
<1>1. /\ form.mode = "edit" => Valid(form.id, form.row)
      /\ save' = [st |-> "sent", mode |-> form.mode, id |-> form.id, row |-> Payload(form.row), fb |-> form.fb]
      /\ UNCHANGED <<wire, query, srv, fbs, rows, toggles, hydrate, loads, form, confirm, request>>
  BY DEF Submit
<1>0. /\ Payload(form.row) \in Row
      /\ Valid(form.id, form.row) => Valid(form.id, Payload(form.row))
      /\ NoClients(form.row) => NoClients(Payload(form.row))
  <2>1. form.row \in Row
    BY FormFields
  <2>2. /\ Payload(form.row) \in Row
        /\ \A m \in Mails : \/ Payload(form.row).cl[m] = form.row.cl[m]
                            \/ form.row.cl[m] = "full" /\ Payload(form.row).cl[m] = "bare"
    BY <2>1, PayloadFact, Zenon
  <2>3. /\ \A m \in Mails : form.row.cl[m] # "slim" => Payload(form.row).cl[m] # "slim"
        /\ \A m \in Mails : form.row.cl[m] = "none" => Payload(form.row).cl[m] = "none"
    BY <2>2, SMT
  <2> QED BY <2>2, <2>3, Zenon DEF Valid, NoClients
<1>2. save' \in Save
  <2>1. Payload(form.row) \in Row /\ form \in Form
    BY <1>0, FormFields
  <2> QED BY <1>1, <2>1, FormFields, SMT DEF Save, SaveStates
<1>3. /\ save'.st = "sent" /\ save'.mode = form.mode /\ save'.id = form.id /\ save'.row = Payload(form.row)
  BY <1>1
<1>4. (form.mode = "edit" => form.id \in Rows) /\ (form.mode = "add" => NoClients(form.row))
  BY DEF PageInv, FormInv
<1>5. form.mode \in {"add", "edit"}
  BY FormFields
<1>6. SaveInv'
  <2>1. IF form.mode = "edit" THEN Valid(form.id, Payload(form.row)) ELSE NoClients(Payload(form.row))
    BY <1>0, <1>1, <1>4, <1>5, Zenon
  <2>2. IF save'.mode = "edit" THEN Valid(save'.id, save'.row) ELSE NoClients(save'.row)
    BY <1>3, <2>1, Zenon DEF Valid, NoClients
  <2>3. save'.mode = "edit" => save'.id \in Rows
    BY <1>3, <1>4, Zenon
  <2>4. save'.st \notin {"saved", "fallbacks", "over"}
    BY <1>3
  <2> QED BY <1>2, <2>2, <2>3, <2>4, Zenon DEF SaveInv, Valid, NoClients
<1> QED BY <1>1, <1>6, Frame, Zenon DEF PageInv, query

\* What the server makes of it: the edited inbound, or a new one.
LEMMA ServerSavesRow ==
    ASSUME PageInv, ServerSaves, save'.st # "failed"
    PROVE  \E i \in Rows, resized \in BOOLEAN :
               /\ srv' = [srv EXCEPT ![i] = Normalized(i, save.row, resized)] /\ Valid(i, save.row)
               /\ resized => save.row.conf # srv[i].conf
               /\ save' = [save EXCEPT !.st = "saved", !.id = i]
               /\ wire' = Pushed(srv')
<1> DEFINE new == IF save.mode = "edit" THEN {save.id} \cap There(srv) ELSE Rows \ used
           i == CHOOSE n \in new : TRUE
<1>1. save \in Save
  BY SaveFields
<1>2. new # {}
  <2>1. new = {} => save' = [save EXCEPT !.st = "failed"]
    BY DEF ServerSaves
  <2> QED BY <1>1, <2>1, SaveFields, Zenon DEF SaveStates
<1>3. /\ \E resized \in {FALSE, save.mode = "edit" /\ save.row.conf # srv[i].conf} :
             srv' = [srv EXCEPT ![i] = Normalized(i, save.row, resized)]
      /\ save' = [save EXCEPT !.st = "saved", !.id = i]
      /\ wire' = Pushed(srv')
      /\ save.st = "sent"
  BY <1>2 DEF ServerSaves
<1>4. i \in new
  BY <1>2
<1> HIDE DEF i
<1>5. i \in Rows /\ (save.mode = "edit" => i = save.id)
  BY <1>4 DEF There
<1>6. save.mode \in {"add", "edit"}
  BY <1>1 DEF Save
<1>7. IF save.mode = "edit" THEN Valid(save.id, save.row) ELSE NoClients(save.row)
  BY <1>3, Zenon DEF PageInv, SaveInv
<1>8. Valid(i, save.row)
  BY <1>5, <1>7, SMT DEF Valid, NoClients
<1>9. \E resized \in BOOLEAN : /\ srv' = [srv EXCEPT ![i] = Normalized(i, save.row, resized)]
                              /\ resized => save.row.conf # srv[i].conf
  <2>1. PICK resized \in {FALSE, save.mode = "edit" /\ save.row.conf # srv[i].conf} :
            srv' = [srv EXCEPT ![i] = Normalized(i, save.row, resized)]
    BY <1>3, Zenon
  <2>2. resized \in BOOLEAN /\ (resized => save.row.conf # srv[i].conf)
    BY <2>1
  <2> QED BY <2>1, <2>2
<1> QED BY <1>3, <1>5, <1>8, <1>9, Zenon

LEMMA Pushes ==
    ASSUME PageInv, srv' \in Lists, wire' = Pushed(srv')
    PROVE  WireInv'
<1>1. [type |-> "inbounds", list |-> srv'] \in Event
  BY ListEvents
<1>2. WireInv
  BY DEF PageInv
<1>3. wire' = Sent([type |-> "inbounds", list |-> srv'])
  BY DEF Pushed
<1>4. \A e \in Event : Sent(e) \in [Conns -> Seq(Event)]
  BY <1>2, SentEvents
<1> QED BY <1>1, <1>3, <1>4, Zenon DEF WireInv

\* A save that finds no inbound changes none.
LEMMA SavesOrFails ==
    ASSUME PageInv, ServerSaves, save'.st = "failed"
    PROVE  save' = [save EXCEPT !.st = "failed"] /\ UNCHANGED <<srv, wire>>
<1> DEFINE new == IF save.mode = "edit" THEN {save.id} \cap There(srv) ELSE Rows \ used
<1>1. CASE new = {}
  BY <1>1 DEF ServerSaves
<1>2. CASE new # {}
  <2>1. PICK i : save' = [save EXCEPT !.st = "saved", !.id = i]
    BY <1>2 DEF ServerSaves
  <2>2. save \in Save
    BY SaveFields
  <2>3. save'.st = "saved"
    BY <2>1, <2>2, SMT DEF Save
  <2> QED BY <2>3
<1> QED BY <1>1, <1>2

LEMMA ServerSavesStep ==
    ASSUME PageInv, ServerSaves
    PROVE  PageInv'
<1>1. UNCHANGED <<query, fbs, rows, toggles, hydrate, loads, form, confirm, request>> /\ save.st = "sent"
  BY DEF ServerSaves
<1>2. CASE save'.st = "failed"
  <2>1. save' = [save EXCEPT !.st = "failed"] /\ UNCHANGED <<srv, wire>>
    BY <1>2, SavesOrFails
  <2>2. save' \in Save /\ save'.st = "failed" /\ save'.mode = save.mode /\ save'.id = save.id
    BY <2>1, SaveFields, Zenon DEF SaveStates
  <2>3. SaveInv'
    BY <1>1, <2>2, SMT DEF PageInv, SaveInv
  <2> QED BY <1>1, <2>1, <2>3, Frame, Zenon DEF PageInv, query
<1>3. CASE save'.st # "failed"
  <2>1. PICK i \in Rows, resized \in BOOLEAN :
            /\ srv' = [srv EXCEPT ![i] = Normalized(i, save.row, resized)] /\ Valid(i, save.row)
            /\ save' = [save EXCEPT !.st = "saved", !.id = i]
            /\ wire' = Pushed(srv')
    BY <1>3, ServerSavesRow, Zenon
  <2>0. /\ Normalized(i, save.row, resized) \in Row
        /\ Valid(i, Normalized(i, save.row, resized))
    BY <2>1, SaveFields, NormalizedFact, Zenon
  <2>2. ServerInv'
    BY <1>1, <2>0, <2>1, ServerRow
  <2>3. WireInv'
    BY <2>1, <2>2, Pushes DEF ServerInv
  <2>4. save' \in Save /\ save'.st = "saved" /\ save'.id = i
    <3> DEFINE mid == [save EXCEPT !.st = "saved"]
    <3>1. mid \in Save /\ mid.st = "saved"
      BY SaveFields, Zenon DEF SaveStates
    <3>2. save' = [mid EXCEPT !.id = i]
      BY <2>1
    <3> HIDE DEF mid
    <3>3. i \in Rows \cup {Gone}
      OBVIOUS
    <3>4. save' \in Save
      BY <3>1, <3>2, <3>3, SMT DEF Save
    <3>5. save'.st = "saved" /\ save'.id = i
      BY <3>1, <3>2, SMT DEF Save
    <3> QED BY <3>4, <3>5
  <2>5. SaveInv'
    BY <2>4, SMT DEF SaveInv
  <2> QED BY <1>1, <2>2, <2>3, <2>5, Frame, Zenon DEF PageInv, query
<1> QED BY <1>2, <1>3

LEMMA SaveGoesOnStep ==
    ASSUME PageInv, SaveGoesOn
    PROVE  PageInv'
<1>1. /\ save.st = "saved" /\ save' = [save EXCEPT !.st = "fallbacks"]
      /\ UNCHANGED <<wire, query, srv, fbs, rows, toggles, hydrate, loads, form, confirm, request>>
  BY DEF SaveGoesOn
<1>2. save' \in Save /\ save'.st = "fallbacks" /\ save'.mode = save.mode /\ save'.id = save.id
  BY <1>1, SaveFields, Zenon DEF SaveStates
<1>3. SaveInv'
  BY <1>1, <1>2, SMT DEF PageInv, SaveInv
<1> QED BY <1>1, <1>3, Frame, Zenon DEF PageInv, query

LEMMA ServerSavesFallbacksStep ==
    ASSUME PageInv, ServerSavesFallbacks
    PROVE  PageInv'
<1>1. /\ save.st = "fallbacks" /\ save' = [save EXCEPT !.st = "over"]
      /\ fbs' = fbs \/ fbs' = [fbs EXCEPT ![save.id] = save.fb]
      /\ UNCHANGED <<wire, query, srv, rows, toggles, hydrate, loads, form, confirm, request>>
  BY DEF ServerSavesFallbacks
<1>2. save' \in Save /\ save'.st = "over" /\ save'.mode = save.mode /\ save'.id = save.id
  BY <1>1, SaveFields, Zenon DEF SaveStates
<1>3. SaveInv'
  BY <1>1, <1>2, SMT DEF PageInv, SaveInv
<1>4. fbs' \in [Rows -> SUBSET Dests]
  BY <1>1, SaveFields DEF PageInv, ServerInv
<1>5. ServerInv'
  BY <1>1, <1>4 DEF PageInv, ServerInv, ServerKeyed, Valid
<1>6. UNCHANGED <<wire, query, rows, slim, toggles, hydrate, loads, form, confirm, request>>
  BY <1>1 DEF query
<1> QED BY <1>3, <1>5, <1>6, Frame, Zenon DEF PageInv

\* A request for the list starts with no list.
LEMMA Refreshes ==
    ASSUME PageInv, Refresh
    PROVE  QueryInv' /\ WireInv' /\ UNCHANGED slim
<1>1. fetch' = Asked /\ UNCHANGED <<slim, wire>>
  BY DEF Refresh
<1>2. Asked \in Fetches
  BY DEF Asked, NoFetch, Fetches
<1> QED BY <1>1, <1>2, Frame DEF PageInv, QueryInv

LEMMA SaveEndsStep ==
    ASSUME PageInv, SaveReturns \/ SaveFails
    PROVE  PageInv'
<1>1. SaveInv' /\ FormInv'
  <2>1. save' = NoSave /\ (form' = NoForm \/ UNCHANGED form)
    BY Zenon DEF SaveReturns, SaveFails
  <2>2. SaveInv'
    BY <2>1, NoSaveFact, SMT DEF SaveInv
  <2>3. FormInv'
    BY <2>1, NoFormFact, Frame DEF FormInv, NoClients
  <2> QED BY <2>2, <2>3
<1>2. UNCHANGED <<srv, fbs, rows, toggles, hydrate, loads, confirm, request>>
  BY Zenon DEF SaveReturns, SaveFails
<1>3. QueryInv' /\ WireInv' /\ UNCHANGED slim
  BY Refreshes, Frame, Zenon DEF SaveReturns, SaveFails, query
<1> QED BY <1>1, <1>2, <1>3, Frame, Zenon DEF PageInv

-----------------------------------------------------------------------------
(* The dialogs and the others.                                                *)

LEMMA NoConfirmFact == NoConfirm \in Dialog
<1>1. NoConfirm.kind \in {"none", "delete", "delAllClients", "detach", "clone", "attach"}
  BY DEF NoConfirm
<1> QED BY NoRowFact DEF NoConfirm, Dialog

LEMMA OpenConfirmStep ==
    ASSUME PageInv, NEW kind \in {"delete", "delAllClients", "detach"}, NEW ids \in SUBSET Rows,
           OpenConfirm(kind, ids)
    PROVE  PageInv'
<1>1. /\ ids # {} /\ ids \subseteq There(rows)
      /\ confirm' = [kind |-> kind, ids |-> ids,
                     row |-> IF kind = "detach" THEN rows[CHOOSE i \in ids : TRUE] ELSE NoRow]
      /\ UNCHANGED <<wire, query, srv, fbs, rows, toggles, hydrate, loads, form, save, request>>
  BY DEF OpenConfirm
<1> DEFINE row == IF kind = "detach" THEN rows[CHOOSE i \in ids : TRUE] ELSE NoRow
<1>2. row \in Row
  <2>1. (CHOOSE i \in ids : TRUE) \in ids
    BY <1>1
  <2>2. rows[CHOOSE i \in ids : TRUE] \in Row
    BY <1>1, <2>1 DEF There, PageInv, RowsInv, Lists
  <2> QED BY <2>2, NoRowFact
<1> HIDE DEF row
<1>3. confirm' = [kind |-> kind, ids |-> ids, row |-> row]
  BY <1>1 DEF row
<1>4. kind \in {"none", "delete", "delAllClients", "detach", "clone", "attach"}
  OBVIOUS
<1>5. DialogInv'
  BY <1>1, <1>2, <1>3, <1>4, SMT DEF PageInv, DialogInv, Dialog
<1> QED BY <1>1, <1>5, Frame, Zenon DEF PageInv, query

LEMMA AnswerStep ==
    ASSUME PageInv, Cancel \/ Answer
    PROVE  PageInv'
<1>1. confirm \in Dialog /\ request \in [st : {"none", "sent", "done"}, do : Dialog]
  BY DEF PageInv, DialogInv
<1>2. UNCHANGED <<wire, query, srv, fbs, rows, toggles, hydrate, loads, form, save>>
  BY DEF Cancel, Answer
<1>3. confirm' = NoConfirm /\ (UNCHANGED request \/ request' = [st |-> "sent", do |-> confirm])
  BY DEF Cancel, Answer
<1>4. DialogInv'
  BY <1>1, <1>3, NoConfirmFact DEF DialogInv
<1> QED BY <1>2, <1>4, Frame, Zenon DEF PageInv, query

\* Attaching gives clients with their keys, detaching takes clients away.
LEMMA ListOps ==
    ASSUME NEW list \in Lists, \A i \in Keyed : list[i] # Gone => Valid(i, list[i]), NEW mails, NEW ids,
           NEW as \in Own
    PROVE  /\ Attached(list, mails, ids, as) \in Lists /\ Without(list, ids, mails) \in Lists
           /\ \A i \in Keyed : /\ Attached(list, mails, ids, as)[i] # Gone => Valid(i, Attached(list, mails, ids, as)[i])
                               /\ Without(list, ids, mails)[i] # Gone => Valid(i, Without(list, ids, mails)[i])
<1> DEFINE cl(i, v) == [m \in Mails |-> IF m \in mails /\ (v # "none" => list[i].cl[m] = "none") THEN v ELSE list[i].cl[m]]
           new(i, v) == IF list[i] = Gone \/ i \notin ids THEN list[i] ELSE [list[i] EXCEPT !.cl = cl(i, v)]
<1>1. ASSUME NEW i \in Rows, NEW v \in {"none"} \cup Own
      PROVE  new(i, v) \in Row \cup {Gone} /\ (i \in Keyed => (new(i, v) # Gone => Valid(i, new(i, v))))
  <2>1. CASE list[i] = Gone \/ i \notin ids
    BY <2>1 DEF Lists
  <2>2. CASE ~(list[i] = Gone \/ i \notin ids)
    <3>1. list[i] \in Row
      BY <2>2 DEF Lists
    <3>2. list[i].cl \in Clients
      BY <3>1, RowChanges
    <3>3. cl(i, v) \in Clients
      BY <3>2, SMT DEF Clients, Own
    <3>4. i \in Keyed => \A m \in Mails : cl(i, v)[m] # "slim"
      <4>1. i \in Keyed => \A m \in Mails : list[i].cl[m] # "slim"
        BY <2>2, Zenon DEF Valid
      <4>2. v # "slim"
        BY OwnFact
      <4>3. \A m \in Mails : cl(i, v)[m] \in {v, list[i].cl[m]}
        OBVIOUS
      <4> HIDE DEF cl
      <4> QED BY <4>1, <4>2, <4>3, Zenon
    <3> HIDE DEF cl
    <3>5. [list[i] EXCEPT !.cl = cl(i, v)] \in Row /\ [list[i] EXCEPT !.cl = cl(i, v)].cl = cl(i, v)
      BY <3>1, <3>3, RowChanges
    <3>6. new(i, v) = [list[i] EXCEPT !.cl = cl(i, v)]
      BY <2>2
    <3> HIDE DEF new
    <3> QED BY <3>4, <3>5, <3>6, Zenon DEF Valid
  <2> QED BY <2>1, <2>2
<1>2. Attached(list, mails, ids, as) = [i \in Rows |-> new(i, as)]
  <2>1. as # "none"
    BY OwnFact
  <2> QED BY <2>1 DEF Attached
<1>3. Without(list, ids, mails) = [i \in Rows |-> new(i, "none")]
  BY DEF Without
<1> HIDE DEF new
<1>4. Attached(list, mails, ids, as) \in Lists /\ Without(list, ids, mails) \in Lists
  BY <1>1, <1>2, <1>3 DEF Lists
<1>5. \A i \in Keyed : /\ i \in Rows
                       /\ Attached(list, mails, ids, as)[i] = new(i, as)
                       /\ Without(list, ids, mails)[i] = new(i, "none")
  BY <1>2, <1>3, PageAssumption
<1> QED BY <1>1, <1>4, <1>5, Zenon

LEMMA ServerKeysFact == PageInv => /\ srv \in Lists /\ fbs \in [Rows -> SUBSET Dests]
                                   /\ \A i \in Keyed : srv[i] # Gone => Valid(i, srv[i])
BY Zenon DEF PageInv, ServerInv, ServerKeyed

LEMMA ServerDoesStep ==
    ASSUME PageInv, ServerDoes
    PROVE  PageInv'
<1> DEFINE kind == request.do.kind
           ids == request.do.ids
<1>1. /\ request.st = "sent" /\ request' = [request EXCEPT !.st = "done"]
      /\ UNCHANGED <<query, fbs, rows, toggles, hydrate, loads, form, save, confirm>>
  BY DEF ServerDoes
<1>2. request \in [st : {"none", "sent", "done"}, do : Dialog] /\ confirm \in Dialog
  BY DEF PageInv, DialogInv
<1>3. DialogInv'
  <2>1. request' \in [st : {"none", "sent", "done"}, do : Dialog]
    BY <1>1, <1>2, SMT
  <2> QED BY <1>1, <1>2, <2>1 DEF DialogInv
<1>4. ServerInv' /\ WireInv'
  <2>1. CASE kind = "delete"
    <3>1. srv' = [i \in Rows |-> IF i \in ids THEN Gone ELSE srv[i]] /\ wire' = Pushed(srv')
      BY <2>1 DEF ServerDoes
    <3>2. srv' \in Lists /\ \A i \in Keyed : srv'[i] # Gone => srv'[i] = srv[i] /\ srv[i] # Gone
      BY <3>1, ServerKeysFact, PageAssumption DEF Lists
    <3>3. ServerKeyed'
      BY <3>2, ServerKeysFact, Zenon DEF ServerKeyed, Valid
    <3>4. ServerInv'
      BY <1>1, <3>2, <3>3, ServerKeysFact DEF ServerInv
    <3> QED BY <3>1, <3>2, <3>4, Pushes
  <2>2. CASE kind = "clone"
    <3>1. \/ \E i \in Rows : srv' = [srv EXCEPT ![i] = Cloned(request.do.row)] /\ wire' = Pushed(srv')
          \/ UNCHANGED <<srv, wire>>
      BY <2>2 DEF ServerDoes
    <3>2. ASSUME NEW i \in Rows, srv' = [srv EXCEPT ![i] = Cloned(request.do.row)], wire' = Pushed(srv')
          PROVE  ServerInv' /\ WireInv'
      <4>1. request.do.row \in Row
        BY <1>2, SMT DEF Dialog
      <4> DEFINE off == [request.do.row EXCEPT !.enable = FALSE]
                 none == [m \in Mails |-> "none"]
      <4>2. off \in Row
        BY <4>1, RowChanges, Zenon
      <4>3. none \in Clients /\ \A m \in Mails : none[m] # "slim"
        BY DEF Clients
      <4> HIDE DEF off, none
      <4>4. [off EXCEPT !.cl = none] \in Row /\ [off EXCEPT !.cl = none].cl = none
        BY <4>2, <4>3, RowChanges
      <4>5. Cloned(request.do.row) = [off EXCEPT !.cl = none]
        BY DEF Cloned, off, none
      <4>6. Cloned(request.do.row) \in Row /\ Valid(i, Cloned(request.do.row))
        BY <4>3, <4>4, <4>5, Zenon DEF Valid
      <4>7. ServerInv'
        BY <1>1, <3>2, <4>6, ServerRow
      <4> QED BY <3>2, <4>7, Pushes DEF ServerInv
    <3> QED BY <1>1, <3>1, <3>2, Frame
  <2>3. CASE kind \notin {"delete", "clone"}
    <3>1. UNCHANGED wire /\ \E mails, targets : \E as \in Own :
              srv' = Attached(srv, mails, targets, as) \/ srv' = Without(srv, targets, mails)
      BY <2>3, OwnFact DEF ServerDoes
    <3>2. PICK mails, targets : \E as \in Own :
              srv' = Attached(srv, mails, targets, as) \/ srv' = Without(srv, targets, mails)
      BY <3>1, Zenon
    <3> PICK as \in Own : srv' = Attached(srv, mails, targets, as) \/ srv' = Without(srv, targets, mails)
      BY <3>2
    <3>3. srv' \in Lists
      BY <3>2, ListOps, ServerKeysFact
    <3>4. ASSUME NEW i \in Keyed, srv'[i] # Gone PROVE Valid(i, srv'[i])
      BY <3>2, <3>4, ListOps, ServerKeysFact
    <3>5. ServerKeyed'
      BY <3>4, Zenon DEF ServerKeyed, Valid
    <3>6. ServerInv'
      BY <1>1, <3>3, <3>5, ServerKeysFact DEF ServerInv
    <3> QED BY <3>1, <3>6, Frame, Zenon
  <2> QED BY <2>1, <2>2, <2>3
<1> QED BY <1>1, <1>3, <1>4, Frame, Zenon DEF PageInv, query

LEMMA RequestReturnsStep ==
    ASSUME PageInv, RequestReturns
    PROVE  PageInv'
<1>1. /\ request' = [st |-> "none", do |-> NoConfirm]
      /\ UNCHANGED <<srv, fbs, rows, toggles, hydrate, loads, form, save, confirm>>
  BY DEF RequestReturns
<1>2. DialogInv'
  BY <1>1, NoConfirmFact DEF PageInv, DialogInv
<1>3. QueryInv' /\ WireInv' /\ UNCHANGED slim
  BY Refreshes, Frame, Zenon DEF RequestReturns, query
<1> QED BY <1>1, <1>2, <1>3, Frame, Zenon DEF PageInv

LEMMA OtherAdminStep ==
    ASSUME PageInv, NEW i \in Rows, OtherAdmin(i)
    PROVE  PageInv'
<1>1. srv[i] # Gone /\ UNCHANGED <<query, fbs, page>>
  BY DEF OtherAdmin
<1>2. srv[i] \in Row /\ Valid(i, srv[i])
  BY <1>1, ServerHas
<1>3. \E x \in Row \cup {Gone} : srv' = [srv EXCEPT ![i] = x] /\ (x # Gone => Valid(i, x))
  <2>1. ASSUME NEW r \in Row, r.cl = srv[i].cl, srv' = [srv EXCEPT ![i] = r]
        PROVE  \E x \in Row \cup {Gone} : srv' = [srv EXCEPT ![i] = x] /\ (x # Gone => Valid(i, x))
    BY <1>2, <2>1, SameClients
  <2>2. CASE srv' = [srv EXCEPT ![i].conf = "theirs"]
    <3>1. "theirs" \in Confs
      BY DEF Confs
    <3> QED BY <1>2, <2>1, <2>2, <3>1, RowChanges
  <2>3. CASE srv' = [srv EXCEPT ![i] = Gone]
    BY <2>3
  <2>4. ASSUME NEW b \in BOOLEAN, srv' = [srv EXCEPT ![i].enable = b]
        PROVE  \E x \in Row \cup {Gone} : srv' = [srv EXCEPT ![i] = x] /\ (x # Gone => Valid(i, x))
    BY <1>2, <2>1, <2>4, RowChanges
  <2>5. ASSUME NEW m \in Mails, srv' = [srv EXCEPT ![i].cl[m] = "full"]
        PROVE  \E x \in Row \cup {Gone} : srv' = [srv EXCEPT ![i] = x] /\ (x # Gone => Valid(i, x))
    <3> DEFINE cl == [srv[i].cl EXCEPT ![m] = "full"]
    <3>1. srv[i].cl \in Clients
      BY <1>2, RowChanges
    <3>2. cl \in Clients
      BY <3>1, SMT DEF Clients, Own
    <3>3. i \in Keyed => \A n \in Mails : cl[n] # "slim"
      BY <1>2, <3>1, SMT DEF Valid, Clients
    <3>4. srv' = [srv EXCEPT ![i] = [srv[i] EXCEPT !.cl = cl]]
      BY <2>5
    <3> HIDE DEF cl
    <3>5. [srv[i] EXCEPT !.cl = cl] \in Row /\ [srv[i] EXCEPT !.cl = cl].cl = cl
      BY <1>2, <3>2, RowChanges
    <3>6. Valid(i, [srv[i] EXCEPT !.cl = cl])
      BY <3>3, <3>5, Zenon DEF Valid
    <3> QED BY <3>4, <3>5, <3>6
  <2>6. \/ srv' = [srv EXCEPT ![i].conf = "theirs"]
        \/ srv' = [srv EXCEPT ![i] = Gone]
        \/ srv' = [srv EXCEPT ![i].enable = ~srv[i].enable]
        \/ \E m \in Mails : srv' = [srv EXCEPT ![i].cl[m] = "full"]
        \/ srv' = [srv EXCEPT ![i].enable = FALSE]
    BY DEF OtherAdmin
  <2> QED BY <2>2, <2>3, <2>4, <2>5, <2>6, Zenon
<1>4. ServerInv'
  BY <1>1, <1>3, ServerRow
<1>5. WireInv'
  <2>1. srv' \in Lists /\ WireInv
    BY <1>4 DEF ServerInv, PageInv
  <2>2. \A e \in Event : Sent(e) \in [Conns -> Seq(Event)]
    BY <2>1, SentEvents
  <2>3. /\ [type |-> "client_stats", list |-> srv'] \in Event
        /\ [type |-> "invalidate", list |-> <<>>] \in Event
        /\ [type |-> "inbounds", list |-> srv'] \in Event
    BY <2>1, ListEvents
  <2>4. wire' = wire \/ \E e \in Event : wire' = Sent(e)
    BY <2>3, Zenon DEF OtherAdmin, Pushed, OutOfDate
  <2> QED BY <2>1, <2>2, <2>4, Zenon DEF WireInv
<1> QED BY <1>1, <1>4, <1>5, Frame, Zenon DEF PageInv, page, query

\* What the feed does to the messages under way and to the query.
LEMMA FeedsPage ==
    ASSUME PageInv, Feed, UNCHANGED <<srv, used, fbs, page>>
    PROVE  PageInv'
<1>1. ASSUME NEW c \in Conns, wire' = wire \/ wire' = [wire EXCEPT ![c] = <<>>]
      PROVE  WireInv'
  <2>1. wire \in [Conns -> Seq(Event)] /\ <<>> \in Seq(Event)
    BY DEF PageInv, WireInv
  <2> QED BY <1>1, <2>1 DEF WireInv
<1>2. ASSUME NEW c \in Conns, Connect(c) \/ ReconnectFires(c) \/ \E k \in Sockets :
                                  SocketOpens(c, k) \/ SocketCloses(c, k) \/ SocketClosed(c, k)
      PROVE  WireInv' /\ UNCHANGED query
  <2>1. (wire' = wire \/ wire' = [wire EXCEPT ![c] = <<>>]) /\ UNCHANGED query
    BY <1>2, Zenon DEF Connect, ReconnectFires, SocketOpens, SocketCloses, SocketClosed
  <2> QED BY <1>1, <2>1
<1>3. ASSUME NEW c \in Conns, OnInvalidate(c)
      PROVE  WireInv' /\ UNCHANGED <<slim, fetch>>
  <2>1. PICK i \in 1..Len(wire[c]) : Arrives(c, wire[c][i])
    BY <1>3, Zenon DEF OnInvalidate
  <2>2. WireInv'
    BY <2>1, EventArrives DEF PageInv
  <2> QED BY <1>3, <2>2 DEF OnInvalidate
<1>4. Asked \in Fetches /\ NoFetch \in Fetches
  BY DEF Asked, NoFetch, Fetches
<1>5. ASSUME FetchFails \/ MarkLocalInvalidate \/ InvalidateFires \/ WindowEnds
      PROVE  fetch' \in Fetches /\ UNCHANGED <<slim, wire>>
  <2>1. [Asked EXCEPT !.retry = TRUE] \in Fetches
    <3>1. \A b \in BOOLEAN : [Asked EXCEPT !.retry = b] \in Fetches
      BY DEF Asked, NoFetch, Fetches
    <3> QED BY <3>1, Zenon
  <2>2. fetch \in Fetches
    BY DEF PageInv, QueryInv
  <2> QED BY <1>4, <1>5, <2>1, <2>2, Zenon DEF FetchFails, MarkLocalInvalidate, InvalidateFires, WindowEnds
<1>6. ASSUME ServerAnswers(Slim(srv))
      PROVE  fetch' \in Fetches /\ UNCHANGED <<slim, wire>>
  <2>1. fetch.st = "asked" /\ fetch' = [fetch EXCEPT !.st = "answered", !.list = Slim(srv)] /\ UNCHANGED <<slim, wire>>
    BY <1>6 DEF ServerAnswers
  <2>2. Slim(srv) \in Lists
    BY ServerKeysFact, SlimIsList
  <2>3. fetch \in [st : {"none", "asked"}, list : {<<>>}, retry : BOOLEAN]
    BY <2>1 DEF PageInv, QueryInv, Fetches
  <2>4. fetch' = [st |-> "answered", list |-> Slim(srv), retry |-> fetch.retry] /\ fetch.retry \in BOOLEAN
    BY <2>1, <2>3
  <2>5. fetch' \in [st : {"answered"}, list : Lists, retry : BOOLEAN]
    BY <2>2, <2>4
  <2> QED BY <2>1, <2>5 DEF Fetches
<1>7. WireInv' /\ UNCHANGED slim /\ (UNCHANGED fetch \/ fetch' \in Fetches)
  <2>1. WireInv
    BY DEF PageInv
  <2> QED BY <1>2, <1>3, <1>5, <1>6, <2>1, Frame, Zenon DEF Feed, query
<1>8. QueryInv'
  BY <1>7 DEF PageInv, QueryInv
<1> QED BY <1>7, <1>8, Frame, Zenon DEF PageInv, page

-----------------------------------------------------------------------------
(* The invariant of the page and what it gives.                               *)

LEMMA InitPage == Init => PageInv
<1> SUFFICES ASSUME Init PROVE PageInv
  OBVIOUS
<1>1. FirstRows \in Lists /\ Slim(FirstRows) \in Lists
  BY PageAssumption, SlimIsList
<1>2. srv = FirstRows /\ slim = Slim(FirstRows) /\ rows = Slim(FirstRows)
  BY DEF Init, FeedInit
<1>3. ServerInv
  <2>1. ServerKeyed
    BY <1>2, PageAssumption, Zenon DEF ServerKeyed, Valid
  <2>2. fbs \in [Rows -> SUBSET Dests]
    BY DEF Init
  <2> QED BY <1>1, <1>2, <2>1, <2>2 DEF ServerInv
<1>4. WireInv
  BY DEF Init, FeedInit, WireInv
<1>5. QueryInv
  <2>1. NoFetch \in Fetches
    BY DEF NoFetch, Fetches
  <2> QED BY <1>1, <1>2, <2>1 DEF Init, FeedInit, QueryInv
<1>6. RowsInv
  BY <1>1, <1>2 DEF RowsInv
<1>7. TogglesInv /\ LoadsInv
  BY DEF Init, TogglesInv, LoadsInv
<1>8. HydrateInv
  BY NoRowFact DEF Init, HydrateInv, Hydrate, NoHydrate
<1>9. FormInv
  BY NoFormFact DEF Init, FormInv
<1>10. SaveInv
  BY NoSaveFact, SMT DEF Init, SaveInv
<1>11. DialogInv
  BY NoConfirmFact DEF Init, DialogInv
<1> QED BY <1>3, <1>4, <1>5, <1>6, <1>7, <1>8, <1>9, <1>10, <1>11, Zenon DEF PageInv

LEMMA StepPage == PageInv /\ [Next]_vars => PageInv'
<1> SUFFICES ASSUME PageInv, [Next]_vars PROVE PageInv'
  OBVIOUS
<1>1. CASE UNCHANGED vars
  BY <1>1, Frame, Zenon DEF vars, page, query, PageInv
<1>2. CASE Next
  <2>1. ASSUME NEW c \in Conns, OnInbounds(c) \/ OnClientStats(c) PROVE PageInv'
    BY <2>1, OnInboundsStep, OnClientStatsStep, Zenon
  <2>2. ASSUME NEW i \in Rows, OnSwitchEnable(i) \/ OtherAdmin(i) PROVE PageInv'
    BY <2>2, OnSwitchEnableStep, OtherAdminStep, Zenon
  <2>3. ASSUME NEW i \in Rows, NEW key \in {"edit", "clone", "attach"}, OnRowAction(i, key) PROVE PageInv'
    BY <2>3, OnRowActionStep, Zenon
  <2>4. ASSUME NEW g \in toggles, ServerSwitches(g) \/ SwitchReturns(g) PROVE PageInv'
    BY <2>4, ServerSwitchesStep, SwitchReturnsStep, Zenon
  <2>5. ASSUME NEW l \in loads, ServerLists(l) \/ FallbacksLoaded(l) PROVE PageInv'
    BY <2>5, FallbacksStep, Zenon
  <2>6. ASSUME NEW kind \in {"delete", "delAllClients", "detach"}, NEW ids \in SUBSET Rows,
               OpenConfirm(kind, ids)
        PROVE  PageInv'
    BY <2>6, OpenConfirmStep, Zenon
  <2>7. CASE FetchReturns \/ ServerHydrates \/ HydrateReturns \/ OnAddInbound \/ ChangeForm \/ CloseForm
    BY <2>7, FetchReturnsStep, ServerHydratesStep, HydrateReturnsStep, OnAddInboundStep, ChangeFormStep, Zenon
  <2>8. CASE Submit \/ ServerSaves \/ SaveGoesOn \/ ServerSavesFallbacks \/ SaveReturns \/ SaveFails
    BY <2>8, SubmitStep, ServerSavesStep, SaveGoesOnStep, ServerSavesFallbacksStep, SaveEndsStep, Zenon
  <2>9. CASE Cancel \/ Answer \/ ServerDoes \/ RequestReturns
    BY <2>9, AnswerStep, ServerDoesStep, RequestReturnsStep, Zenon
  <2>10. ASSUME NEW kind \in {"delete", "delAllClients", "detach"}, NEW i \in Rows, OpenConfirm(kind, {i})
         PROVE  PageInv'
    <3>1. {i} \in SUBSET Rows
      OBVIOUS
    <3> QED BY <2>6, <2>10, <3>1, Zenon
  <2>11. ASSUME NEW ids \in SUBSET Rows, OpenConfirm("delete", ids) PROVE PageInv'
    <3>1. "delete" \in {"delete", "delAllClients", "detach"}
      OBVIOUS
    <3> QED BY <2>6, <2>11, <3>1, Zenon
  <2>12. CASE Feed /\ UNCHANGED <<srv, used, fbs, page>>
    BY <2>12, FeedsPage, Zenon
  <2> QED BY <1>2, <2>1, <2>2, <2>3, <2>4, <2>5, <2>7, <2>8, <2>9, <2>10, <2>11, <2>12, Zenon DEF Next
<1> QED BY <1>1, <1>2

\* At every moment the lists, forms and requests of the page are what they
\* should be, the server's inbounds have the keys of their clients, and so has
\* whatever the page is sending.
THEOREM PageSound == Spec => []PageInv
BY InitPage, StepPage, PTL DEF Spec

\* The page shows the inbounds of the last list, whatever events, switches,
\* fetched records and other admins do to them meanwhile.
THEOREM RowsAreTheList == Spec => []RowsOfList
<1>1. PageInv => RowsOfList
  BY DEF PageInv, RowsInv, RowsOfList
<1> QED BY <1>1, PageSound, PTL

\* Only a save takes a client's key.
LEMMA OwnKept ==
    ASSUME PageInv, Next, NEW i \in Rows, NEW m \in Mails, srv[i] # Gone, srv'[i] # Gone,
           srv[i].cl[m] \in Own, srv'[i].cl[m] \in {"slim", "fresh"}
    PROVE  ServerSaves
<1> SUFFICES ASSUME ~ServerSaves PROVE FALSE
  OBVIOUS
<1>1. srv'[i].cl[m] # srv[i].cl[m] /\ srv'[i] # srv[i]
  BY SMT DEF Own
<1>2. srv \in Lists /\ srv[i] \in Row
  BY ServerKeysFact, ServerHas
<1>3. ASSUME NEW g \in toggles, ServerSwitches(g) PROVE FALSE
  <2>1. srv' = srv \/ srv' = [srv EXCEPT ![g.id].enable = g.next]
    BY <1>3 DEF ServerSwitches
  <2>2. srv'[i].cl = srv[i].cl
    BY <1>2, <2>1, SMT DEF Lists, Row
  <2> QED BY <1>1, <2>2
<1>4. ASSUME ServerDoes PROVE FALSE
  <2> DEFINE kind == request.do.kind
  <2>1. CASE kind = "delete"
    <3>1. srv' = [n \in Rows |-> IF n \in request.do.ids THEN Gone ELSE srv[n]]
      BY <1>4, <2>1 DEF ServerDoes
    <3> QED BY <1>1, <3>1
  <2>2. CASE kind = "clone"
    <3>1. srv' = srv \/ \E n \in Rows : srv' = [srv EXCEPT ![n] = Cloned(request.do.row)]
      BY <1>4, <2>2 DEF ServerDoes
    <3>2. srv'[i] = Cloned(request.do.row)
      BY <1>1, <1>2, <3>1 DEF Lists
    <3>3. request.do.row \in Row
      BY SMT DEF PageInv, DialogInv, Dialog
    <3>4. Cloned(request.do.row).cl = [n \in Mails |-> "none"]
      BY <3>3 DEF Cloned, Row
    <3> QED BY <3>2, <3>4
  <2>3. CASE kind \notin {"delete", "clone"}
    <3>1. \E mails, targets : \E as \in Own :
              srv' = Attached(srv, mails, targets, as) \/ srv' = Without(srv, targets, mails)
      BY <1>4, <2>3, OwnFact DEF ServerDoes
    <3>2. ASSUME NEW mails, NEW targets, NEW as \in Own, srv' = Attached(srv, mails, targets, as) PROVE FALSE
      <4> DEFINE cl == [n \in Mails |-> IF n \in mails /\ srv[i].cl[n] = "none" THEN as ELSE srv[i].cl[n]]
      <4>1. srv'[i] = [srv[i] EXCEPT !.cl = cl]
        BY <1>1, <3>2 DEF Attached
      <4>2. cl[m] = srv[i].cl[m]
        BY OwnFact
      <4> HIDE DEF cl
      <4>3. srv'[i].cl = cl
        BY <1>2, <4>1 DEF Row
      <4> QED BY <1>1, <4>2, <4>3
    <3>3. ASSUME NEW mails, NEW targets, srv' = Without(srv, targets, mails) PROVE FALSE
      <4> DEFINE cl == [n \in Mails |-> IF n \in mails THEN "none" ELSE srv[i].cl[n]]
      <4>1. srv'[i] = [srv[i] EXCEPT !.cl = cl]
        BY <1>1, <3>3 DEF Without
      <4>2. cl[m] \in {"none", srv[i].cl[m]}
        OBVIOUS
      <4> HIDE DEF cl
      <4>3. srv'[i].cl = cl
        BY <1>2, <4>1 DEF Row
      <4> QED BY <1>1, <4>2, <4>3
    <3> QED BY <3>1, <3>2, <3>3, Zenon
  <2> QED BY <2>1, <2>2, <2>3
<1>5. ASSUME NEW j \in Rows, OtherAdmin(j) PROVE FALSE
  <2>1. \/ srv' = [srv EXCEPT ![j].conf = "theirs"]
        \/ srv' = [srv EXCEPT ![j] = Gone]
        \/ srv' = [srv EXCEPT ![j].enable = ~srv[j].enable]
        \/ \E n \in Mails : srv' = [srv EXCEPT ![j].cl[n] = "full"]
        \/ srv' = [srv EXCEPT ![j].enable = FALSE]
    BY <1>5, Zenon DEF OtherAdmin
  <2>2. j = i
    BY <1>1, <1>2, <2>1 DEF Lists
  <2>3. srv[i].cl \in Clients
    BY <1>2, RowChanges
  <2>4. srv'[i].cl = srv[i].cl \/ \E n \in Mails : srv'[i].cl = [srv[i].cl EXCEPT ![n] = "full"]
    BY <1>2, <2>1, <2>2, SMT DEF Lists, Row
  <2>5. srv'[i].cl[m] = "full" \/ srv'[i].cl[m] = srv[i].cl[m]
    BY <2>3, <2>4 DEF Clients
  <2> QED BY <1>1, <2>5, SMT
<1>6. UNCHANGED srv \/ (\E g \in toggles : ServerSwitches(g)) \/ ServerDoes \/ (\E j \in Rows : OtherAdmin(j))
  BY Zenon DEF Next, OnInbounds, OnClientStats, FetchReturns, OnSwitchEnable, OnRowAction,
     SwitchReturns, ServerHydrates, HydrateReturns, OnAddInbound, ChangeForm, CloseForm, Submit,
     ServerLists, FallbacksLoaded, SaveGoesOn, ServerSavesFallbacks, SaveReturns, SaveFails,
     OpenConfirm, Cancel, Answer, RequestReturns
<1> QED BY <1>1, <1>3, <1>4, <1>5, <1>6, Zenon

\* What a save does to the inbound and to its clients.
LEMMA SavesOne ==
    ASSUME PageInv, ServerSaves, save'.st # "failed"
    PROVE  \E i \in Rows :
              /\ save.st = "sent" /\ save'.st = "saved" /\ save'.id = i
              /\ i \in Keyed => srv'[i].cl = save.row.cl
              /\ save.row.conf = srv[i].conf =>
                     \A m \in Mails : save.row.cl[m] \in Own => srv'[i].cl[m] \in Own
              /\ \A j \in Rows \ {i} : srv'[j] = srv[j]
<1>1. PICK i \in Rows, resized \in BOOLEAN :
          /\ srv' = [srv EXCEPT ![i] = Normalized(i, save.row, resized)] /\ Valid(i, save.row)
          /\ resized => save.row.conf # srv[i].conf
          /\ save' = [save EXCEPT !.st = "saved", !.id = i]
  BY ServerSavesRow, Zenon
<1>2. save \in Save /\ srv \in Lists /\ save.row \in Row /\ save.st = "sent"
  BY SaveFields, ServerKeysFact DEF ServerSaves
<1>3. save'.id = i /\ save'.st = "saved"
  BY <1>1, <1>2, SMT DEF Save
<1>4. srv'[i] = Normalized(i, save.row, resized) /\ \A j \in Rows \ {i} : srv'[j] = srv[j]
  BY <1>1, <1>2 DEF Lists
<1>5. /\ i \in Keyed => Normalized(i, save.row, resized) = save.row
      /\ ~resized => \A m \in Mails : save.row.cl[m] \in Own => Normalized(i, save.row, resized).cl[m] = save.row.cl[m]
  BY <1>1, <1>2, NormalizedFact, Zenon
<1>6. i \in Keyed => srv'[i].cl = save.row.cl
  BY <1>4, <1>5
<1>7. save.row.conf = srv[i].conf => \A m \in Mails : save.row.cl[m] \in Own => srv'[i].cl[m] \in Own
  BY <1>1, <1>4, <1>5, Zenon
<1> QED BY <1>2, <1>3, <1>4, <1>6, <1>7, Zenon

\* Only ServerSaves answers that it is saved.
LEMMA SavesStep ==
    ASSUME PageInv, Next, save.st = "sent", save'.st = "saved"
    PROVE  ServerSaves
<1>1. ServerSaves \/ UNCHANGED save \/ save' = NoSave \/ save.st # "sent"
  BY Zenon DEF Next, OnInbounds, OnClientStats, FetchReturns, OnSwitchEnable, OtherAdmin, OnRowAction,
     ServerSwitches, SwitchReturns, ServerHydrates, HydrateReturns, OnAddInbound, ChangeForm, CloseForm, Submit,
     ServerLists, FallbacksLoaded, SaveGoesOn, ServerSavesFallbacks, SaveReturns, SaveFails,
     OpenConfirm, Cancel, Answer, ServerDoes, RequestReturns, page
<1> QED BY <1>1, NoSaveFact

\* Only Submit sends a save.
LEMMA SendsForm ==
    ASSUME PageInv, Next, save.st = "none", save'.st = "sent"
    PROVE  \A m \in Mails : form.row.cl[m] \in Own => save'.row.cl[m] \in Own
<1>1. Submit => save'.row = Payload(form.row)
  BY DEF Submit
<1>2. Submit \/ UNCHANGED save \/ save' = NoSave \/ save.st # "none"
  BY Zenon DEF Next, OnInbounds, OnClientStats, FetchReturns, OnSwitchEnable, OtherAdmin, OnRowAction,
     ServerSwitches, SwitchReturns, ServerHydrates, HydrateReturns, OnAddInbound, ChangeForm, CloseForm,
     ServerLists, FallbacksLoaded, ServerSaves, SaveGoesOn, ServerSavesFallbacks, SaveReturns, SaveFails,
     OpenConfirm, Cancel, Answer, ServerDoes, RequestReturns, page
<1>3. save'.row = Payload(form.row)
  BY <1>1, <1>2, NoSaveFact
<1>4. form.row \in Row
  BY FormFields
<1>5. \A m \in Mails : \/ Payload(form.row).cl[m] = form.row.cl[m]
                       \/ form.row.cl[m] = "full" /\ Payload(form.row).cl[m] = "bare"
  BY <1>4, PayloadFact
<1> QED BY <1>3, <1>5, OwnFact, Zenon

\* The step of KeysSurvive.
LEMMA KeepsKeys ==
    ASSUME PageInv, PageInv', Next, NEW i \in Rows, NEW m \in Mails, srv[i] # Gone, srv'[i] # Gone,
           srv[i].cl[m] \in Own, srv'[i].cl[m] \in {"slim", "fresh"}
    PROVE  /\ save.st = "sent" /\ save'.st = "saved" /\ save'.id = i
           /\ save.row.cl[m] \notin Own \/ save.row.conf # srv[i].conf
           /\ i \in Keyed => srv'[i].cl[m] # "slim"
<1>1. ServerSaves
  BY OwnKept
<1>2. srv'[i].cl[m] \notin Own /\ srv'[i] # srv[i]
  BY SMT DEF Own
<1>3. save'.st # "failed"
  <2>1. save'.st = "failed" => UNCHANGED srv
    BY <1>1, SavesOrFails
  <2> QED BY <1>2, <2>1
<1>4. PICK j \in Rows :
          /\ save.st = "sent" /\ save'.st = "saved" /\ save'.id = j
          /\ save.row.conf = srv[j].conf =>
                 \A n \in Mails : save.row.cl[n] \in Own => srv'[j].cl[n] \in Own
          /\ \A n \in Rows \ {j} : srv'[n] = srv[n]
  BY <1>1, <1>3, SavesOne, Zenon
<1>5. j = i
  BY <1>2, <1>4
<1>6. i \in Keyed => srv'[i].cl[m] # "slim"
  BY Zenon DEF PageInv, ServerInv, ServerKeyed, Valid
<1> QED BY <1>2, <1>4, <1>5, <1>6, Zenon

\* A client that stays keeps its key but through a save that had not read it
\* or changes the fields, and in an inbound that requires one even then; a save
\* touches one inbound and loses the key of no client its form had read: for
\* every number of inbounds, clients and sockets.
THEOREM SavesKeepKeys == Spec => KeysSurvive
<1> DEFINE Step ==
        /\ \A i \in Rows, m \in Mails :
              /\ srv[i] # Gone /\ srv'[i] # Gone
              /\ srv[i].cl[m] \in Own /\ srv'[i].cl[m] \in {"slim", "fresh"}
              => /\ save.st = "sent" /\ save'.st = "saved" /\ save'.id = i
                 /\ save.row.cl[m] \notin Own \/ save.row.conf # srv[i].conf
                 /\ i \in Keyed => srv'[i].cl[m] # "slim"
        /\ save.st = "none" /\ save'.st = "sent" =>
              \A m \in Mails : form.row.cl[m] \in Own => save'.row.cl[m] \in Own
        /\ save.st = "sent" /\ save'.st = "saved" =>
              /\ save'.id \in Keyed => \A m \in Mails : save.row.cl[m] \in Own => srv'[save'.id].cl[m] \in Own
              /\ \A i \in Rows \ {save'.id} : srv'[i] = srv[i]
<1>1. ASSUME PageInv, PageInv', Next PROVE Step
  <2>1. ASSUME save.st = "sent", save'.st = "saved"
        PROVE  /\ save'.id \in Keyed => \A m \in Mails : save.row.cl[m] \in Own => srv'[save'.id].cl[m] \in Own
               /\ \A i \in Rows \ {save'.id} : srv'[i] = srv[i]
    <3>1. ServerSaves /\ save'.st # "failed"
      BY <1>1, <2>1, SavesStep
    <3>2. PICK i \in Rows : /\ save'.id = i /\ (i \in Keyed => srv'[i].cl = save.row.cl)
                            /\ \A j \in Rows \ {i} : srv'[j] = srv[j]
      BY <1>1, <3>1, SavesOne, Zenon
    <3> QED BY <3>2
  <2>2. \A i \in Rows, m \in Mails :
              /\ srv[i] # Gone /\ srv'[i] # Gone
              /\ srv[i].cl[m] \in Own /\ srv'[i].cl[m] \in {"slim", "fresh"}
              => /\ save.st = "sent" /\ save'.st = "saved" /\ save'.id = i
                 /\ save.row.cl[m] \notin Own \/ save.row.conf # srv[i].conf
                 /\ i \in Keyed => srv'[i].cl[m] # "slim"
    BY <1>1, KeepsKeys, Zenon
  <2> QED BY <1>1, <2>1, <2>2, SendsForm, Zenon
<1>2. PageInv /\ PageInv' /\ [Next]_vars => [Step]_vars
  BY <1>1, Zenon
<1> QED BY <1>2, PageSound, PTL DEF Spec, KeysSurvive
=============================================================================
