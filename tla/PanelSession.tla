---------------------------- MODULE PanelSession ----------------------------
(***************************************************************************)
(* The pages of one browser and the session they share: every request of   *)
(* the front end goes through httpRequest (api/http-init.ts), which attaches*)
(* the CSRF token, retries a write refused with 403 once, and leaves the    *)
(* page on a 401.  The session itself is a cookie: a request carries the    *)
(* cookie the browser holds when it is sent, the server answers from that   *)
(* copy, and an answer that saves the session replaces the browser's.       *)
(*                                                                         *)
(* Modelled together with it: the login page and the logout entry of the    *)
(* menu (LoginPage.tsx, AppSidebar.tsx), the server's CSRF check and login   *)
(* check, and the documents it serves (controller/dist.go).  Which role may  *)
(* do what is the subject of RolesPage; here the server may refuse any       *)
(* request for lack of a permission.                                         *)
(*                                                                         *)
(* A token is a number, compared only for equality; 0 is no token.  A fresh  *)
(* token is a number nobody holds.                                          *)
(***************************************************************************)
EXTENDS Naturals, FiniteSets

CONSTANTS
    Tabs,           \* the pages open in the browser
    Calls,          \* requests the pages make, each made once
    NoTab,          \* a call not made yet belongs to no page
    MaxToken,       \* bound: token values in use at one time
    MaxEpoch        \* bound: password changes that sign every session out

ASSUME SessionAssumption ==
    /\ MaxToken \in Nat \ {0}
    /\ MaxEpoch \in Nat \ {0}

VARIABLES
    jar,            \* the session cookie the browser holds
    epoch,          \* the admin's login epoch on the server
    page,           \* the document each tab shows: "none", "login" or "panel"
    meta,           \* the token the server put into the document
    csrfToken,      \* http-init's csrfToken
    csrfFetch,      \* http-init's csrfFetchPromise: the request under way
    sessionExpired, \* http-init's sessionExpired
    leaving,        \* the cookie of the navigation under way, or NoNav
    call,           \* the requests
    runs            \* how often the server carried each one out

httpVars == <<meta, csrfToken, csrfFetch, sessionExpired>>
vars == <<jar, epoch, page, httpVars, leaving, call, runs>>

Tokens == 0 .. MaxToken
Cookies == [user : 0 .. MaxEpoch, token : Tokens]
NoCookie == [user |-> 0, token |-> 0]
NoNav == [user |-> MaxEpoch + 1, token |-> 0]    \* no request under way
Keep == NoNav                                    \* an answer without Set-Cookie
NoFetch == [st |-> "none", cookie |-> NoNav, token |-> 0]
Idle == [st |-> "idle", tab |-> NoTab, kind |-> "read", cookie |-> NoNav, token |-> 0,
         tries |-> 0, status |-> 0, saved |-> Keep]

\* Token values somebody still holds.
Held == {jar.token} \cup {meta[t] : t \in Tabs} \cup {csrfToken[t] : t \in Tabs}
          \cup {csrfFetch[t].token : t \in Tabs} \cup {csrfFetch[t].cookie.token : t \in Tabs}
          \cup {leaving[t].token : t \in Tabs}
          \cup UNION {{call[c].token, call[c].cookie.token, call[c].saved.token} : c \in Calls}
Unused == (Tokens \ {0}) \ Held
FreshToken == CHOOSE n \in Unused : TRUE

-----------------------------------------------------------------------------
(* The server.                                                             *)

SignedIn(cookie) == cookie.user # 0 /\ cookie.user = epoch

\* GetLoginUser drops the user of an outdated epoch from the session.
DropStale(cookie) == IF cookie.user # 0 /\ ~SignedIn(cookie)
                     THEN [cookie EXCEPT !.user = 0] ELSE Keep

ValidateCSRFToken(cookie, token) == cookie.token # 0 /\ token = cookie.token

\* What the server answers to a call: the statuses it may have and the
\* session the answer saves.  The API checks the login, then, for a write,
\* the token, then the permission; a handler that panics has done its work
\* and answers 500.  Login (with the right password) and logout check the
\* token only.
Statuses(kind, cookie, token) ==
    IF kind \in {"read", "write"} /\ ~SignedIn(cookie) THEN {401}
    ELSE IF kind # "read" /\ ~ValidateCSRFToken(cookie, token) THEN {403}
    ELSE IF kind \in {"read", "write"} THEN {200, 403, 500} ELSE {200}

SavedBy(kind, cookie, status) ==
    CASE kind \in {"read", "write"}        -> DropStale(cookie)
      [] kind = "login" /\ status = 200  -> [cookie EXCEPT !.user = epoch]
      [] kind = "logout" /\ status = 200 -> NoCookie
      [] OTHER                           -> Keep

Saved(new) == IF new = Keep THEN jar ELSE new

-----------------------------------------------------------------------------
(* httpRequest.                                                            *)

Send(rec, t, token) == [rec EXCEPT !.st = "sent", !.token = token, !.cookie = jar']

\* performFetch for an unsafe method: the token kept, else the one of the
\* document, else the one of the shared request to /csrf-token, which this
\* call starts if no other has.  "rec" is the call's new record.
EnsureCsrfToken(c, rec, t, kept) ==
    LET have == IF kept # 0 THEN kept ELSE meta[t]
    IN /\ csrfToken' = [csrfToken EXCEPT ![t] = have]
       /\ IF have # 0
          THEN /\ call' = [call EXCEPT ![c] = Send(rec, t, have)]
               /\ UNCHANGED csrfFetch
          ELSE /\ call' = [call EXCEPT ![c] = [rec EXCEPT !.st = "token"]]
               /\ csrfFetch' = IF csrfFetch[t].st # "none" THEN csrfFetch
                               ELSE [csrfFetch EXCEPT ![t] = [NoFetch EXCEPT !.st = "sent", !.cookie = jar']]

\* The first 401 of a document replaces it by the base path; the call that
\* got it never settles, nor does any later one that gets a 401.
\* Mutant: the flag is set before it is tested.
MutExpire(t) ==
    /\ sessionExpired' = [sessionExpired EXCEPT ![t] = TRUE]
    /\ UNCHANGED leaving
Expire(t) ==
    /\ sessionExpired' = [sessionExpired EXCEPT ![t] = TRUE]
    /\ leaving' = IF sessionExpired[t] THEN leaving ELSE [leaving EXCEPT ![t] = jar']

\* A button of the panel.
StartWrite(c, t) ==
    /\ call[c].st = "idle" /\ page[t] = "panel"
    /\ UNCHANGED jar
    /\ EnsureCsrfToken(c, [Idle EXCEPT !.tab = t, !.kind = "write"], t, csrfToken[t])
    /\ UNCHANGED <<epoch, page, meta, sessionExpired, leaving, runs>>

\* A query of the panel: a safe method, sent without a token.
StartRead(c, t) ==
    /\ call[c].st = "idle" /\ page[t] = "panel"
    /\ UNCHANGED jar
    /\ call' = [call EXCEPT ![c] = Send([Idle EXCEPT !.tab = t], t, 0)]
    /\ UNCHANGED <<epoch, page, httpVars, leaving, runs>>

\* The login page's submit.
StartLogin(c, t) ==
    /\ call[c].st = "idle" /\ page[t] = "login"
    /\ UNCHANGED jar
    /\ EnsureCsrfToken(c, [Idle EXCEPT !.tab = t, !.kind = "login"], t, csrfToken[t])
    /\ UNCHANGED <<epoch, page, meta, sessionExpired, leaving, runs>>

\* The logout entry of the menu.
StartLogout(c, t) ==
    /\ call[c].st = "idle" /\ page[t] = "panel"
    /\ UNCHANGED jar
    /\ EnsureCsrfToken(c, [Idle EXCEPT !.tab = t, !.kind = "logout"], t, csrfToken[t])
    /\ UNCHANGED <<epoch, page, meta, sessionExpired, leaving, runs>>

\* The server carries the request out, or refuses it.
Handle(c) ==
    /\ call[c].st = "sent"
    /\ \E status \in Statuses(call[c].kind, call[c].cookie, call[c].token) :
         /\ call' = [call EXCEPT ![c].st = "answered", ![c].status = status,
                                ![c].saved = SavedBy(call[c].kind, call[c].cookie, status)]
         /\ runs' = [runs EXCEPT ![c] = IF status \in {200, 500} THEN @ + 1 ELSE @]
    /\ UNCHANGED <<jar, epoch, page, httpVars, leaving>>

Over(st) == [Idle EXCEPT !.st = st]

\* What the caller does once httpRequest has settled: a login that succeeded
\* and a logout, whatever its outcome, load another document.
Settle(c, st) ==
    LET rec == call[c]
        away == (rec.kind = "login" /\ st = "done") \/ rec.kind = "logout"
    IN /\ call' = [call EXCEPT ![c] = Over(st)]
       /\ leaving' = IF away THEN [leaving EXCEPT ![rec.tab] = jar'] ELSE leaving

\* Whether httpRequest sends the request again.
\* Mutant: any failed status is retried, a 500 too.
MutRetried(kind, status, tries) == status \notin {200, 401} /\ kind # "read" /\ tries = 0
Retried(kind, status, tries) == status = 403 /\ kind # "read" /\ tries = 0

\* The answer reaches the page.
Answer(c) ==
    LET rec == call[c]
        again == [rec EXCEPT !.tries = 1, !.saved = Keep]
    IN /\ rec.st = "answered"
       /\ jar' = Saved(rec.saved)
       /\ \/ /\ Retried(rec.kind, rec.status, rec.tries)
             /\ EnsureCsrfToken(c, again, rec.tab, 0)
             /\ UNCHANGED <<sessionExpired, leaving>>
          \/ /\ rec.status = 401
             /\ call' = [call EXCEPT ![c] = [Idle EXCEPT !.st = "hung", !.tab = rec.tab]]
             /\ Expire(rec.tab)
             /\ UNCHANGED <<csrfToken, csrfFetch>>
          \/ /\ ~Retried(rec.kind, rec.status, rec.tries) /\ rec.status # 401
             /\ Settle(c, IF rec.status = 200 THEN "done" ELSE "failed")
             /\ UNCHANGED <<csrfToken, csrfFetch, sessionExpired>>
       /\ UNCHANGED <<epoch, page, meta, runs>>

\* fetch rejects: the connection fails before or after the server has
\* carried the request out, or the call's timeout fires.  post() turns it
\* into a failed Msg; nothing is sent again.
Lose(c) ==
    /\ call[c].st \in {"sent", "answered"}
    /\ UNCHANGED jar
    /\ Settle(c, "failed")
    /\ UNCHANGED <<epoch, page, httpVars, runs>>

-----------------------------------------------------------------------------
(* The shared request for a token.                                         *)

\* /csrf-token returns the token of the cookie it was sent with, or mints one.
ServeToken(t) ==
    /\ csrfFetch[t].st = "sent"
    /\ csrfFetch[t].cookie.token = 0 => Unused # {}
    /\ csrfFetch' = [csrfFetch EXCEPT ![t].st = "served",
                       ![t].token = IF csrfFetch[t].cookie.token # 0
                                    THEN csrfFetch[t].cookie.token ELSE FreshToken]
    /\ UNCHANGED <<jar, epoch, page, meta, csrfToken, sessionExpired, leaving, call, runs>>

\* Every call waiting for the token goes on with what the promise gives: a
\* first attempt is sent even without a token, a retry only with one.
GoOn(c, t, token) ==
    IF ~(call[c].st = "token" /\ call[c].tab = t) THEN call[c]
    ELSE IF call[c].tries = 0 \/ token # 0 THEN Send(call[c], t, token)
    ELSE Over("failed")

TokenArrives(t, got) ==
    LET f == csrfFetch[t]
        token == IF got # 0 THEN got ELSE csrfToken[t]
        logout == {c \in Calls : /\ call[c].st = "token" /\ call[c].tab = t /\ call[c].kind = "logout"
                                 /\ call[c].tries = 1 /\ token = 0}
    IN /\ jar' = IF got # 0 /\ f.cookie.token = 0 THEN [f.cookie EXCEPT !.token = got] ELSE jar
       /\ csrfFetch' = [csrfFetch EXCEPT ![t] = NoFetch]
       /\ csrfToken' = [csrfToken EXCEPT ![t] = token]
       /\ call' = [c \in Calls |-> GoOn(c, t, token)]
       /\ leaving' = IF logout # {} THEN [leaving EXCEPT ![t] = jar'] ELSE leaving
       /\ UNCHANGED <<epoch, page, meta, sessionExpired, runs>>

ReceiveToken(t) == csrfFetch[t].st = "served" /\ TokenArrives(t, csrfFetch[t].token)

\* fetchCsrfToken answers null for any failure.
LoseToken(t) == csrfFetch[t].st # "none" /\ TokenArrives(t, 0)

-----------------------------------------------------------------------------
(* Documents.                                                              *)

\* The user opens or reloads the page.
Visit(t) ==
    /\ leaving[t] = NoNav
    /\ leaving' = [leaving EXCEPT ![t] = jar]
    /\ UNCHANGED <<jar, epoch, page, httpVars, call, runs>>

\* The new document replaces the old one and everything its scripts held.
\* The server serves the panel to a session that is signed in and the login
\* page to any other, with the session's token, minted if there is none, in
\* its head; without one if minting fails.
Load(t) ==
    LET c0 == leaving[t]
        cookie == IF SignedIn(c0) THEN c0 ELSE [c0 EXCEPT !.user = 0]
    IN /\ c0 # NoNav
       /\ c0.token = 0 => Unused # {}
       /\ \E fails \in BOOLEAN :
            LET token == IF c0.token # 0 THEN c0.token ELSE IF fails THEN 0 ELSE FreshToken
            IN /\ fails => c0.token = 0
               /\ jar' = IF cookie = c0 /\ token = c0.token THEN jar ELSE [cookie EXCEPT !.token = token]
               /\ meta' = [meta EXCEPT ![t] = token]
               /\ csrfToken' = [csrfToken EXCEPT ![t] = token]
       /\ page' = [page EXCEPT ![t] = IF SignedIn(c0) THEN "panel" ELSE "login"]
       /\ csrfFetch' = [csrfFetch EXCEPT ![t] = NoFetch]
       /\ sessionExpired' = [sessionExpired EXCEPT ![t] = FALSE]
       /\ leaving' = [leaving EXCEPT ![t] = NoNav]
       /\ call' = [c \in Calls |-> IF call[c].tab = t /\ call[c].st \in {"token", "sent", "answered", "hung"}
                                   THEN Over("gone") ELSE call[c]]
       /\ UNCHANGED <<epoch, runs>>

-----------------------------------------------------------------------------
(* What others do on the server.                                           *)

\* A password change signs every session of the admin out.
BumpLoginEpoch ==
    /\ epoch < MaxEpoch
    /\ epoch' = epoch + 1
    /\ UNCHANGED <<jar, page, httpVars, leaving, call, runs>>

-----------------------------------------------------------------------------
Init ==
    /\ jar \in {NoCookie, [user |-> 1, token |-> 1]}    \* signed out, or still signed in
    /\ epoch = 1
    /\ page = [t \in Tabs |-> "none"]
    /\ meta = [t \in Tabs |-> 0]
    /\ csrfToken = [t \in Tabs |-> 0]
    /\ csrfFetch = [t \in Tabs |-> NoFetch]
    /\ sessionExpired = [t \in Tabs |-> FALSE]
    /\ leaving = [t \in Tabs |-> NoNav]
    /\ call = [c \in Calls |-> Idle]
    /\ runs = [c \in Calls |-> 0]

Next ==
    \/ \E c \in Calls, t \in Tabs : StartWrite(c, t)
    \/ \E c \in Calls, t \in Tabs : StartRead(c, t)
    \/ \E c \in Calls, t \in Tabs : StartLogin(c, t)
    \/ \E c \in Calls, t \in Tabs : StartLogout(c, t)
    \/ \E c \in Calls : Handle(c)
    \/ \E c \in Calls : Answer(c)
    \/ \E c \in Calls : Lose(c)
    \/ \E t \in Tabs : ServeToken(t)
    \/ \E t \in Tabs : ReceiveToken(t)
    \/ \E t \in Tabs : LoseToken(t)
    \/ \E t \in Tabs : Visit(t)
    \/ \E t \in Tabs : Load(t)
    \/ BumpLoginEpoch

\* The browser and the server get round to what is under way.
Fairness ==
    /\ \A c \in Calls : WF_vars(Handle(c)) /\ WF_vars(Answer(c))
    /\ \A t \in Tabs : WF_vars(ServeToken(t)) /\ WF_vars(ReceiveToken(t)) /\ WF_vars(Load(t))

Spec == Init /\ [][Next]_vars /\ Fairness

-----------------------------------------------------------------------------
CallStates == {"idle", "token", "sent", "answered", "hung", "done", "failed", "gone"}

CookieOrNone == Cookies \cup {NoNav}

CallRecords ==
    [st : CallStates, tab : Tabs \cup {NoTab}, kind : {"read", "write", "login", "logout"},
     cookie : CookieOrNone, token : Tokens, tries : 0 .. 1,
     status : {0, 200, 401, 403, 500}, saved : CookieOrNone]

\* Every variable holds a value of its kind.
TypeOK ==
    /\ jar \in Cookies
    /\ epoch \in 1 .. MaxEpoch
    /\ page \in [Tabs -> {"none", "login", "panel"}]
    /\ meta \in [Tabs -> Tokens]
    /\ csrfToken \in [Tabs -> Tokens]
    /\ csrfFetch \in [Tabs -> [st : {"none", "sent", "served"}, cookie : CookieOrNone, token : Tokens]]
    /\ sessionExpired \in [Tabs -> BOOLEAN]
    /\ leaving \in [Tabs -> CookieOrNone]
    /\ call \in [Calls -> CallRecords]
    /\ runs \in [Calls -> Nat]

\* A write is carried out at most once: httpRequest sends again only what
\* the server refused with a 403, never what it may have carried out.
AtMostOnce == \A c \in Calls : runs[c] <= 1

\* Every call ends: with a result, an error, or the document it was made in.
CallsEnd == \A c \in Calls :
    (call[c].st \in {"token", "sent", "answered", "hung"})
      ~> (call[c].st \in {"done", "failed", "gone"})
=============================================================================
