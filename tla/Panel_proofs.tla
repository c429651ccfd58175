---------------------------- MODULE Panel_proofs ----------------------------
(***************************************************************************)
(* What is proved of the front end's session and of two of its pages.        *)
(*                                                                         *)
(* The session: for every number of tabs, calls, tokens and revocations the  *)
(* variables keep their types, and no request is carried out twice.          *)
(*                                                                         *)
(* The roles: for every set of permissions, roles and pages, the front end    *)
(* and the server read every stored role alike, what is saved is what was     *)
(* shown, and the guard finds a page the role may open.                      *)
(*                                                                         *)
(* The clients: for every set of rows, emails, inbounds and fetches, and     *)
(* whatever other admins do, an edit that keeps the subscription id writes   *)
(* the row it shows, keeps what the user did not touch, and a save that      *)
(* reports success has stored the form, but for what its statement names.    *)
(***************************************************************************)
EXTENDS PanelSession, RolesPage, ClientsPage, WellFoundedInduction, TLAPS

Fetches == [st : {"none", "sent", "served"}, cookie : CookieOrNone, token : Tokens]

\* What a call may still do follows from its state: one that has a page is
\* in a tab, and one that waits, is under way, or was refused has not been
\* carried out.
Fits(rec, n) ==
    /\ rec.st \in {"token", "sent", "answered"} => rec.tab \in Tabs
    /\ rec.st \in {"idle", "token", "sent"} => n = 0
    /\ rec.st = "answered" /\ rec.status \notin {200, 500} => n = 0

CallInv(c) == runs[c] \in {0, 1} /\ Fits(call[c], runs[c])

\* A request for a token carries a real cookie.
FetchInv(t) == csrfFetch[t].st # "none" => csrfFetch[t].cookie \in Cookies

IInv == TypeOK /\ (\A c \in Calls : CallInv(c)) /\ (\A t \in Tabs : FetchInv(t))

-----------------------------------------------------------------------------
(* Records.                                                                *)

LEMMA Bounds == 1 \in Tokens /\ 0 \in Tokens /\ 1 \in 1 .. MaxEpoch /\ 0 \in 0 .. MaxEpoch
BY SessionAssumption, SMT DEF Tokens

LEMMA NoNavApart == NoNav \notin Cookies /\ NoNav.token \in Tokens
BY SessionAssumption, SMT DEF NoNav, Cookies, Tokens

LEMMA IdleTyped == Idle \in CallRecords /\ NoFetch \in Fetches
BY Bounds, SMT DEF Idle, NoFetch, CallRecords, Fetches, CookieOrNone, CallStates, Keep

LEMMA OverTyped ==
    ASSUME NEW st \in CallStates
    PROVE  Over(st) \in CallRecords /\ Over(st).st = st
BY IdleTyped, SMT DEF Over, Idle, CallRecords

\* A record that is sent stays a record, in its tab.
LEMMA SendTyped ==
    ASSUME NEW rec \in CallRecords, NEW t, NEW token \in Tokens, jar' \in Cookies
    PROVE  /\ Send(rec, t, token) \in CallRecords
           /\ Send(rec, t, token).st = "sent"
           /\ Send(rec, t, token).tab = rec.tab
<1> DEFINE r1 == [rec EXCEPT !.st = "sent"]
           r2 == [r1 EXCEPT !.token = token]
           r3 == [r2 EXCEPT !.cookie = jar']
<1>1. Send(rec, t, token) = r3
  BY DEF Send
<1>2. r1 \in CallRecords /\ r1.st = "sent" /\ r1.tab = rec.tab
  BY SMT DEF CallRecords, CallStates
<1> HIDE DEF r1
<1>3. r2 \in CallRecords /\ r2.st = "sent" /\ r2.tab = rec.tab
  BY <1>2, SMT DEF CallRecords
<1> HIDE DEF r2
<1>4. r3 \in CallRecords /\ r3.st = "sent" /\ r3.tab = rec.tab
  BY <1>3, SMT DEF CallRecords, CookieOrNone
<1> QED BY <1>1, <1>4, Zenon DEF r3

LEMMA CookieUser ==
    ASSUME NEW cookie \in CookieOrNone, NEW n \in 0 .. MaxEpoch
    PROVE  [cookie EXCEPT !.user = n] \in Cookies
BY NoNavApart, SMT DEF CookieOrNone, Cookies, NoNav

LEMMA CookieToken ==
    ASSUME NEW cookie \in Cookies, NEW n \in Tokens
    PROVE  [cookie EXCEPT !.token = n] \in Cookies
BY SMT DEF Cookies

LEMMA SavedByTyped ==
    ASSUME epoch \in 1 .. MaxEpoch, NEW kind, NEW cookie \in CookieOrNone, NEW status
    PROVE  SavedBy(kind, cookie, status) \in CookieOrNone
<1>1. NoCookie \in Cookies /\ epoch \in 0 .. MaxEpoch
  BY Bounds, SMT DEF NoCookie, Cookies
<1>2. DropStale(cookie) \in CookieOrNone
  BY Bounds, CookieUser, Zenon DEF DropStale, CookieOrNone, Keep
<1>3. [cookie EXCEPT !.user = epoch] \in CookieOrNone
  BY <1>1, CookieUser, Zenon DEF CookieOrNone
<1> QED BY <1>1, <1>2, <1>3, SMT DEF SavedBy, CookieOrNone, Keep

LEMMA FreshTyped == ASSUME Unused # {} PROVE FreshToken \in Tokens
BY Zenon DEF FreshToken, Unused

-----------------------------------------------------------------------------
(* httpRequest's helpers keep the types and the states of calls.           *)

LEMMA EnsureCsrfTokenTyped ==
    ASSUME TypeOK, \A x \in Tabs : FetchInv(x), jar' \in Cookies,
           NEW c \in Calls, NEW t \in Tabs, NEW rec \in CallRecords, NEW kept \in Tokens,
           EnsureCsrfToken(c, rec, t, kept)
    PROVE  /\ csrfToken' \in [Tabs -> Tokens]
           /\ csrfFetch' \in [Tabs -> Fetches]
           /\ \A x \in Tabs : FetchInv(x)'
           /\ \E new \in CallRecords :
                /\ call' = [call EXCEPT ![c] = new]
                /\ new.st \in {"token", "sent"} /\ new.tab = rec.tab
<1> DEFINE have == IF kept # 0 THEN kept ELSE meta[t]
           asked == [NoFetch EXCEPT !.st = "sent"]
           sent == [asked EXCEPT !.cookie = jar']
           wait == [rec EXCEPT !.st = "token"]
<1>1. have \in Tokens
  BY DEF TypeOK
<1>2. csrfToken' = [csrfToken EXCEPT ![t] = have]
  BY DEF EnsureCsrfToken
<1>3. csrfToken' \in [Tabs -> Tokens]
  BY <1>1, <1>2, SMT DEF TypeOK
<1>4. sent \in Fetches /\ sent.st # "none" /\ sent.cookie = jar'
  <2>1. asked \in Fetches /\ asked.st = "sent"
    BY IdleTyped, SMT DEF Fetches
  <2> HIDE DEF asked
  <2> QED BY <2>1, SMT DEF Fetches, CookieOrNone
<1>5. wait \in CallRecords /\ wait.st = "token" /\ wait.tab = rec.tab
  BY SMT DEF CallRecords, CallStates
<1>6. csrfFetch \in [Tabs -> Fetches]
  BY DEF TypeOK, Fetches
<1> HIDE DEF have, sent, wait
<1>7. CASE have # 0
  <2>1. call' = [call EXCEPT ![c] = Send(rec, t, have)] /\ UNCHANGED csrfFetch
    BY <1>7 DEF EnsureCsrfToken, have
  <2> QED BY <2>1, <1>1, <1>3, <1>6, SendTyped, Zenon DEF FetchInv
<1>8. CASE have = 0
  <2>1. /\ call' = [call EXCEPT ![c] = wait]
        /\ csrfFetch' = IF csrfFetch[t].st # "none" THEN csrfFetch
                        ELSE [csrfFetch EXCEPT ![t] = sent]
    BY <1>8, SMT DEF EnsureCsrfToken, have, sent, wait
  <2>2. csrfFetch' \in [Tabs -> Fetches]
    BY <2>1, <1>4, <1>6, SMT
  <2>3. \A x \in Tabs : FetchInv(x)'
    BY <2>1, <1>4, <1>6, SMT DEF FetchInv
  <2> QED BY <2>1, <2>2, <2>3, <1>3, <1>5, Zenon
<1> QED BY <1>7, <1>8

\* What a step that changes one call has to show.
LEMMA OneCall ==
    ASSUME IInv, NEW c \in Calls, NEW new \in CallRecords, NEW n \in {0, 1},
           call' = [call EXCEPT ![c] = new], runs' = [runs EXCEPT ![c] = n], Fits(new, n)
    PROVE  /\ call' \in [Calls -> CallRecords] /\ runs' \in [Calls -> Nat]
           /\ \A x \in Calls : CallInv(x)'
<1>1. call \in [Calls -> CallRecords] /\ runs \in [Calls -> Nat] /\ \A x \in Calls : CallInv(x)
  BY DEF IInv, TypeOK
<1>2. call' \in [Calls -> CallRecords] /\ runs' \in [Calls -> Nat]
  BY <1>1, SMT
<1>3. ASSUME NEW x \in Calls PROVE CallInv(x)'
  <2>1. CASE x = c
    BY <1>1, <2>1, SMT DEF CallInv, Fits
  <2>2. CASE x # c
    <3>1. CallInv(x) /\ call'[x] = call[x] /\ runs'[x] = runs[x]
      BY <1>1, <2>2, SMT
    <3> QED BY <3>1, SMT DEF CallInv, Fits
  <2> QED BY <2>1, <2>2
<1> QED BY <1>2, <1>3

\* What a step that leaves the variables of one call to OneCall has to show.
Rest == /\ jar' \in Cookies
        /\ UNCHANGED <<epoch, page, meta>>
        /\ csrfToken' \in [Tabs -> Tokens]
        /\ csrfFetch' \in [Tabs -> Fetches]
        /\ \A x \in Tabs : FetchInv(x)'
        /\ sessionExpired' \in [Tabs -> BOOLEAN]
        /\ leaving' \in [Tabs -> CookieOrNone]

LEMMA Together ==
    ASSUME IInv, Rest, call' \in [Calls -> CallRecords], runs' \in [Calls -> Nat],
           \A x \in Calls : CallInv(x)'
    PROVE  IInv'
BY Zenon DEF IInv, TypeOK, Rest, Fetches

LEMMA SameTokens ==
    ASSUME IInv, UNCHANGED <<csrfToken, csrfFetch>>
    PROVE  /\ csrfToken' \in [Tabs -> Tokens] /\ csrfFetch' \in [Tabs -> Fetches]
           /\ \A x \in Tabs : FetchInv(x)'
BY Zenon DEF IInv, TypeOK, Fetches, FetchInv

-----------------------------------------------------------------------------
(* Every step keeps the invariant.                                         *)

\* What the steps of calls share: a call of this page is started or sent on.
LEMMA SentOn ==
    ASSUME IInv, jar' \in Cookies, NEW c \in Calls, NEW t \in Tabs, NEW rec \in CallRecords,
           NEW kept \in Tokens, rec.tab = t, runs[c] = 0,
           EnsureCsrfToken(c, rec, t, kept),
           UNCHANGED <<epoch, page, meta, runs>>,
           sessionExpired' \in [Tabs -> BOOLEAN], leaving' \in [Tabs -> CookieOrNone]
    PROVE  IInv'
<1>1. TypeOK /\ (\A x \in Tabs : FetchInv(x))
  BY DEF IInv
<1>2. /\ csrfToken' \in [Tabs -> Tokens]
      /\ csrfFetch' \in [Tabs -> Fetches]
      /\ \A x \in Tabs : FetchInv(x)'
      /\ \E new \in CallRecords :
           /\ call' = [call EXCEPT ![c] = new]
           /\ new.st \in {"token", "sent"} /\ new.tab = rec.tab
  BY <1>1, EnsureCsrfTokenTyped, SMT
<1>3. PICK new \in CallRecords : /\ call' = [call EXCEPT ![c] = new]
                                 /\ new.st \in {"token", "sent"} /\ new.tab = rec.tab
  BY <1>2, Zenon
<1>4. runs' = [runs EXCEPT ![c] = 0]
  BY <1>1, SMT DEF TypeOK
<1>5. Fits(new, 0) /\ 0 \in {0, 1}
  BY <1>3, SMT DEF Fits
<1>6. /\ call' \in [Calls -> CallRecords] /\ runs' \in [Calls -> Nat]
      /\ \A x \in Calls : CallInv(x)'
  BY <1>3, <1>4, <1>5, OneCall, Zenon
<1>7. Rest
  BY <1>2, Zenon DEF Rest
<1> QED BY <1>6, <1>7, Together, Zenon

LEMMA StartStep ==
    ASSUME IInv, NEW c \in Calls, NEW t \in Tabs,
           StartWrite(c, t) \/ StartLogin(c, t) \/ StartLogout(c, t)
    PROVE  IInv'
<1>1. call[c].st = "idle" /\ UNCHANGED <<jar, epoch, page, meta, sessionExpired, leaving, runs>>
  BY DEF StartWrite, StartLogin, StartLogout
<1>2. PICK k \in {"write", "login", "logout"} :
         EnsureCsrfToken(c, [Idle EXCEPT !.tab = t, !.kind = k], t, csrfToken[t])
  BY Zenon DEF StartWrite, StartLogin, StartLogout
<1> DEFINE s1 == [Idle EXCEPT !.tab = t]
           start == [s1 EXCEPT !.kind = k]
<1>3. [Idle EXCEPT !.tab = t, !.kind = k] = start
  OBVIOUS
<1>4. s1 \in CallRecords /\ s1.tab = t
  BY IdleTyped, SMT DEF Idle, CallRecords
<1> HIDE DEF s1
<1>5. start \in CallRecords /\ start.tab = t
  BY <1>4, SMT DEF CallRecords
<1> HIDE DEF start
<1>6. EnsureCsrfToken(c, start, t, csrfToken[t])
  BY <1>2, <1>3, Zenon
<1>7. /\ runs[c] = 0 /\ csrfToken[t] \in Tokens /\ jar' \in Cookies
      /\ sessionExpired' \in [Tabs -> BOOLEAN] /\ leaving' \in [Tabs -> CookieOrNone]
  BY <1>1, SMT DEF IInv, TypeOK, CallInv, Fits
<1>8. UNCHANGED <<epoch, page, meta, runs>>
  BY <1>1
<1> QED BY <1>5, <1>6, <1>7, <1>8, SentOn, Zenon

LEMMA StartReadStep ==
    ASSUME IInv, NEW c \in Calls, NEW t \in Tabs, StartRead(c, t)
    PROVE  IInv'
<1> DEFINE start == [Idle EXCEPT !.tab = t]
           new == Send(start, t, 0)
<1>1. start \in CallRecords /\ start.tab = t
  BY IdleTyped, SMT DEF Idle, CallRecords
<1>2. /\ call[c].st = "idle" /\ call' = [call EXCEPT ![c] = new]
      /\ UNCHANGED <<jar, epoch, page, httpVars, leaving, runs>>
  BY DEF StartRead
<1>3. jar' \in Cookies /\ runs[c] = 0 /\ runs \in [Calls -> Nat]
  BY <1>2, SMT DEF IInv, TypeOK, CallInv, Fits
<1> HIDE DEF start
<1>4. new \in CallRecords /\ new.st = "sent" /\ new.tab = t
  BY <1>1, <1>3, SendTyped, Bounds, Zenon
<1> HIDE DEF new
<1>5. runs' = [runs EXCEPT ![c] = 0] /\ 0 \in {0, 1} /\ Fits(new, 0)
  BY <1>2, <1>3, <1>4, SMT DEF Fits
<1>6. /\ call' \in [Calls -> CallRecords] /\ runs' \in [Calls -> Nat]
      /\ \A x \in Calls : CallInv(x)'
  BY <1>2, <1>4, <1>5, OneCall, Zenon
<1>7. Rest
  BY <1>2, <1>3, SameTokens, SMT DEF IInv, TypeOK, Rest, httpVars
<1> QED BY <1>6, <1>7, Together, Zenon

\* The server: what it refuses it has not carried out.
LEMMA HandleStep ==
    ASSUME IInv, NEW c \in Calls, Handle(c)
    PROVE  IInv'
<1>1. call[c].st = "sent" /\ CallInv(c) /\ TypeOK
  BY DEF IInv, Handle
<1>2. /\ call \in [Calls -> CallRecords] /\ runs \in [Calls -> Nat]
      /\ call[c] \in CallRecords /\ call[c].tab \in Tabs /\ runs[c] = 0
  BY <1>1, SMT DEF TypeOK, CallInv, Fits
<1>3. PICK status \in Statuses(call[c].kind, call[c].cookie, call[c].token) :
        /\ call' = [call EXCEPT ![c].st = "answered", ![c].status = status,
                               ![c].saved = SavedBy(call[c].kind, call[c].cookie, status)]
        /\ runs' = [runs EXCEPT ![c] = IF status \in {200, 500} THEN @ + 1 ELSE @]
  BY Zenon DEF Handle
<1>4. UNCHANGED <<jar, epoch, page, httpVars, leaving>>
  BY DEF Handle
<1>5. status \in {200, 401, 403, 500}
  BY SMT DEF Statuses
<1>6. SavedBy(call[c].kind, call[c].cookie, status) \in CookieOrNone
  <2>1. call[c].cookie \in CookieOrNone /\ epoch \in 1 .. MaxEpoch
    BY <1>1, <1>2, SMT DEF CallRecords, TypeOK
  <2> QED BY <2>1, SavedByTyped, Zenon
<1> DEFINE saved == SavedBy(call[c].kind, call[c].cookie, status)
           r1 == [call[c] EXCEPT !.st = "answered"]
           r2 == [r1 EXCEPT !.status = status]
           new == [r2 EXCEPT !.saved = saved]
           n == IF status \in {200, 500} THEN 1 ELSE 0
<1>7. call' = [call EXCEPT ![c] = new] /\ runs' = [runs EXCEPT ![c] = n] /\ n \in {0, 1}
  <2>1. call' = [call EXCEPT ![c] = new]
    BY <1>3, <1>2
  <2>2. runs' = [runs EXCEPT ![c] = n]
    BY <1>3, <1>2, SMT
  <2> QED BY <2>1, <2>2
<1> HIDE DEF saved
<1>8. r1 \in CallRecords /\ r1.tab \in Tabs /\ r1.st = "answered"
  BY <1>2, SMT DEF CallRecords, CallStates
<1> HIDE DEF r1
<1>9. r2 \in CallRecords /\ r2.tab \in Tabs /\ r2.st = "answered" /\ r2.status = status
  BY <1>5, <1>8, SMT DEF CallRecords
<1> HIDE DEF r2
<1>10. new \in CallRecords /\ new.tab \in Tabs /\ new.st = "answered" /\ new.status = status
  BY <1>6, <1>9, SMT DEF CallRecords, saved
<1> HIDE DEF new
<1>11. Fits(new, n)
  BY <1>10, SMT DEF Fits
<1> HIDE DEF n
<1>12. /\ call' \in [Calls -> CallRecords] /\ runs' \in [Calls -> Nat]
       /\ \A x \in Calls : CallInv(x)'
  BY <1>7, <1>10, <1>11, OneCall, Zenon
<1>13. Rest
  BY <1>1, <1>4, SameTokens, SMT DEF TypeOK, Rest, httpVars
<1> QED BY <1>12, <1>13, Together, Zenon

\* A call that is over, whatever the server made of it.
LEMMA CallOver ==
    ASSUME IInv, NEW c \in Calls, NEW new \in CallRecords,
           call' = [call EXCEPT ![c] = new], UNCHANGED runs,
           new.st \notin {"idle", "token", "sent", "answered"}
    PROVE  /\ call' \in [Calls -> CallRecords] /\ runs' \in [Calls -> Nat]
           /\ \A x \in Calls : CallInv(x)'
<1>1. runs[c] \in {0, 1} /\ runs' = [runs EXCEPT ![c] = runs[c]]
  BY SMT DEF IInv, TypeOK, CallInv
<1>2. Fits(new, runs[c])
  BY SMT DEF Fits
<1> QED BY <1>1, <1>2, OneCall, ZenonT(60)

\* A call that ends, and the document it may replace.
LEMMA SettleTyped ==
    ASSUME IInv, NEW c \in Calls, NEW st \in {"done", "failed"}, jar' \in Cookies, UNCHANGED runs,
           Settle(c, st)
    PROVE  /\ call' \in [Calls -> CallRecords] /\ runs' \in [Calls -> Nat]
           /\ \A x \in Calls : CallInv(x)'
           /\ leaving' \in [Tabs -> CookieOrNone]
<1>1. Over(st) \in CallRecords /\ Over(st).st = st
  BY OverTyped, SMT DEF CallStates
<1>2. Over(st).st \notin {"idle", "token", "sent", "answered"}
  BY <1>1, SMT
<1>3. /\ call' = [call EXCEPT ![c] = Over(st)]
      /\ \/ UNCHANGED leaving
         \/ leaving' = [leaving EXCEPT ![call[c].tab] = jar']
  BY Zenon DEF Settle
<1>4. leaving' \in [Tabs -> CookieOrNone]
  BY <1>3, SMT DEF IInv, TypeOK, CookieOrNone
<1>5. /\ call' \in [Calls -> CallRecords] /\ runs' \in [Calls -> Nat]
      /\ \A x \in Calls : CallInv(x)'
  BY <1>1, <1>2, <1>3, CallOver, Zenon
<1> QED BY <1>4, <1>5

LEMMA LoseStep ==
    ASSUME IInv, NEW c \in Calls, Lose(c)
    PROVE  IInv'
<1>1. UNCHANGED <<jar, epoch, page, httpVars, runs>> /\ Settle(c, "failed")
  BY DEF Lose
<1>2. jar' \in Cookies
  BY <1>1, SMT DEF IInv, TypeOK
<1>3. /\ call' \in [Calls -> CallRecords] /\ runs' \in [Calls -> Nat]
      /\ \A x \in Calls : CallInv(x)'
      /\ leaving' \in [Tabs -> CookieOrNone]
  BY <1>1, <1>2, SettleTyped, Zenon
<1>4. Rest
  BY <1>1, <1>2, <1>3, SameTokens, SMT DEF IInv, TypeOK, Rest, httpVars
<1> QED BY <1>3, <1>4, Together, Zenon

LEMMA AnswerStep ==
    ASSUME IInv, NEW c \in Calls, Answer(c)
    PROVE  IInv'
<1>1. call[c].st = "answered" /\ CallInv(c) /\ TypeOK
  BY DEF IInv, Answer
<1>2. /\ call[c] \in CallRecords /\ call[c].tab \in Tabs /\ runs[c] \in {0, 1}
      /\ call[c].status \notin {200, 500} => runs[c] = 0
      /\ runs \in [Calls -> Nat]
  BY <1>1, SMT DEF TypeOK, CallInv, Fits
<1>3. UNCHANGED <<epoch, page, meta, runs>> /\ jar' = Saved(call[c].saved)
  BY DEF Answer
<1>4. jar' \in Cookies
  <2>1. call[c].saved \in CookieOrNone /\ jar \in Cookies
    BY <1>1, <1>2, SMT DEF CallRecords, TypeOK
  <2> QED BY <2>1, <1>3, Zenon DEF Saved, CookieOrNone, Keep
<1> DEFINE a1 == [call[c] EXCEPT !.tries = 1]
           again == [a1 EXCEPT !.saved = Keep]
           h1 == [Idle EXCEPT !.st = "hung"]
           hung == [h1 EXCEPT !.tab = call[c].tab]
<1>5. \/ /\ Retried(call[c].kind, call[c].status, call[c].tries)
         /\ EnsureCsrfToken(c, again, call[c].tab, 0)
         /\ UNCHANGED <<sessionExpired, leaving>>
      \/ /\ call' = [call EXCEPT ![c] = hung]
         /\ Expire(call[c].tab)
         /\ UNCHANGED <<csrfToken, csrfFetch>>
      \/ \E st \in {"done", "failed"} :
           /\ Settle(c, st)
           /\ UNCHANGED <<csrfToken, csrfFetch, sessionExpired>>
  <2>1. [call[c] EXCEPT !.tries = 1, !.saved = Keep] = again
    OBVIOUS
  <2>2. [Idle EXCEPT !.st = "hung", !.tab = call[c].tab] = hung
    OBVIOUS
  <2> HIDE DEF again, hung
  <2>3. \/ /\ Retried(call[c].kind, call[c].status, call[c].tries)
           /\ EnsureCsrfToken(c, again, call[c].tab, 0)
           /\ UNCHANGED <<sessionExpired, leaving>>
        \/ /\ call' = [call EXCEPT ![c] = hung]
           /\ Expire(call[c].tab)
           /\ UNCHANGED <<csrfToken, csrfFetch>>
        \/ /\ Settle(c, IF call[c].status = 200 THEN "done" ELSE "failed")
           /\ UNCHANGED <<csrfToken, csrfFetch, sessionExpired>>
    BY <2>1, <2>2 DEF Answer
  <2>4. (IF call[c].status = 200 THEN "done" ELSE "failed") \in {"done", "failed"}
    OBVIOUS
  <2> QED BY <2>3, <2>4, Zenon
<1>6. CASE /\ Retried(call[c].kind, call[c].status, call[c].tries)
           /\ EnsureCsrfToken(c, again, call[c].tab, 0)
           /\ UNCHANGED <<sessionExpired, leaving>>
  <2>1. a1 \in CallRecords /\ a1.tab = call[c].tab
    BY <1>2, SMT DEF CallRecords
  <2> HIDE DEF a1
  <2>2. again \in CallRecords /\ again.tab = call[c].tab
    BY <2>1, SMT DEF CallRecords, CookieOrNone, Keep
  <2>3. runs[c] = 0
    BY <1>2, <1>6, SMT DEF Retried
  <2>4. sessionExpired' \in [Tabs -> BOOLEAN] /\ leaving' \in [Tabs -> CookieOrNone]
    BY <1>1, <1>6, SMT DEF TypeOK
  <2> HIDE DEF again
  <2> QED BY <1>2, <1>3, <1>4, <1>6, <2>2, <2>3, <2>4, SentOn, Bounds, SMT
<1>7. CASE /\ call' = [call EXCEPT ![c] = hung]
           /\ Expire(call[c].tab)
           /\ UNCHANGED <<csrfToken, csrfFetch>>
  <2>1. h1 \in CallRecords /\ h1.st = "hung"
    BY IdleTyped, SMT DEF Idle, CallRecords, CallStates
  <2> HIDE DEF h1
  <2>2. hung \in CallRecords /\ hung.st = "hung"
    BY <1>2, <2>1, SMT DEF CallRecords
  <2> HIDE DEF hung
  <2>3. sessionExpired' \in [Tabs -> BOOLEAN]
    <3>1. sessionExpired' = [sessionExpired EXCEPT ![call[c].tab] = TRUE]
      BY <1>7 DEF Expire
    <3>2. sessionExpired \in [Tabs -> BOOLEAN]
      BY <1>1 DEF TypeOK
    <3> QED BY <3>1, <3>2
  <2>4. leaving' \in [Tabs -> CookieOrNone]
    <3>1. jar' \in CookieOrNone /\ leaving \in [Tabs -> CookieOrNone]
      BY <1>1, <1>4 DEF TypeOK, CookieOrNone
    <3>2. leaving' = leaving \/ leaving' = [leaving EXCEPT ![call[c].tab] = jar']
      BY <1>7 DEF Expire
    <3> QED BY <3>1, <3>2, <1>2, SMT
  <2>5. /\ call' \in [Calls -> CallRecords] /\ runs' \in [Calls -> Nat]
        /\ \A x \in Calls : CallInv(x)'
    <3>1. UNCHANGED runs /\ hung.st \notin {"idle", "token", "sent", "answered"}
      BY <1>3, <2>2
    <3> QED BY <3>1, <1>7, <2>2, CallOver, Zenon
  <2>6. Rest
    BY <1>3, <1>4, <1>7, <2>3, <2>4, SameTokens, SMT DEF Rest
  <2> QED BY <2>5, <2>6, Together, Zenon
<1>8. CASE \E st \in {"done", "failed"} :
             /\ Settle(c, st)
             /\ UNCHANGED <<csrfToken, csrfFetch, sessionExpired>>
  <2>1. PICK st \in {"done", "failed"} :
          /\ Settle(c, st)
          /\ UNCHANGED <<csrfToken, csrfFetch, sessionExpired>>
    BY <1>8, Zenon
  <2>2. /\ call' \in [Calls -> CallRecords] /\ runs' \in [Calls -> Nat]
        /\ \A x \in Calls : CallInv(x)'
        /\ leaving' \in [Tabs -> CookieOrNone]
    BY <1>3, <1>4, <2>1, SettleTyped, Zenon
  <2>3. Rest
    BY <1>1, <1>3, <1>4, <2>1, <2>2, SameTokens, SMT DEF TypeOK, Rest
  <2> QED BY <2>2, <2>3, Together, Zenon
<1> QED BY <1>5, <1>6, <1>7, <1>8

-----------------------------------------------------------------------------
(* The shared request for a token.                                         *)

LEMMA SameCalls ==
    ASSUME IInv, UNCHANGED <<call, runs>>
    PROVE  /\ call' \in [Calls -> CallRecords] /\ runs' \in [Calls -> Nat]
           /\ \A x \in Calls : CallInv(x)'
<1>1. call \in [Calls -> CallRecords] /\ runs \in [Calls -> Nat] /\ \A x \in Calls : CallInv(x)
  BY DEF IInv, TypeOK
<1>2. \A x \in Calls : CallInv(x)'
  BY <1>1, SMT DEF CallInv, Fits
<1> QED BY <1>1, <1>2

LEMMA ServeTokenStep ==
    ASSUME IInv, NEW t \in Tabs, ServeToken(t)
    PROVE  IInv'
<1> DEFINE got == IF csrfFetch[t].cookie.token # 0 THEN csrfFetch[t].cookie.token ELSE FreshToken
           f1 == [csrfFetch[t] EXCEPT !.st = "served"]
           f2 == [f1 EXCEPT !.token = got]
<1>1. TypeOK /\ csrfFetch \in [Tabs -> Fetches] /\ (\A x \in Tabs : FetchInv(x))
  BY DEF IInv, TypeOK, Fetches
<1>2. /\ csrfFetch[t].st = "sent" /\ (csrfFetch[t].cookie.token = 0 => Unused # {})
      /\ csrfFetch' = [csrfFetch EXCEPT ![t].st = "served", ![t].token = got]
      /\ UNCHANGED <<jar, epoch, page, meta, csrfToken, sessionExpired, leaving, call, runs>>
  BY Zenon DEF ServeToken
<1>3. csrfFetch[t].cookie \in Cookies /\ csrfFetch[t].cookie.token \in Tokens
  BY <1>1, <1>2, SMT DEF FetchInv, Cookies
<1>4. got \in Tokens
  BY <1>2, <1>3, FreshTyped, SMT
<1>5. csrfFetch' = [csrfFetch EXCEPT ![t] = f2]
  BY <1>1, <1>2
<1> HIDE DEF got
<1>6. f1 \in Fetches /\ f1.cookie = csrfFetch[t].cookie
  BY <1>1, SMT DEF Fetches
<1> HIDE DEF f1
<1>7. f2 \in Fetches /\ f2.cookie \in Cookies
  BY <1>3, <1>4, <1>6, SMT DEF Fetches
<1> HIDE DEF f2
<1>8. csrfFetch' \in [Tabs -> Fetches] /\ \A x \in Tabs : FetchInv(x)'
  BY <1>1, <1>5, <1>7, SMT DEF FetchInv
<1>9. Rest
  BY <1>1, <1>2, <1>8, SMT DEF TypeOK, Rest
<1>10. /\ call' \in [Calls -> CallRecords] /\ runs' \in [Calls -> Nat]
       /\ \A x \in Calls : CallInv(x)'
  BY <1>2, SameCalls, Zenon
<1> QED BY <1>9, <1>10, Together, Zenon

\* A call that waited for the token is sent on or ends; the others stay.
LEMMA GoOnTyped ==
    ASSUME IInv, jar' \in Cookies, NEW c \in Calls, NEW t \in Tabs, NEW token \in Tokens
    PROVE  /\ GoOn(c, t, token) \in CallRecords
           /\ \/ GoOn(c, t, token) = call[c]
              \/ /\ call[c].st = "token" /\ GoOn(c, t, token).st = "sent"
                 /\ GoOn(c, t, token).tab = call[c].tab
              \/ GoOn(c, t, token).st = "failed"
<1>1. call[c] \in CallRecords
  BY DEF IInv, TypeOK
<1>2. /\ Send(call[c], t, token) \in CallRecords
      /\ Send(call[c], t, token).st = "sent"
      /\ Send(call[c], t, token).tab = call[c].tab
  BY <1>1, SendTyped, Zenon
<1>3. Over("failed") \in CallRecords /\ Over("failed").st = "failed"
  BY OverTyped, SMT DEF CallStates
<1> QED BY <1>1, <1>2, <1>3, Zenon DEF GoOn

LEMMA TokenArrivesStep ==
    ASSUME IInv, NEW t \in Tabs, NEW got \in Tokens, csrfFetch[t].st # "none", TokenArrives(t, got)
    PROVE  IInv'
<1> DEFINE token == IF got # 0 THEN got ELSE csrfToken[t]
<1>1. TypeOK /\ csrfFetch \in [Tabs -> Fetches] /\ csrfFetch[t].cookie \in Cookies
      /\ (\A x \in Tabs : FetchInv(x)) /\ (\A x \in Calls : CallInv(x))
  BY DEF IInv, TypeOK, FetchInv, Fetches
<1>2. /\ jar' = IF got # 0 /\ csrfFetch[t].cookie.token = 0
               THEN [csrfFetch[t].cookie EXCEPT !.token = got] ELSE jar
      /\ csrfFetch' = [csrfFetch EXCEPT ![t] = NoFetch]
      /\ csrfToken' = [csrfToken EXCEPT ![t] = token]
      /\ call' = [c \in Calls |-> GoOn(c, t, token)]
      /\ leaving' = leaving \/ leaving' = [leaving EXCEPT ![t] = jar']
      /\ UNCHANGED <<epoch, page, meta, sessionExpired, runs>>
  BY Zenon DEF TokenArrives
<1>3. jar' \in Cookies
  <2>1. [csrfFetch[t].cookie EXCEPT !.token = got] \in Cookies /\ jar \in Cookies
    BY <1>1, CookieToken, Zenon DEF TypeOK
  <2> QED BY <1>2, <2>1, Zenon
<1>4. token \in Tokens
  BY <1>1, SMT DEF TypeOK
<1> HIDE DEF token
<1>5. \A c \in Calls : /\ call'[c] \in CallRecords
                       /\ \/ call'[c] = call[c]
                          \/ /\ call[c].st = "token" /\ call'[c].st = "sent"
                             /\ call'[c].tab = call[c].tab
                          \/ call'[c].st = "failed"
  BY <1>2, <1>3, <1>4, GoOnTyped, SMT
<1>6. call' \in [Calls -> CallRecords] /\ runs' \in [Calls -> Nat]
  BY <1>1, <1>2, <1>5, SMT DEF TypeOK
<1>7. ASSUME NEW c \in Calls PROVE CallInv(c)'
  <2>1. CallInv(c) /\ runs'[c] = runs[c]
    BY <1>1, <1>2
  <2> QED BY <1>5, <2>1, SMT DEF CallInv, Fits
<1>8. csrfFetch' \in [Tabs -> Fetches] /\ \A x \in Tabs : FetchInv(x)'
  <2>1. NoFetch \in Fetches /\ NoFetch.st = "none"
    BY IdleTyped DEF NoFetch
  <2> HIDE DEF NoFetch
  <2> QED BY <1>1, <1>2, <2>1, SMT DEF FetchInv
<1>9. leaving' \in [Tabs -> CookieOrNone]
  <2>1. jar' \in CookieOrNone /\ leaving \in [Tabs -> CookieOrNone]
    BY <1>1, <1>3 DEF TypeOK, CookieOrNone
  <2> QED BY <1>2, <2>1, SMT
<1>10. Rest
  BY <1>1, <1>2, <1>3, <1>4, <1>8, <1>9, SMT DEF TypeOK, Rest
<1> QED BY <1>6, <1>7, <1>10, Together, Zenon

-----------------------------------------------------------------------------
(* Documents.                                                              *)

LEMMA VisitStep ==
    ASSUME IInv, NEW t \in Tabs, Visit(t)
    PROVE  IInv'
<1>1. leaving' = [leaving EXCEPT ![t] = jar] /\ UNCHANGED <<jar, epoch, page, httpVars, call, runs>>
  BY DEF Visit
<1>2. leaving' \in [Tabs -> CookieOrNone] /\ jar' \in Cookies
  BY <1>1, SMT DEF IInv, TypeOK, CookieOrNone
<1>3. Rest
  BY <1>1, <1>2, SameTokens, SMT DEF IInv, TypeOK, Rest, httpVars
<1>4. /\ call' \in [Calls -> CallRecords] /\ runs' \in [Calls -> Nat]
      /\ \A x \in Calls : CallInv(x)'
  BY <1>1, SameCalls, Zenon
<1> QED BY <1>3, <1>4, Together, Zenon

LEMMA LoadStep ==
    ASSUME IInv, NEW t \in Tabs, Load(t)
    PROVE  IInv'
<1> DEFINE c0 == leaving[t]
           cookie == IF SignedIn(c0) THEN c0 ELSE [c0 EXCEPT !.user = 0]
           over == [c \in Calls |-> IF call[c].tab = t /\ call[c].st \in {"token", "sent", "answered", "hung"}
                                   THEN Over("gone") ELSE call[c]]
<1>1. TypeOK /\ (\A x \in Tabs : FetchInv(x)) /\ (\A x \in Calls : CallInv(x))
  BY DEF IInv
<1>2. c0 \in Cookies /\ c0.token \in Tokens
  <2>1. c0 # NoNav
    BY DEF Load
  <2>2. c0 \in CookieOrNone
    BY <1>1 DEF TypeOK
  <2> QED BY <2>1, <2>2, SMT DEF CookieOrNone, Cookies
<1>3. PICK fails \in BOOLEAN :
        LET token == IF c0.token # 0 THEN c0.token ELSE IF fails THEN 0 ELSE FreshToken
        IN /\ fails => c0.token = 0
           /\ jar' = IF cookie = c0 /\ token = c0.token THEN jar ELSE [cookie EXCEPT !.token = token]
           /\ meta' = [meta EXCEPT ![t] = token]
           /\ csrfToken' = [csrfToken EXCEPT ![t] = token]
  BY DEF Load
<1>4. /\ c0.token = 0 => Unused # {}
      /\ page' = [page EXCEPT ![t] = IF SignedIn(c0) THEN "panel" ELSE "login"]
      /\ csrfFetch' = [csrfFetch EXCEPT ![t] = NoFetch]
      /\ sessionExpired' = [sessionExpired EXCEPT ![t] = FALSE]
      /\ leaving' = [leaving EXCEPT ![t] = NoNav]
      /\ call' = over
      /\ UNCHANGED <<epoch, runs>>
  BY DEF Load
<1> DEFINE token == IF c0.token # 0 THEN c0.token ELSE IF fails THEN 0 ELSE FreshToken
<1>5. token \in Tokens
  BY <1>2, <1>4, Bounds, FreshTyped, Zenon
<1>6. /\ jar' = IF cookie = c0 /\ token = c0.token THEN jar ELSE [cookie EXCEPT !.token = token]
      /\ meta' = [meta EXCEPT ![t] = token]
      /\ csrfToken' = [csrfToken EXCEPT ![t] = token]
  BY <1>3
<1> HIDE DEF token
<1>7. jar' \in Cookies
  <2>1. c0 \in CookieOrNone
    BY <1>2 DEF CookieOrNone
  <2>2. cookie \in Cookies
    BY <1>2, <2>1, CookieUser, Bounds, Zenon
  <2> HIDE DEF cookie
  <2>3. [cookie EXCEPT !.token = token] \in Cookies
    BY <2>2, <1>5, CookieToken, Zenon
  <2>4. jar \in Cookies
    BY <1>1 DEF TypeOK
  <2> QED BY <2>3, <2>4, <1>6, Zenon
<1>8. meta' \in [Tabs -> Tokens] /\ csrfToken' \in [Tabs -> Tokens]
  BY <1>1, <1>5, <1>6, SMT DEF TypeOK
<1>9. page' \in [Tabs -> {"none", "login", "panel"}]
  <2>1. page \in [Tabs -> {"none", "login", "panel"}]
    BY <1>1 DEF TypeOK
  <2> QED BY <1>4, <2>1
<1>10. sessionExpired' \in [Tabs -> BOOLEAN]
  <2>1. sessionExpired \in [Tabs -> BOOLEAN]
    BY <1>1 DEF TypeOK
  <2> QED BY <1>4, <2>1
<1>11. leaving' \in [Tabs -> CookieOrNone]
  <2>1. leaving \in [Tabs -> CookieOrNone] /\ NoNav \in CookieOrNone
    BY <1>1 DEF TypeOK, CookieOrNone
  <2> QED BY <1>4, <2>1, SMT
<1>12. csrfFetch' \in [Tabs -> Fetches] /\ \A x \in Tabs : FetchInv(x)'
  <2>1. NoFetch \in Fetches /\ NoFetch.st = "none"
    BY IdleTyped DEF NoFetch
  <2>2. csrfFetch \in [Tabs -> Fetches]
    BY <1>1 DEF TypeOK, Fetches
  <2> HIDE DEF NoFetch
  <2> QED BY <1>1, <1>4, <2>1, <2>2, SMT DEF FetchInv
<1>13. \A c \in Calls : /\ call'[c] \in CallRecords
                        /\ call'[c] = call[c] \/ call'[c].st = "gone"
  <2>1. Over("gone") \in CallRecords /\ Over("gone").st = "gone"
    BY OverTyped, SMT DEF CallStates
  <2>2. call \in [Calls -> CallRecords]
    BY <1>1 DEF TypeOK
  <2> QED BY <1>4, <2>1, <2>2, Zenon
<1>14. call' \in [Calls -> CallRecords] /\ runs' \in [Calls -> Nat]
  <2>1. call' = [c \in Calls |-> call'[c]]
    BY <1>4, Zenon
  <2>2. runs' \in [Calls -> Nat]
    BY <1>1, <1>4 DEF TypeOK
  <2> QED BY <1>13, <2>1, <2>2, Zenon
<1>15. ASSUME NEW c \in Calls PROVE CallInv(c)'
  <2>1. CallInv(c) /\ runs'[c] = runs[c]
    BY <1>1, <1>4
  <2> QED BY <1>13, <2>1, SMT DEF CallInv, Fits
<1>16. epoch' \in 1 .. MaxEpoch
  BY <1>1, <1>4 DEF TypeOK
<1> QED BY <1>7, <1>8, <1>9, <1>10, <1>11, <1>12, <1>14, <1>15, <1>16, Zenon DEF IInv, TypeOK, Fetches

LEMMA BumpLoginEpochStep ==
    ASSUME IInv, BumpLoginEpoch
    PROVE  IInv'
<1>1. /\ epoch < MaxEpoch /\ epoch' = epoch + 1
      /\ UNCHANGED <<jar, page, httpVars, leaving, call, runs>>
  BY DEF BumpLoginEpoch
<1>2. epoch' \in 1 .. MaxEpoch
  BY <1>1, SessionAssumption, SMT DEF IInv, TypeOK
<1>3. \A c \in Calls : CallInv(c)'
  BY <1>1, SameCalls, Zenon
<1>4. \A x \in Tabs : FetchInv(x)'
  BY <1>1, SameTokens, Zenon DEF httpVars
<1> QED BY <1>1, <1>2, <1>3, <1>4, Zenon DEF IInv, TypeOK, httpVars

-----------------------------------------------------------------------------
(* The invariant and what it gives.                                        *)

LEMMA InitInv == Init => IInv
<1> SUFFICES ASSUME Init PROVE IInv
  OBVIOUS
<1>1. jar \in Cookies /\ epoch \in 1 .. MaxEpoch
  BY Bounds, SMT DEF Init, NoCookie, Cookies
<1>2. NoFetch \in Fetches /\ Idle \in CallRecords /\ NoNav \in CookieOrNone /\ 0 \in Tokens
  BY IdleTyped, Bounds, Zenon DEF CookieOrNone
<1>3. NoFetch.st = "none" /\ Idle.st = "idle"
  BY DEF NoFetch, Idle
<1> HIDE DEF NoFetch, Idle
<1>4. TypeOK
  BY <1>1, <1>2, SMT DEF Init, TypeOK, Fetches
<1>5. (\A c \in Calls : CallInv(c)) /\ (\A t \in Tabs : FetchInv(t))
  BY <1>3, SMT DEF Init, CallInv, Fits, FetchInv
<1> QED BY <1>4, <1>5 DEF IInv

LEMMA StepInv == IInv /\ [Next]_vars => IInv'
<1> SUFFICES ASSUME IInv, [Next]_vars PROVE IInv'
  OBVIOUS
<1>1. CASE UNCHANGED vars
  <2>1. UNCHANGED <<jar, epoch, page, meta, csrfToken, csrfFetch, sessionExpired, leaving, call, runs>>
    BY <1>1 DEF vars, httpVars
  <2>2. Rest
    BY <2>1, SameTokens, Zenon DEF IInv, TypeOK, Rest
  <2>3. /\ call' \in [Calls -> CallRecords] /\ runs' \in [Calls -> Nat]
        /\ \A x \in Calls : CallInv(x)'
    BY <2>1, SameCalls, Zenon
  <2> QED BY <2>2, <2>3, Together, Zenon
<1>2. ASSUME NEW c \in Calls, NEW t \in Tabs, StartWrite(c, t) \/ StartLogin(c, t) \/ StartLogout(c, t)
      PROVE  IInv'
  BY <1>2, StartStep, Zenon
<1>3. ASSUME NEW c \in Calls, NEW t \in Tabs, StartRead(c, t) PROVE IInv'
  BY <1>3, StartReadStep, Zenon
<1>4. ASSUME NEW c \in Calls, Handle(c) PROVE IInv'
  BY <1>4, HandleStep, Zenon
<1>5. ASSUME NEW c \in Calls, Answer(c) PROVE IInv'
  BY <1>5, AnswerStep, Zenon
<1>6. ASSUME NEW c \in Calls, Lose(c) PROVE IInv'
  BY <1>6, LoseStep, Zenon
<1>7. ASSUME NEW t \in Tabs, ServeToken(t) PROVE IInv'
  BY <1>7, ServeTokenStep, Zenon
<1>8. ASSUME NEW t \in Tabs, ReceiveToken(t) PROVE IInv'
  <2>1. csrfFetch[t].st # "none" /\ TokenArrives(t, csrfFetch[t].token)
    BY <1>8 DEF ReceiveToken
  <2>2. csrfFetch[t].token \in Tokens
    BY SMT DEF IInv, TypeOK
  <2> QED BY <2>1, <2>2, TokenArrivesStep, Zenon
<1>9. ASSUME NEW t \in Tabs, LoseToken(t) PROVE IInv'
  <2>1. csrfFetch[t].st # "none" /\ TokenArrives(t, 0)
    BY <1>9 DEF LoseToken
  <2> QED BY <2>1, Bounds, TokenArrivesStep, Zenon
<1>10. ASSUME NEW t \in Tabs, Visit(t) PROVE IInv'
  BY <1>10, VisitStep, Zenon
<1>11. ASSUME NEW t \in Tabs, Load(t) PROVE IInv'
  BY <1>11, LoadStep, Zenon
<1>12. CASE BumpLoginEpoch
  BY <1>12, BumpLoginEpochStep, Zenon
<1> QED
  BY <1>1, <1>2, <1>3, <1>4, <1>5, <1>6, <1>7, <1>8, <1>9, <1>10, <1>11, <1>12, Zenon DEF Next

LEMMA Inductive == Spec => []IInv
BY InitInv, StepInv, PTL DEF Spec

\* The variables of the pages, the calls and the session keep their types.
THEOREM TypeCorrect == Spec => []TypeOK
<1>1. IInv => TypeOK
  BY DEF IInv
<1> QED BY <1>1, Inductive, PTL

\* httpRequest never has the server carry the same request out twice: what
\* it sends again was refused before it was carried out.
THEOREM RunAtMostOnce == Spec => []AtMostOnce
<1>1. IInv => AtMostOnce
  BY SMT DEF IInv, CallInv, Fits, AtMostOnce
<1> QED BY <1>1, Inductive, PTL

-----------------------------------------------------------------------------
(***************************************************************************)
(* The roles page and the admin's panel.                                    *)
(***************************************************************************)
\* The first of some numbers is one of them, and none is smaller.
LEMMA FirstIsLeast ==
    ASSUME NEW S \in SUBSET Nat, S # {}
    PROVE  First(S) \in S /\ \A m \in S : First(S) <= m
<1> DEFINE less == {ss \in Nat \X Nat : ss[1] < ss[2]}
<1>1. IsWellFoundedOn(less, Nat)
  BY NatLessThanWellFounded, Zenon DEF OpToRel
<1>2. PICK n \in S : \A m \in S : ~(<<m, n>> \in less)
  BY <1>1, WFMin, Zenon
<1>3. ASSUME NEW m \in S
      PROVE  n <= m
  <2>1. <<m, n>> \in Nat \X Nat /\ <<m, n>>[1] = m /\ <<m, n>>[2] = n
    OBVIOUS
  <2>2. ~(m < n)
    BY <1>2, <2>1, Zenon
  <2> QED BY <2>2, SMT
<1> QED BY <1>2, <1>3, Zenon DEF First

-----------------------------------------------------------------------------
(* The guard.                                                              *)

Open(r) == CanAccessRoute(AsRole(admin), r)

\* The guard remembers a navigation of its own only until its effects have
\* run again, on a page that the role may open.
GuardInv ==
    admin # Missing => /\ navigated => guardDue = "path" /\ Open(route)
                       /\ guardDue = "no" => Open(route)

\* There is always a page to go to.
LEMMA FirstRouteOpen ==
    ASSUME NEW role
    PROVE  CanAccessRoute(role, FirstAllowedRoute(role))
<1> DEFINE ok == {n \in DOMAIN Routes : CanAccessRoute(role, Routes[n])}
<1>1. CASE ok = {}
  BY RoutesAssumption, <1>1, Zenon DEF FirstAllowedRoute, CanAccessRoute
<1>2. CASE ok # {}
  <2>1. ok \in SUBSET Nat
    BY RoutesAssumption, SMT
  <2>2. First(ok) \in ok
    BY <1>2, <2>1, FirstIsLeast, Zenon
  <2> QED BY <1>2, <2>2, Zenon DEF FirstAllowedRoute
<1> QED BY <1>1, <1>2

LEMMA InitGuard == RolesInit => GuardInv
BY Zenon DEF RolesInit, GuardInv

LEMMA EffectGuards ==
    ASSUME GuardInv, GuardEffect
    PROVE  GuardInv'
<1> DEFINE role    == AsRole(admin)
           leave   == ~Open(route) /\ ~navigated
           target  == IF leave THEN FirstAllowedRoute(role) ELSE route
<1>1. /\ admin # Missing /\ guardDue # "no" /\ admin' = admin
      /\ route' = target
      /\ navigated' = (~Open(route) /\ guardDue # "path")
      /\ guardDue' = IF target # route THEN "path" ELSE "no"
  BY Zenon DEF GuardEffect, Open
<1>2. Open(target)
  BY <1>1, FirstRouteOpen, Zenon DEF GuardInv, Open
<1>3. Open(route)'
  BY <1>1, <1>2, Zenon DEF Open, CanAccessRoute, AsRole
<1>4. ASSUME navigated'
      PROVE  guardDue' = "path"
  BY <1>1, <1>2, <1>4, Zenon DEF GuardInv
<1> QED BY <1>1, <1>3, <1>4, Zenon DEF GuardInv

LEMMA StepGuards ==
    ASSUME GuardInv, [RolesNext]_(rolesVars)
    PROVE  GuardInv'
<1> USE DEF GuardInv, Open
<1>1. CASE UNCHANGED guardVars
  BY <1>1, Zenon DEF guardVars
<1>2. CASE GuardEffect
  BY <1>2, EffectGuards, Zenon
<1>3. CASE LoadCurrentAdmin
  BY <1>3, Zenon DEF LoadCurrentAdmin
<1>4. ASSUME NEW r \in Paths, Navigate(r)
      PROVE  GuardInv'
  BY <1>4, Zenon DEF Navigate
<1>5. CASE UNCHANGED rolesVars
  BY <1>1, <1>5, Zenon DEF rolesVars
<1>6. CASE RolesNext
  BY <1>1, <1>2, <1>3, <1>4, <1>6, Zenon DEF RolesNext, Refetch, HandleEdit, OpenCreate, OpenSection, FoldSection, ChangeName, ChangePermission, CloseDialog, Submit, HandleDuplicate, ServerSaves, ServerRefuses, SubmitReturns, HandleBulkDelete, OtherOwner
<1> QED BY <1>5, <1>6

\* Wherever the address, the menu or the history sends an admin, and whatever
\* the role has lost, the guard comes to rest on a page the role may open.
THEOREM GuardFindsOpenPage == RolesSpec => []GuardLands
<1>1. GuardInv => GuardLands
  BY Zenon DEF GuardInv, Open, GuardLands
<1>2. GuardInv /\ [RolesNext]_(rolesVars) => GuardInv'
  BY StepGuards, Zenon
<1> QED BY <1>1, <1>2, InitGuard, PTL DEF RolesSpec
-----------------------------------------------------------------------------
(* The two evaluations.                                                    *)

FormValues == {"absent"} \cup Booleans \cup Scoped

\* What a form of the page may hold and write.
FormKinds(perms) ==
    /\ \A p \in ScopedPairs : perms[p] # "true"
    /\ \A p \in FormPairs \ ScopedPairs : perms[p] \notin Scoped

FormOK(perms) ==
    /\ perms \in [Pairs -> FormValues] /\ FormKinds(perms)
    /\ \A p \in Pairs \ FormPairs : perms[p] = "absent"

\* No scoped action is granted for more than one's own clients.
OwnAtMost(perms) == \A p \in ScopedPairs : perms[p] # "scope2"

LEMMA JoinedRange ==
    ASSUME NEW S, NEW T, NEW a \in Seq(S), NEW b \in Seq(T)
    PROVE  Range(a \o b) = Range(a) \cup Range(b) /\ DOMAIN (a \o b) \subseteq Nat
<1> DEFINE c == a \o b
<1>1. /\ DOMAIN a = 1..Len(a) /\ DOMAIN b = 1..Len(b) /\ Len(a) \in Nat /\ Len(b) \in Nat
      /\ DOMAIN c = 1..(Len(a) + Len(b))
      /\ \A n \in 1..(Len(a) + Len(b)) : c[n] = IF n <= Len(a) THEN a[n] ELSE b[n - Len(a)]
  BY SMT
<1> HIDE DEF c
<1>2. ASSUME NEW n \in DOMAIN c
      PROVE  c[n] \in Range(a) \cup Range(b)
  <2>1. CASE n <= Len(a)
    BY <1>1, <2>1, SMT DEF Range
  <2>2. CASE n > Len(a)
    <3>1. c[n] = b[n - Len(a)] /\ n - Len(a) \in DOMAIN b
      BY <1>1, <2>2, SMT
    <3> QED BY <3>1, SMT DEF Range
  <2> QED BY <1>1, <2>1, <2>2, SMT
<1>3. ASSUME NEW n \in DOMAIN a
      PROVE  a[n] \in Range(c)
  <2>1. n \in DOMAIN c /\ c[n] = a[n]
    BY <1>1, SMT
  <2> QED BY <2>1, SMT DEF Range
<1>4. ASSUME NEW n \in DOMAIN b
      PROVE  b[n] \in Range(c)
  <2>1. n + Len(a) \in DOMAIN c /\ c[n + Len(a)] = b[n]
    BY <1>1, SMT
  <2> QED BY <2>1, SMT DEF Range
<1>5. Range(c) = Range(a) \cup Range(b)
  BY <1>2, <1>3, <1>4, SMT DEF Range
<1>6. DOMAIN c \subseteq Nat
  BY <1>1, SMT
<1> QED BY <1>5, <1>6 DEF c

LEMMA TwoInRange ==
    ASSUME NEW a, NEW b
    PROVE  Range(<<a>>) = {a} /\ Range(<<a, b>>) = {a, b}
BY SMT DEF Range

\* The section and its alias, if it has one.
LEMMA SectionAliases ==
    ASSUME NEW s
    PROVE  LET ss == SectionAlias(s)
           IN  /\ Len(ss) \in {1, 2} /\ ss[1] = s
               /\ ss[1] \in Range(ss) /\ (Len(ss) # 1 => ss[2] \in Range(ss))
               /\ ServerSections(s) \subseteq Range(ss)
               /\ s # "clients" => Range(ss) = ServerSections(s)
<1>1. CASE s = "roles"
  <2>1. SectionAlias(s) = <<"roles", "admin_roles">>
    BY <1>1, Zenon DEF SectionAlias
  <2>2. Range(SectionAlias(s)) = {"roles", "admin_roles"}
    BY <2>1, TwoInRange, Zenon
  <2>3. Len(SectionAlias(s)) = 2 /\ SectionAlias(s)[1] = s /\ SectionAlias(s)[2] = "admin_roles"
    BY <1>1, <2>1, SMT
  <2> QED BY <1>1, <2>2, <2>3, SMT DEF ServerSections
<1>2. CASE s = "admin_roles"
  <2>1. SectionAlias(s) = <<"admin_roles", "roles">>
    BY <1>2, SMT DEF SectionAlias
  <2>2. Range(SectionAlias(s)) = {"admin_roles", "roles"}
    BY <2>1, TwoInRange, Zenon
  <2>3. Len(SectionAlias(s)) = 2 /\ SectionAlias(s)[1] = s /\ SectionAlias(s)[2] = "roles"
    BY <1>2, <2>1, SMT
  <2> QED BY <1>2, <2>2, <2>3, SMT DEF ServerSections
<1>3. CASE s = "clients"
  <2>1. SectionAlias(s) = <<"clients", "users">>
    BY <1>3, SMT DEF SectionAlias
  <2>2. Range(SectionAlias(s)) = {"clients", "users"}
    BY <2>1, TwoInRange, Zenon
  <2>3. Len(SectionAlias(s)) = 2 /\ SectionAlias(s)[1] = s /\ SectionAlias(s)[2] = "users"
    BY <1>3, <2>1, SMT
  <2> QED BY <1>3, <2>2, <2>3, SMT DEF ServerSections
<1>4. CASE s \notin {"roles", "admin_roles", "clients"}
  <2>1. SectionAlias(s) = <<s>>
    BY <1>4, SMT DEF SectionAlias
  <2>2. Range(SectionAlias(s)) = {s}
    BY <2>1, TwoInRange, Zenon
  <2>3. Len(SectionAlias(s)) = 1 /\ SectionAlias(s)[1] = s
    BY <1>4, <2>1, SMT
  <2> QED BY <1>4, <2>2, <2>3, SMT DEF ServerSections
<1> QED BY <1>1, <1>2, <1>3, <1>4

\* An action has at most one other name.
LEMMA OneOther ==
    ASSUME NEW k, NEW o \in OtherNames(k), NEW u \in OtherNames(k)
    PROVE  o = u
BY SMT DEF OtherNames, ServersOf, FrontNames, TwoNames

\* Where findPermissionValue looks: under every name of the permission and
\* under no other.
LEMMA OrderNames ==
    ASSUME NEW s, NEW k
    PROVE  LET order == LookupOrder(s, k)
           IN  DOMAIN order \subseteq Nat /\ Range(order) = Names(s, k)
<1> DEFINE ss == SectionAlias(s)
           ks == KeyAlias(k)
           a  == InSection(ss[1], ks)
           b  == IF Len(ss) = 1 THEN <<>> ELSE InSection(ss[2], ks)
           kn == {k} \cup OtherNames(k)
<1>1. ks \in Seq(kn) /\ Len(ks) \in {1, 2} /\ Range(ks) = kn
  <2>1. CASE OtherNames(k) = {}
    <3>1. ks = <<k>> /\ kn = {k}
      BY <2>1, Zenon DEF KeyAlias
    <3> HIDE DEF ks, kn
    <3> QED BY <3>1, SMT DEF Range
  <2>2. CASE OtherNames(k) # {}
    <3>1. PICK o \in OtherNames(k) : ks = <<k, o>>
      BY <2>2, Zenon DEF KeyAlias
    <3>2. kn = {k, o}
      BY <3>1, OneOther, SMT
    <3> HIDE DEF ks, kn
    <3> QED BY <3>1, <3>2, SMT DEF Range
  <2> QED BY <2>1, <2>2
<1>2. /\ ss \in Seq(Range(ss)) /\ Len(ss) \in {1, 2}
      /\ Len(ss) = 1 => Range(ss) = {ss[1]}
      /\ Len(ss) = 2 => Range(ss) = {ss[1], ss[2]}
  <2>1. ss = <<s>> \/ \E o : ss = <<s, o>>
    <3>1. CASE s \in {"roles", "admin_roles", "clients"}
      BY <3>1, SMT DEF SectionAlias
    <3>2. CASE s \notin {"roles", "admin_roles", "clients"}
      BY <3>2, SMT DEF SectionAlias
    <3> QED BY <3>1, <3>2
  <2> HIDE DEF ss
  <2>2. CASE ss = <<s>>
    BY <2>2, SMT DEF Range
  <2>3. ASSUME NEW o, ss = <<s, o>>
        PROVE  ss \in Seq(Range(ss)) /\ Len(ss) = 2 /\ Range(ss) = {ss[1], ss[2]}
    BY <2>3, SMT DEF Range
  <2> QED BY <2>1, <2>2, <2>3, SMT
<1> HIDE DEF ss, ks, kn
<1>3. \A t : /\ InSection(t, ks) \in Seq({t} \X kn) /\ Range(InSection(t, ks)) = {t} \X kn
  BY <1>1, SMT DEF InSection, Range
<1>4. CASE Len(ss) = 1
  <2>1. a \o b = a /\ Range(a) = {ss[1]} \X kn /\ DOMAIN a \subseteq Nat
    <3>1. b = <<>> /\ Range(a) = {ss[1]} \X kn /\ a \in Seq({ss[1]} \X kn)
      BY <1>3, <1>4, Zenon
    <3> HIDE DEF a, b
    <3> QED BY <3>1, SMT
  <2>2. {ss[1]} = Range(ss)
    BY <1>2, <1>4, Zenon
  <2> QED BY <2>1, <2>2, Zenon DEF LookupOrder, Names, ss, ks, kn
<1>5. CASE Len(ss) = 2
  <2>1. b = InSection(ss[2], ks)
    BY <1>5, SMT
  <2>2. /\ a \in Seq({ss[1]} \X kn) /\ Range(a) = {ss[1]} \X kn
        /\ b \in Seq({ss[2]} \X kn) /\ Range(b) = {ss[2]} \X kn
    BY <1>3, <2>1, Zenon
  <2>3. Range(a \o b) = Range(a) \cup Range(b) /\ DOMAIN (a \o b) \subseteq Nat
    <3> HIDE DEF a, b
    <3> QED BY <2>2, JoinedRange, Zenon
  <2>4. {ss[1]} \X kn \cup {ss[2]} \X kn = Range(ss) \X kn
    BY <1>2, <1>5, SMT
  <2>5. Range(a \o b) = Range(ss) \X kn
    <3> HIDE DEF a, b
    <3> QED BY <2>2, <2>3, <2>4, Zenon
  <2> QED BY <2>3, <2>5, Zenon DEF LookupOrder, Names, ss, ks, kn
<1> QED BY <1>2, <1>4, <1>5

\* What the first present pair says, where all present ones say the same.
LEMMA FirstSays ==
    ASSUME NEW perms, NEW order, DOMAIN order \subseteq Nat,
           NEW held, held = {q \in Range(order) \cap Pairs : perms[q] # "absent"},
           \A q, r \in held : perms[q] = perms[r]
    PROVE  LET v == FirstPresent(perms, order)
           IN  (held = {} /\ v = "absent") \/ (held # {} /\ \A q \in held : v = perms[q])
<1> DEFINE present == {n \in DOMAIN order : order[n] \in Pairs /\ perms[order[n]] # "absent"}
<1>1. \A n \in present : order[n] \in held
  BY Zenon DEF Range
<1>2. ASSUME NEW q \in held
      PROVE  present # {}
  <2>1. q \in Range(order) /\ q \in Pairs /\ perms[q] # "absent"
    BY <1>2, Zenon
  <2>2. PICK n \in DOMAIN order : order[n] = q
    BY <2>1, Zenon DEF Range
  <2> QED BY <2>1, <2>2, Zenon
<1>3. CASE present = {}
  <2>1. FirstPresent(perms, order) = "absent"
    BY <1>3, Zenon DEF FirstPresent
  <2> QED BY <1>2, <1>3, <2>1, Zenon
<1>4. CASE present # {}
  <2>1. First(present) \in present
    BY <1>4, FirstIsLeast
  <2>2. FirstPresent(perms, order) = perms[order[First(present)]]
    BY <1>4, Zenon DEF FirstPresent
  <2>3. order[First(present)] \in held
    BY <1>1, <2>1, Zenon
  <2> QED BY <2>2, <2>3, Zenon
<1> QED BY <1>3, <1>4

\* The front end's value of an action of the form.
LEMMA FrontValue ==
    ASSUME NEW perms, Consistent(perms), NEW p \in FormPairs
    PROVE  LET v == Lookup(perms, p[1], p[2])
           IN  \/ HeldPairs(perms, p) = {} /\ v = "absent"
               \/ HeldPairs(perms, p) # {} /\ \A q \in HeldPairs(perms, p) : v = perms[q]
<1> DEFINE order == LookupOrder(p[1], p[2])
<1>1. HeldPairs(perms, p) = {q \in Range(order) \cap Pairs : perms[q] # "absent"}
  BY OrderNames, Zenon DEF HeldPairs
<1>2. \A q, r \in HeldPairs(perms, p) : perms[q] = perms[r]
  BY Zenon DEF Consistent
<1> QED BY <1>1, <1>2, OrderNames, FirstSays, Zenon DEF Lookup

LEMMA FrontGrants ==
    ASSUME NEW perms, Consistent(perms), NEW p \in FormPairs
    PROVE  HasPermission(AsRole(perms), p[1], p[2])
             <=> \E q \in HeldPairs(perms, p) : PermissionValueAllowed(perms[q])
<1>1. ~AsRole(perms).owner /\ AsRole(perms).perms = perms
  BY  DEF AsRole
<1>2. ~PermissionValueAllowed("absent")
  BY SMT DEF PermissionValueAllowed
<1>3. HasPermission(AsRole(perms), p[1], p[2]) <=> PermissionValueAllowed(Lookup(perms, p[1], p[2]))
  BY <1>1, Zenon DEF HasPermission
<1> DEFINE v == Lookup(perms, p[1], p[2])
<1>4. \/ HeldPairs(perms, p) = {} /\ v = "absent"
      \/ HeldPairs(perms, p) # {} /\ \A q \in HeldPairs(perms, p) : v = perms[q]
  BY FrontValue, Zenon
<1>5. HasPermission(AsRole(perms), p[1], p[2]) <=> PermissionValueAllowed(v)
  BY <1>3, Zenon
<1> HIDE DEF v
<1>6. CASE HeldPairs(perms, p) = {} /\ v = "absent"
  BY <1>2, <1>5, <1>6, Zenon
<1>7. CASE HeldPairs(perms, p) # {} /\ \A q \in HeldPairs(perms, p) : v = perms[q]
  BY <1>5, <1>7, Zenon
<1> QED BY <1>4, <1>6, <1>7

\* The middleware reads the editor's name of an action for its own.
LEMMA MiddlewareNames ==
    ASSUME NEW u, u \notin {n[1] : n \in FrontNames}, u # "admin_filter", NEW k \in ServerNames(u)
    PROVE  ServerKeys(k) = {u} \cup OtherNames(u)
<1>1. CASE ServersOf(u) = {}
  <2>1. k = u
    BY <1>1, SMT DEF ServerNames
  <2> QED BY <1>1, <2>1, SMT DEF OtherNames, ServersOf, ServerKeys, FrontNames
<1>2. CASE ServersOf(u) # {}
  <2>1. k \in ServersOf(u)
    BY <1>2, SMT DEF ServerNames
  <2>2. <<k, u>> \in TwoNames
    BY <2>1, SMT DEF ServersOf, FrontNames, TwoNames
  <2>3. ServerKeys(k) = {k, u}
    <3>1. \A m \in TwoNames : m[1] = k => m[2] = u
      BY <2>2, SMT DEF TwoNames
    <3> QED BY <2>2, <3>1, SMT DEF ServerKeys
  <2>4. OtherNames(u) = {k}
    BY <2>1, OneOther, SMT DEF OtherNames
  <2> QED BY <2>3, <2>4, SMT
<1> QED BY <1>1, <1>2

LEMMA MiddlewareGrants ==
    ASSUME NEW perms, Consistent(perms), NEW p \in FormPairs, p[1] # "users"
    PROVE  ServerGrants(AsRole(perms), p[1], p[2])
             <=> \E q \in HeldPairs(perms, p) : ServerValueAllowed(perms[q])
<1>1. ~AsRole(perms).owner /\ AsRole(perms).perms = perms
  BY  DEF AsRole
<1>2. ~ServerValueAllowed("absent")
  BY SMT DEF ServerValueAllowed
<1>3. ASSUME NEW k \in ServerNames(p[2])
      PROVE  RoleAllowsPermission(AsRole(perms), p[1], k)
               <=> \E q \in HeldPairs(perms, p) : ServerValueAllowed(perms[q])
  <2>1. ServerKeys(k) = {p[2]} \cup OtherNames(p[2])
    BY FormNamesAssumption, MiddlewareNames, Zenon
  <2>2. ServerSections(p[1]) = Range(SectionAlias(p[1]))
    BY FormNamesAssumption, SectionAliases, Zenon
  <2>3. ServerSections(p[1]) \X ServerKeys(k) = Names(p[1], p[2])
    BY <2>1, <2>2, Zenon DEF Names
  <2>4. RoleAllowsPermission(AsRole(perms), p[1], k)
          <=> \E q \in Names(p[1], p[2]) : q \in Pairs /\ ServerValueAllowed(perms[q])
    BY <1>1, <2>3, Zenon DEF RoleAllowsPermission
  <2> QED BY <1>2, <2>4, Zenon DEF HeldPairs
<1>4. ServerNames(p[2]) # {}
  BY SMT DEF ServerNames
<1> QED BY <1>3, <1>4, Zenon DEF ServerGrants

\* The clients' service looks up an action that some request asks for under
\* the same names as the front end.
LEMMA UsersNames ==
    ASSUME NEW u \in {"read", "create", "update", "delete", "reset_usage", "revoke_sub", "admin_filter"},
           NEW k \in ServerNames(u)
    PROVE  /\ DOMAIN UserKeys(k) \subseteq Nat
           /\ Range(InSection("users", UserKeys(k))) = Names("users", u)
           /\ DOMAIN InSection("users", UserKeys(k)) \subseteq Nat
           /\ k \in {"create", "adminFilter"} <=> u \in {"create", "admin_filter"}
<1>1. Range(SectionAlias("users")) = {"users"}
  <2>1. SectionAlias("users") = <<"users">>
    BY SMT DEF SectionAlias
  <2> QED BY <2>1, TwoInRange, Zenon
<1>2. CASE u \in {"create", "update", "delete"}
  <2>1. ServersOf(u) = {} /\ OtherNames(u) = {}
    BY <1>2, SMT DEF ServersOf, OtherNames, FrontNames, TwoNames
  <2>2. k = u
    BY <2>1, SMT DEF ServerNames
  <2>3. ~\E n \in UserNames : n[1] = k
    BY <1>2, <2>2, SMT DEF UserNames, FrontNames, TwoNames
  <2>4. UserKeys(k) = <<u>>
    BY <2>2, <2>3, Zenon DEF UserKeys
  <2>5. Range(InSection("users", <<u>>)) = {<<"users", u>>} /\ DOMAIN InSection("users", <<u>>) = {1}
    BY SMT DEF InSection, Range
  <2>6. Names("users", u) = {<<"users", u>>}
    BY <1>1, <2>1, SMT DEF Names
  <2> QED BY <1>2, <2>2, <2>4, <2>5, <2>6, SMT
<1>3. CASE u \in {"read", "reset_usage", "revoke_sub", "admin_filter"}
  <2>1. ServersOf(u) = OtherNames(u) /\ ServersOf(u) # {}
    <3>1. \A m \in FrontNames : m[1] # u
      BY <1>3, SMT DEF FrontNames, TwoNames
    <3>2. \E m \in FrontNames : m[2] = u
      BY <1>3, SMT DEF FrontNames, TwoNames
    <3> QED BY <3>1, <3>2, SMT DEF ServersOf, OtherNames
  <2>2. k \in ServersOf(u) /\ OtherNames(u) = {k}
    BY <2>1, OneOther, SMT DEF ServerNames
  <2>3. <<k, u>> \in UserNames /\ \A n \in UserNames : n[1] = k => n[2] = u
    BY <1>3, <2>2, SMT DEF ServersOf, UserNames, FrontNames, TwoNames
  <2>4. UserKeys(k) = <<k, u>>
    <3>1. (CHOOSE n \in UserNames : n[1] = k)[2] = u
      BY <2>3, SMT
    <3>2. \E n \in UserNames : n[1] = k
      BY <2>3, SMT
    <3> QED BY <3>1, <3>2, Zenon DEF UserKeys
  <2>5. /\ Range(InSection("users", <<k, u>>)) = {<<"users", k>>, <<"users", u>>}
        /\ DOMAIN InSection("users", <<k, u>>) = {1, 2}
    BY SMT DEF InSection, Range
  <2>6. Names("users", u) = {<<"users", k>>, <<"users", u>>}
    BY <1>1, <2>2, SMT DEF Names
  <2>7. k \in {"create", "adminFilter"} <=> u \in {"create", "admin_filter"}
    BY <1>3, <2>2, SMT DEF ServersOf, FrontNames, TwoNames
  <2> QED BY <2>4, <2>5, <2>6, <2>7, SMT
<1> QED BY <1>2, <1>3

LEMMA ServiceGrants ==
    ASSUME NEW perms \in Permissions, Consistent(perms), NEW p \in RequestedPairs, p[1] = "users"
    PROVE  ServerGrants(AsRole(perms), p[1], p[2])
             <=> \E q \in HeldPairs(perms, p) : PermissionValueAllowed(perms[q])
<1>1. ~AsRole(perms).owner /\ AsRole(perms).perms = perms
  BY  DEF AsRole
<1>2. /\ p \in FormPairs /\ p = <<"users", p[2]>>
      /\ p[2] \in {"read", "create", "update", "delete", "reset_usage", "revoke_sub", "admin_filter"}
  BY FormPairsAssumption, SMT DEF RequestedPairs
<1>3. ASSUME NEW k \in ServerNames(p[2])
      PROVE  UserGranted(AsRole(perms), k)
               <=> \E q \in HeldPairs(perms, p) : PermissionValueAllowed(perms[q])
  <2> DEFINE order == InSection("users", UserKeys(k))
             v     == UserValue(perms, k)
             set   == HeldPairs(perms, p)
  <2>1. /\ Range(order) = Names(p[1], p[2]) /\ DOMAIN order \subseteq Nat
        /\ k \in {"create", "adminFilter"} <=> p[2] \in {"create", "admin_filter"}
    BY <1>2, <1>3, UsersNames, Zenon
  <2>2. set = {q \in Range(order) \cap Pairs : perms[q] # "absent"}
    BY <2>1, Zenon DEF HeldPairs
  <2>3. \A q, r \in set : perms[q] = perms[r]
    BY <1>2, Zenon DEF Consistent
  <2>4. (set = {} /\ v = "absent") \/ (set # {} /\ \A q \in set : v = perms[q])
    <3>1. v = FirstPresent(perms, order)
      BY Zenon DEF UserValue
    <3> HIDE DEF v, set, order
    <3> QED BY <2>1, <2>2, <2>3, <3>1, FirstSays, SMT
  <2>5. PermissionValueAllowed(v) <=> \E q \in set : PermissionValueAllowed(perms[q])
    <3>1. ~PermissionValueAllowed("absent")
      BY SMT DEF PermissionValueAllowed
    <3> HIDE DEF v, set
    <3> QED BY <2>4, <3>1, Zenon
  <2>6. UserGranted(AsRole(perms), k) <=> PermissionValueAllowed(v)
    <3>1. CASE k \in {"create", "adminFilter"}
      <4>1. p \in FormPairs \ ScopedPairs
        BY <1>2, <2>1, <3>1, FormPairsAssumption, SMT
      <4>2. v = "absent" \/ (v \notin Scoped \cup {"one"} /\ v # "two")
        <5>1. \A q \in set : perms[q] \notin Scoped \cup {"one"} /\ perms[q] # "two"
          BY <4>1, Zenon DEF Consistent, HeldPairs
        <5> HIDE DEF v, set
        <5> QED BY <2>4, <5>1, Zenon
      <4>3. UserGranted(AsRole(perms), k) <=> v \in {"true", "own", "all"}
        BY <1>1, <3>1, Zenon DEF UserGranted, UserBoolPermission
      <4> HIDE DEF v
      <4> QED BY <4>2, <4>3, SMT DEF PermissionValueAllowed, Scoped
    <3>2. CASE k \notin {"create", "adminFilter"}
      <4>1. UserGranted(AsRole(perms), k) <=> ClientAccessMode(AsRole(perms), k) # "none"
        BY <3>2, Zenon DEF UserGranted
      <4>2. ClientAccessMode(AsRole(perms), k) =
              IF v \in {"true", "scope1", "scope2", "own", "all", "two", "one"} THEN "own" ELSE "none"
        BY <1>1, Zenon DEF ClientAccessMode
      <4> HIDE DEF v
      <4> QED BY <4>1, <4>2, SMT DEF PermissionValueAllowed
    <3> QED BY <3>1, <3>2
  <2> QED BY <2>5, <2>6, Zenon
<1>4. ServerNames(p[2]) # {}
  BY SMT DEF ServerNames
<1> QED BY <1>3, <1>4, Zenon DEF ServerGrants

\* The front end and whoever evaluates the request on the server agree.
LEMMA Alike ==
    ASSUME NEW perms \in Permissions, Consistent(perms), NEW p \in RequestedPairs
    PROVE  HasPermission(AsRole(perms), p[1], p[2]) <=> ServerGrants(AsRole(perms), p[1], p[2])
<1>1. p \in FormPairs
  BY Zenon DEF RequestedPairs
<1>2. CASE p[1] = "users"
  BY <1>1, <1>2, FrontGrants, ServiceGrants, Zenon
<1>3. CASE p[1] # "users"
  <2>1. \A q \in HeldPairs(perms, p) : PermissionValueAllowed(perms[q]) <=> ServerValueAllowed(perms[q])
    BY SMT DEF HeldPairs, Consistent, PermissionValueAllowed, ServerValueAllowed
  <2> QED BY <1>1, <1>3, <2>1, FrontGrants, MiddlewareGrants, Zenon
<1> QED BY <1>2, <1>3

\* A form holds an action under the editor's name only.
LEMMA FormAlone ==
    ASSUME NEW perms, FormOK(perms), NEW p \in FormPairs
    PROVE  HeldPairs(perms, p) = IF perms[p] = "absent" THEN {} ELSE {p}
<1>1. \A q \in HeldPairs(perms, p) : q = p
  BY FormNamesAssumption, Zenon DEF FormOK, HeldPairs
<1>2. p \in Names(p[1], p[2]) \cap Pairs
  BY FormNamesAssumption, FormPairsAssumption, Zenon
<1> QED BY <1>1, <1>2, SMT DEF HeldPairs

LEMMA FormStored ==
    ASSUME NEW perms, FormOK(perms)
    PROVE  perms \in Permissions /\ Consistent(perms)
<1>1. perms \in Permissions
  BY SMT DEF FormOK, FormValues, Permissions, Values, Booleans, Scoped
<1>2. \A p \in Pairs : perms[p] \in FormValues
  BY SMT DEF FormOK
<1>3. \A p \in Pairs : perms[p] # "two" /\ perms[p] # "one"
  BY <1>2, SMT DEF FormValues, Booleans, Scoped
<1>4. \A p \in FormPairs : HeldPairs(perms, p) \subseteq {p}
  BY FormAlone, SMT
<1>5. \A p \in FormPairs \ ScopedPairs : perms[p] \notin Scoped \cup {"one"}
  BY <1>3, FormPairsAssumption, Zenon DEF FormOK, FormKinds
<1>6. \A p \in ScopedPairs : perms[p] # "true"
  BY Zenon DEF FormOK, FormKinds
<1>7. \A p \in FormPairs \ ScopedPairs : \A q \in HeldPairs(perms, p) : perms[q] \notin Scoped \cup {"one"}
  BY <1>4, <1>5, SMT
<1>8. \A p \in FormPairs : \A q, r \in HeldPairs(perms, p) : perms[q] = perms[r]
  BY <1>4, SMT
<1>9. \A p \in Pairs : perms[p] # "two"
  BY <1>3, Zenon
<1> QED BY <1>1, <1>6, <1>7, <1>8, <1>9, Zenon DEF Consistent

\* What a form grants, and what it shows of "all".
LEMMA FormReads ==
    ASSUME NEW perms, FormOK(perms), NEW p \in FormPairs
    PROVE  /\ HasScopeAll(AsRole(perms), p[1], p[2]) <=> perms[p] \in {"true", "scope2"}
           /\ p \in RequestedPairs =>
                (ServerGrants(AsRole(perms), p[1], p[2]) <=> perms[p] \in {"true", "scope1", "scope2"})
<1>1. ~AsRole(perms).owner /\ AsRole(perms).perms = perms
  BY  DEF AsRole
<1>2. p \in Pairs /\ perms[p] \in FormValues
  BY FormPairsAssumption, SMT DEF FormOK
<1>3. perms \in Permissions /\ Consistent(perms)
  BY FormStored
<1>4. Lookup(perms, p[1], p[2]) = perms[p]
  BY <1>3, FrontValue, FormAlone, SMT
<1>5. PermissionValueScopeAll(perms[p]) <=> perms[p] \in {"true", "scope2"}
  BY <1>2, SMT DEF PermissionValueScopeAll, FormValues, Booleans, Scoped
<1>6. PermissionValueAllowed(perms[p]) <=> perms[p] \in {"true", "scope1", "scope2"}
  BY <1>2, SMT DEF PermissionValueAllowed, FormValues, Booleans, Scoped
<1>7. HasPermission(AsRole(perms), p[1], p[2]) <=> PermissionValueAllowed(perms[p])
  BY <1>1, <1>4, Zenon DEF HasPermission
<1>8. HasScopeAll(AsRole(perms), p[1], p[2]) <=> PermissionValueScopeAll(perms[p])
  BY <1>1, <1>4, Zenon DEF HasScopeAll
<1> QED BY <1>3, <1>5, <1>6, <1>7, <1>8, Alike, Zenon
-----------------------------------------------------------------------------
(* The form.                                                               *)

Table(t) ==
    /\ t \in [RoleIds -> Permissions \cup {Missing}]
    /\ \A id \in RoleIds : t[id] # Missing => Consistent(t[id])

Dialogs == [open : BOOLEAN, id : RoleIds \cup {NewRole}, named : BOOLEAN, section : BOOLEAN,
            perms : [Pairs -> FormValues], changes : Nat]
Saves == [st : {"none", "sent", "copy", "ok", "copied"}, id : RoleIds \cup {NewRole}, named : BOOLEAN,
          payload : [Pairs -> FormValues], shown : BOOLEAN]

DialogInv ==
    /\ dialog \in Dialogs /\ FormOK(dialog.perms)
    /\ dialog.section /\ Restricted(dialog.id, dialog.named) => OwnAtMost(dialog.perms)

SavingInv ==
    /\ saving \in Saves /\ FormOK(saving.payload)
    /\ saving.shown /\ Restricted(saving.id, saving.named) => OwnAtMost(saving.payload)

\* What is stored, listed, edited and saved is consistent, and a built-in role
\* whose permissions were shown has no scope that the dialog does not offer.
RolesInv == Table(roles) /\ Table(list) /\ DialogInv /\ SavingInv

LEMMA EmptyForm ==
    FormOK(NoPermissions)
BY FormPairsAssumption, SMT DEF FormOK, FormValues, NoPermissions, FormKinds, Scoped

\* Only what the form knows comes into it, and goes out of it.
LEMMA SanitizeForm ==
    ASSUME NEW perms \in Permissions, Consistent(perms)
    PROVE  FormOK(SanitizeRolePermissions(perms))
<1> DEFINE new == SanitizeRolePermissions(perms)
<1>1. new \in [Pairs -> FormValues]
  BY SMT DEF SanitizeRolePermissions, NormalizePermissionValue, FormValues
<1>2. \A p \in Pairs : new[p] = IF p \in FormPairs THEN NormalizePermissionValue(perms[p]) ELSE "absent"
  BY Zenon DEF SanitizeRolePermissions
<1> HIDE DEF new
<1>3. FormKinds(new)
  <2>1. \A p \in ScopedPairs : perms[p] # "true"
    BY Zenon DEF Consistent
  <2>2. \A p \in FormPairs \ ScopedPairs : perms[p] \notin Scoped
    <3>1. \A p \in FormPairs : p \in Names(p[1], p[2]) \cap Pairs
      BY FormNamesAssumption, FormPairsAssumption, Zenon
    <3>2. "absent" \notin Scoped
      BY SMT DEF Scoped
    <3> QED BY <3>1, <3>2, Zenon DEF Consistent, HeldPairs
  <2> QED BY FormPairsAssumption, <1>1, <1>2, <2>1, <2>2, SMT DEF FormKinds, NormalizePermissionValue, Scoped, Booleans
<1> QED BY <1>1, <1>2, <1>3, Zenon DEF FormOK, new

LEMMA SanitizeHolds ==
    ASSUME NEW perms, FormOK(perms), OwnAtMost(perms)
    PROVE  OwnAtMost(SanitizeRolePermissions(perms))
BY FormPairsAssumption, SMT DEF OwnAtMost, SanitizeRolePermissions, NormalizePermissionValue

LEMMA ClampForm ==
    ASSUME NEW perms, FormOK(perms)
    PROVE  FormOK(ClampScopes(perms)) /\ OwnAtMost(ClampScopes(perms))
<1> DEFINE new == ClampScopes(perms)
<1>1. /\ new \in [Pairs -> FormValues]
      /\ \A p \in Pairs : new[p] = IF p \in ScopedPairs /\ perms[p] = "scope2" THEN "scope1" ELSE perms[p]
  BY SMT DEF ClampScopes, FormOK, FormValues, Scoped
<1> HIDE DEF new
<1>2. FormOK(new) /\ OwnAtMost(new)
  BY FormPairsAssumption, <1>1, SMT DEF FormOK, OwnAtMost, FormKinds, Scoped
<1> QED BY <1>2, Zenon DEF new

LEMMA SetForm ==
    ASSUME NEW perms, FormOK(perms), NEW restrict \in BOOLEAN, NEW p \in FormPairs,
           NEW v \in IF p \in ScopedPairs THEN Scoped ELSE Booleans
    PROVE  /\ FormOK(SetPermission(perms, restrict, p, v))
           /\ restrict /\ OwnAtMost(perms) => OwnAtMost(SetPermission(perms, restrict, p, v))
<1> DEFINE new == SetPermission(perms, restrict, p, v)
           w   == IF restrict /\ v = "scope2" THEN "scope1" ELSE v
<1>1. /\ w \in IF p \in ScopedPairs THEN Scoped ELSE Booleans
      /\ restrict => w # "scope2"
  BY SMT DEF Scoped, Booleans
<1>2. new = [perms EXCEPT ![p] = w]
  BY Zenon DEF SetPermission
<1> HIDE DEF w
<1>3. /\ new \in [Pairs -> FormValues] /\ \A q \in Pairs : new[q] = IF q = p THEN w ELSE perms[q]
  BY FormPairsAssumption, <1>1, <1>2, SMT DEF FormOK, FormValues
<1> HIDE DEF new
<1>4. FormOK(new) /\ (restrict /\ OwnAtMost(perms) => OwnAtMost(new))
  BY FormPairsAssumption, <1>1, <1>3, SMT DEF FormOK, OwnAtMost, FormKinds, Scoped, Booleans
<1> QED BY <1>4, Zenon DEF new

LEMMA GroupForm ==
    ASSUME NEW perms, FormOK(perms), NEW restrict \in BOOLEAN,
           NEW group \in SUBSET FormPairs, NEW mode
    PROVE  /\ FormOK(SetGroupAll(perms, restrict, group, mode))
           /\ restrict /\ OwnAtMost(perms) => OwnAtMost(SetGroupAll(perms, restrict, group, mode))
<1> DEFINE new == SetGroupAll(perms, restrict, group, mode)
<1>1. /\ DOMAIN new = Pairs /\ new = [q \in Pairs |-> new[q]]
      /\ \A q \in Pairs :
           /\ q \notin group => new[q] = perms[q]
           /\ q \in group /\ q \in ScopedPairs =>
                new[q] \in {"scope0", "scope1", "scope2"} /\ (restrict => new[q] # "scope2")
           /\ q \in group /\ q \notin ScopedPairs => new[q] \in {"true", "false"}
  BY SMT DEF SetGroupAll, FormOK
<1> HIDE DEF new
<1>2. new \in [Pairs -> FormValues]
  <2>1. \A q \in Pairs : new[q] \in FormValues
    BY <1>1, SMT DEF FormOK, FormValues, Scoped, Booleans
  <2> QED BY <1>1, <2>1, Zenon
<1>3. FormKinds(new)
  BY FormPairsAssumption, <1>1, SMT DEF FormOK, FormKinds, Scoped
<1>4. \A q \in Pairs \ FormPairs : new[q] = "absent"
  BY <1>1, SMT DEF FormOK
<1>5. restrict /\ OwnAtMost(perms) => OwnAtMost(new)
  BY FormPairsAssumption, <1>1, SMT DEF OwnAtMost
<1> QED BY <1>2, <1>3, <1>4, <1>5, Zenon DEF new, FormOK

-----------------------------------------------------------------------------
(* The page and the table.                                                 *)

LEMMA RestrictedBool == \A id : \A named \in BOOLEAN : Restricted(id, named) \in BOOLEAN
BY SMT DEF Restricted

\* What the dialog's fields are after an edit of some of them.
LEMMA FlaggedDialog ==
    ASSUME NEW dlg \in Dialogs, NEW flag \in BOOLEAN
    PROVE  /\ LET d == [dlg EXCEPT !.open = flag]
              IN  d \in Dialogs /\ d.perms = dlg.perms /\ d.section = dlg.section
           /\ LET d == [dlg EXCEPT !.section = flag]
              IN  d \in Dialogs /\ d.id = dlg.id /\ d.named = dlg.named /\ d.perms = dlg.perms /\ d.section = flag
           /\ LET d == [dlg EXCEPT !.named = flag]
              IN  d \in Dialogs /\ d.id = dlg.id /\ d.named = flag /\ d.perms = dlg.perms /\ d.section = dlg.section
<1>1. LET d == [dlg EXCEPT !.open = flag]
      IN  d \in Dialogs /\ d.perms = dlg.perms /\ d.section = dlg.section
  BY SMT DEF Dialogs
<1>2. LET d == [dlg EXCEPT !.section = flag]
      IN  d \in Dialogs /\ d.id = dlg.id /\ d.named = dlg.named /\ d.perms = dlg.perms /\ d.section = flag
  BY SMT DEF Dialogs
<1>3. LET d == [dlg EXCEPT !.named = flag]
      IN  d \in Dialogs /\ d.id = dlg.id /\ d.named = flag /\ d.perms = dlg.perms /\ d.section = dlg.section
  BY SMT DEF Dialogs
<1> QED BY <1>1, <1>2, <1>3, Zenon

Opened(d, perms) == d \in Dialogs /\ d.perms = perms /\ ~d.section

LEMMA OpenedDialog ==
    ASSUME NEW perms \in [Pairs -> FormValues], NEW id \in RoleIds, NEW named \in BOOLEAN,
           NoPermissions \in [Pairs -> FormValues]
    PROVE  Opened([Closed EXCEPT !.open = TRUE, !.id = id, !.named = named, !.perms = perms], perms)
<1> DEFINE c  == Closed
           d1 == [c EXCEPT !.open = TRUE]
           d2 == [d1 EXCEPT !.id = id]
           d3 == [d2 EXCEPT !.named = named]
           d  == [d3 EXCEPT !.perms = perms]
<1>1. c \in Dialogs /\ ~c.section
  BY SMT DEF Closed, Dialogs
<1> HIDE DEF c
<1>2. d1 \in Dialogs /\ ~d1.section
  <2>1. TRUE \in BOOLEAN
    OBVIOUS
  <2> QED BY <1>1, <2>1, FlaggedDialog, Zenon
<1> HIDE DEF d1
<1>3. d2 \in Dialogs /\ d2.id = id /\ ~d2.section
  BY <1>2, SMT DEF Dialogs
<1> HIDE DEF d2
<1>4. d3 \in Dialogs /\ d3.id = id /\ ~d3.section
  BY <1>3, SMT DEF Dialogs
<1> HIDE DEF d3
<1>5. d \in Dialogs /\ d.perms = perms /\ d.id = id /\ ~d.section
  BY <1>4, SMT DEF Dialogs
<1>6. d = [Closed EXCEPT !.open = TRUE, !.id = id, !.named = named, !.perms = perms]
  BY Zenon DEF d, d1, d2, d3, c
<1>7. Opened(d, perms)
  <2> HIDE DEF d
  <2> QED BY <1>5, Zenon DEF Opened
<1> HIDE DEF d
<1> QED BY <1>6, <1>7, Zenon

LEMMA UnfoldedDialog ==
    ASSUME NEW dlg \in Dialogs, NEW perms \in [Pairs -> FormValues]
    PROVE  LET d == [dlg EXCEPT !.section = TRUE, !.perms = perms]
           IN  d \in Dialogs /\ d.perms = perms /\ d.id = dlg.id /\ d.named = dlg.named
<1> DEFINE d1 == [dlg EXCEPT !.section = TRUE]
           d  == [d1 EXCEPT !.perms = perms]
<1>1. d1 \in Dialogs /\ d1.id = dlg.id /\ d1.named = dlg.named
  <2>1. TRUE \in BOOLEAN
    OBVIOUS
  <2> QED BY <2>1, FlaggedDialog, Zenon
<1> HIDE DEF d1
<1>2. d \in Dialogs /\ d.perms = perms /\ d.id = dlg.id /\ d.named = dlg.named
  BY <1>1, SMT DEF Dialogs
<1>3. d = [dlg EXCEPT !.section = TRUE, !.perms = perms]
  BY Zenon DEF d, d1
<1> QED BY <1>2, <1>3, Zenon

LEMMA ChangedDialog ==
    ASSUME NEW dlg \in Dialogs, NEW perms \in [Pairs -> FormValues]
    PROVE  LET d == [dlg EXCEPT !.changes = @ + 1, !.perms = perms]
           IN  d \in Dialogs /\ d.perms = perms /\ d.id = dlg.id /\ d.named = dlg.named /\ d.section = dlg.section
<1> DEFINE d1 == [dlg EXCEPT !.changes = @ + 1]
           d  == [d1 EXCEPT !.perms = perms]
<1>1. d1 \in Dialogs /\ d1.id = dlg.id /\ d1.named = dlg.named /\ d1.section = dlg.section
  BY SMT DEF Dialogs
<1> HIDE DEF d1
<1>2. d \in Dialogs /\ d.perms = perms /\ d.id = dlg.id /\ d.named = dlg.named /\ d.section = dlg.section
  BY <1>1, SMT DEF Dialogs
<1>3. d = [dlg EXCEPT !.changes = @ + 1, !.perms = perms]
  BY Zenon DEF d, d1
<1> QED BY <1>2, <1>3, Zenon

LEMMA RenamedDialog ==
    ASSUME NEW dlg \in Dialogs, NEW perms \in [Pairs -> FormValues]
    PROVE  LET d == [dlg EXCEPT !.named = ~@, !.perms = perms]
           IN  /\ d \in Dialogs /\ d.perms = perms /\ d.id = dlg.id
               /\ d.named = ~dlg.named /\ d.section = dlg.section
<1> DEFINE flag == ~dlg.named
           d1 == [dlg EXCEPT !.named = flag]
           d  == [d1 EXCEPT !.perms = perms]
<1>1. flag \in BOOLEAN
  OBVIOUS
<1>2. d1 \in Dialogs /\ d1.id = dlg.id /\ d1.named = flag /\ d1.section = dlg.section
  <2> HIDE DEF flag
  <2> QED BY <1>1, SMT DEF Dialogs
<1> HIDE DEF d1
<1>3. d \in Dialogs /\ d.perms = perms /\ d.id = dlg.id /\ d.named = d1.named /\ d.section = dlg.section
  BY <1>2, SMT DEF Dialogs
<1>4. d = [dlg EXCEPT !.named = ~@, !.perms = perms]
  BY Zenon DEF d, d1, flag
<1> QED BY <1>2, <1>3, <1>4, Zenon

\* The form of a role that the list shows.
LEMMA OpenedForm ==
    ASSUME Table(list), NEW id \in RoleIds, list[id] # Missing
    PROVE  FormOK(AdminRoleFormFromResponse(AsRole(list[id])))
<1>1. list[id] \in Permissions /\ Consistent(list[id])
  BY SMT DEF Table
<1>2. AdminRoleFormFromResponse(AsRole(list[id])) = SanitizeRolePermissions(list[id])
  BY  DEF AdminRoleFormFromResponse, AsRole
<1> QED BY <1>1, <1>2, SanitizeForm, Zenon

LEMMA PayloadForm ==
    ASSUME NEW perms, FormOK(perms)
    PROVE  /\ FormOK(AdminRoleFormToPayload(perms))
           /\ OwnAtMost(perms) => OwnAtMost(AdminRoleFormToPayload(perms))
BY FormStored, SanitizeForm, SanitizeHolds, Zenon DEF AdminRoleFormToPayload

LEMMA ClosedDialog ==
    Closed \in Dialogs /\ FormOK(Closed.perms) /\ ~Closed.section
<1>1. FormOK(NoPermissions) /\ NoPermissions \in [Pairs -> FormValues]
  BY EmptyForm, Zenon DEF FormOK
<1> QED BY <1>1, SMT DEF Closed, Dialogs

\* A dialog that is opened, changed or closed.
LEMMA DialogSteps ==
    ASSUME RolesInv,
           \/ \E id \in RoleIds : HandleEdit(id)
           \/ OpenCreate \/ OpenSection \/ FoldSection \/ ChangeName \/ ChangePermission \/ CloseDialog
    PROVE  DialogInv'
<1> USE DEF DialogInv
<1>1. DialogInv /\ Table(list)
  BY Zenon DEF RolesInv
<1>2. FormOK(NoPermissions) /\ NoPermissions \in [Pairs -> FormValues]
  BY <1>1, EmptyForm, Zenon DEF FormOK
<1>3. Closed \in Dialogs /\ FormOK(Closed.perms) /\ ~Closed.section
  BY <1>2, SMT DEF Closed, Dialogs
<1>4. ASSUME NEW id \in RoleIds, HandleEdit(id)
      PROVE  DialogInv'
  <2> DEFINE perms == AdminRoleFormFromResponse(AsRole(list[id]))
  <2>1. FormOK(perms) /\ perms \in [Pairs -> FormValues]
    BY <1>1, <1>4, OpenedForm, Zenon DEF HandleEdit, FormOK
  <2>2. PICK named \in BOOLEAN :
          dialog' = [Closed EXCEPT !.open = TRUE, !.id = id, !.named = named, !.perms = perms]
    <3>1. \A flag : flag \in (IF id \in BuiltIn THEN {FALSE} ELSE BOOLEAN) => flag \in BOOLEAN
      BY Zenon
    <3> QED BY <1>4, <3>1, Zenon DEF HandleEdit
  <2> HIDE DEF perms
  <2>3. dialog' \in Dialogs /\ dialog'.perms = perms /\ ~dialog'.section
    <3>1. Opened(dialog', perms)
      BY <1>2, <2>1, <2>2, OpenedDialog, Zenon
    <3> QED BY <3>1, Zenon DEF Opened
  <2> QED BY <2>1, <2>3, Zenon
<1>5. CASE OpenCreate
  <2>1. dialog' \in Dialogs /\ dialog'.perms = Closed.perms /\ ~dialog'.section
    <3> DEFINE c == Closed
    <3>1. c \in Dialogs /\ ~c.section /\ dialog' = [c EXCEPT !.open = TRUE]
      BY <1>3, <1>5, Zenon DEF OpenCreate
    <3> HIDE DEF c
    <3>2. dialog' \in Dialogs /\ dialog'.perms = c.perms /\ ~dialog'.section
      <4>1. TRUE \in BOOLEAN
        OBVIOUS
      <4> QED BY <3>1, <4>1, FlaggedDialog, Zenon
    <3> QED BY <3>2, Zenon DEF c
  <2> QED BY <1>3, <2>1, Zenon
<1>6. CASE CloseDialog
  BY <1>3, <1>6, Zenon DEF CloseDialog
<1>7. CASE OpenSection
  <2> DEFINE perms == IF Restricted(dialog.id, dialog.named) THEN ClampScopes(dialog.perms)
                      ELSE dialog.perms
  <2>1. FormOK(perms) /\ (Restricted(dialog.id, dialog.named) => OwnAtMost(perms))
    BY <1>1, ClampForm, Zenon
  <2>2. dialog' = [dialog EXCEPT !.section = TRUE, !.perms = perms]
    BY <1>7, Zenon DEF OpenSection
  <2> HIDE DEF perms
  <2>3. dialog' \in Dialogs /\ dialog'.perms = perms /\ dialog'.id = dialog.id /\ dialog'.named = dialog.named
    BY <1>1, <2>1, <2>2, UnfoldedDialog, Zenon DEF FormOK
  <2> QED BY <2>1, <2>3, Zenon DEF Restricted
<1>8. CASE ChangePermission
  <2> DEFINE restrict == Restricted(dialog.id, dialog.named)
  <2>4. restrict \in BOOLEAN
    BY <1>1, RestrictedBool, SMT DEF Dialogs
  <2>1. ASSUME NEW perms, FormOK(perms), restrict /\ OwnAtMost(dialog.perms) => OwnAtMost(perms),
               dialog' = [dialog EXCEPT !.changes = @ + 1, !.perms = perms]
        PROVE  DialogInv'
    <3>1. /\ dialog' \in Dialogs /\ dialog'.perms = perms /\ dialog'.id = dialog.id /\ dialog'.named = dialog.named
          /\ dialog'.section = dialog.section
      BY <1>1, <2>1, ChangedDialog, Zenon DEF FormOK
    <3> QED BY <1>1, <2>1, <3>1, Zenon DEF Restricted
  <2>2. ASSUME NEW p \in FormPairs, NEW v \in Choices(p, restrict),
               dialog' = [dialog EXCEPT !.changes = @ + 1, !.perms = SetPermission(@, restrict, p, v)]
        PROVE  DialogInv'
    <3> DEFINE perms == SetPermission(dialog.perms, restrict, p, v)
    <3>1. v \in IF p \in ScopedPairs THEN Scoped ELSE Booleans
      BY <2>2, SMT DEF Choices, Scoped
    <3>2. FormOK(perms) /\ (restrict /\ OwnAtMost(dialog.perms) => OwnAtMost(perms))
      BY <1>1, <3>1, SetForm, <2>4, Zenon
    <3>3. dialog' = [dialog EXCEPT !.changes = @ + 1, !.perms = perms]
      BY <2>2, Zenon
    <3> HIDE DEF perms
    <3> QED BY <2>1, <3>2, <3>3, Zenon
  <2>3. ASSUME NEW group \in Groups, NEW mode \in {"all", "none"},
               dialog' = [dialog EXCEPT !.changes = @ + 1, !.perms = SetGroupAll(@, restrict, group, mode)]
        PROVE  DialogInv'
    <3> DEFINE perms == SetGroupAll(dialog.perms, restrict, group, mode)
    <3>1. group \in SUBSET FormPairs
      BY <2>3, Zenon DEF Groups
    <3>2. FormOK(perms) /\ (restrict /\ OwnAtMost(dialog.perms) => OwnAtMost(perms))
      BY <1>1, <3>1, GroupForm, <2>4, Zenon
    <3>3. dialog' = [dialog EXCEPT !.changes = @ + 1, !.perms = perms]
      BY <2>3, Zenon
    <3> HIDE DEF perms
    <3> QED BY <2>1, <3>2, <3>3, Zenon
  <2> QED BY <1>8, <2>2, <2>3, Zenon DEF ChangePermission
<1>9. CASE FoldSection
  <2>1. dialog' = [dialog EXCEPT !.section = FALSE] /\ FALSE \in BOOLEAN
    BY <1>9, Zenon DEF FoldSection
  <2>2. dialog' \in Dialogs /\ dialog'.perms = dialog.perms /\ ~dialog'.section
    BY <1>1, <2>1, FlaggedDialog, Zenon
  <2> QED BY <1>1, <2>2, Zenon
<1>10. CASE ChangeName
  <2> DEFINE restrict == dialog.section /\ Restricted(dialog.id, ~dialog.named)
             perms == IF restrict THEN ClampScopes(dialog.perms) ELSE dialog.perms
  <2>1. FormOK(perms) /\ (restrict => OwnAtMost(perms))
    BY <1>1, ClampForm, Zenon
  <2>2. dialog' = [dialog EXCEPT !.named = ~@, !.perms = perms]
    BY <1>10, Zenon DEF ChangeName
  <2> HIDE DEF perms
  <2>3. /\ dialog' \in Dialogs /\ dialog'.perms = perms /\ dialog'.id = dialog.id
        /\ dialog'.named = ~dialog.named /\ dialog'.section = dialog.section
    BY <1>1, <2>1, <2>2, RenamedDialog, Zenon DEF FormOK
  <2> QED BY <2>1, <2>3, Zenon DEF Restricted
<1> QED BY <1>4, <1>5, <1>6, <1>7, <1>8, <1>9, <1>10

\* A save that is sent, carried out, refused or answered.
LEMMA SavingSteps ==
    ASSUME RolesInv,
           \/ Submit \/ (\E id \in RoleIds : HandleDuplicate(id))
           \/ ServerSaves \/ ServerRefuses \/ SubmitReturns
    PROVE  SavingInv'
<1> USE DEF SavingInv
<1>1. DialogInv /\ SavingInv /\ Table(list)
  BY Zenon DEF RolesInv
<1>2. FormOK(NoPermissions) /\ NoPermissions \in [Pairs -> FormValues]
  BY <1>1, EmptyForm, Zenon DEF FormOK
<1>3. NoSave \in Saves /\ FormOK(NoSave.payload) /\ ~NoSave.shown
  BY <1>2, SMT DEF NoSave, Saves
<1>4. CASE Submit
  <2> DEFINE payload == AdminRoleFormToPayload(dialog.perms)
  <2>1. FormOK(payload) /\ (OwnAtMost(dialog.perms) => OwnAtMost(payload))
    BY <1>1, PayloadForm, Zenon DEF DialogInv
  <2>2. saving' = [st |-> "sent", id |-> dialog.id, named |-> dialog.named, shown |-> dialog.section,
                   payload |-> payload]
    BY <1>4, Zenon DEF Submit
  <2> HIDE DEF payload
  <2>3. /\ saving' \in Saves /\ saving'.payload = payload /\ saving'.id = dialog.id
        /\ saving'.shown = dialog.section /\ saving'.named = dialog.named
    BY <1>1, <2>1, <2>2, SMT DEF Saves, Dialogs, DialogInv, FormOK
  <2> QED BY <1>1, <2>1, <2>3, Zenon DEF DialogInv, Restricted
<1>5. ASSUME NEW id \in RoleIds, HandleDuplicate(id)
      PROVE  SavingInv'
  <2> DEFINE payload == AdminRoleFormToPayload(AdminRoleFormFromResponse(AsRole(list[id])))
  <2>1. FormOK(payload)
    BY <1>1, <1>5, OpenedForm, PayloadForm, Zenon DEF HandleDuplicate
  <2>2. saving' = [st |-> "copy", id |-> NewRole, named |-> FALSE, shown |-> FALSE, payload |-> payload]
    BY <1>5, Zenon DEF HandleDuplicate
  <2> HIDE DEF payload
  <2>3. saving' \in Saves /\ saving'.payload = payload /\ ~saving'.shown
    BY <2>1, <2>2, SMT DEF Saves, FormOK
  <2> QED BY <2>1, <2>3, Zenon
<1>6. CASE ServerSaves
  <2>1. PICK st \in {"ok", "copied"} : saving' = [saving EXCEPT !.st = st]
    BY <1>6, Zenon DEF ServerSaves
  <2>2. /\ saving' \in Saves /\ saving'.payload = saving.payload /\ saving'.id = saving.id
        /\ saving'.shown = saving.shown /\ saving'.named = saving.named
    BY <1>1, <2>1, SMT DEF Saves
  <2> QED BY <1>1, <2>2, Zenon DEF Restricted
<1>7. CASE ServerRefuses \/ SubmitReturns
  BY <1>3, <1>7, Zenon DEF ServerRefuses, SubmitReturns
<1> QED BY <1>4, <1>5, <1>6, <1>7

\* What a save stores is its payload, or the operator's permissions.
LEMMA SavedTable ==
    ASSUME RolesInv, ServerSaves
    PROVE  \E id \in RoleIds, perms \in {saving.payload, OperatorPermissions} :
             /\ roles' = [roles EXCEPT ![id] = perms]
             /\ saving.id # NewRole => id = saving.id
             /\ saving.id # NewRole \/ saving.payload # NoPermissions => perms = saving.payload
<1>1. saving.id \in RoleIds \cup {NewRole}
  BY SMT DEF RolesInv, SavingInv, Saves
<1> QED BY <1>1, Zenon DEF ServerSaves, StoredByUpdate, StoredByCreate

LEMMA TableStep ==
    ASSUME NEW t, Table(t), NEW u, NEW id \in RoleIds,
           NEW perms \in Permissions, Consistent(perms),
           u = [t EXCEPT ![id] = perms]
    PROVE  Table(u)
<1>1. u \in [RoleIds -> Permissions \cup {Missing}]
  BY SMT DEF Table
<1>2. \A k \in RoleIds : u[k] = IF k = id THEN perms ELSE t[k]
  BY SMT DEF Table
<1> QED BY <1>1, <1>2, Zenon DEF Table

LEMMA TableSteps ==
    ASSUME RolesInv,
           ServerSaves \/ HandleBulkDelete \/ \E id \in RoleIds : OtherOwner(id)
    PROVE  Table(roles)'
<1>1. Table(roles)
  BY Zenon DEF RolesInv
<1>2. /\ OperatorPermissions \in Permissions /\ Consistent(OperatorPermissions)
      /\ \A perms \in OtherSaves : perms \in Permissions /\ Consistent(perms)
  BY RolesAssumption, StoredAssumption, Zenon
<1>3. CASE ServerSaves
  <2>1. saving.payload \in Permissions /\ Consistent(saving.payload)
    BY FormStored, Zenon DEF RolesInv, SavingInv
  <2>2. PICK id \in RoleIds, perms \in {saving.payload, OperatorPermissions} :
          roles' = [roles EXCEPT ![id] = perms]
    BY <1>3, SavedTable, Zenon
  <2>3. perms \in Permissions /\ Consistent(perms)
    BY <1>2, <2>1, <2>2, Zenon
  <2>4. Table(roles')
    BY <1>1, <2>2, <2>3, TableStep, Zenon
  <2> QED BY <2>4, Zenon DEF Table
<1>4. CASE HandleBulkDelete
  <2>1. PICK done : roles' = [id \in RoleIds |-> IF id \in done THEN Missing ELSE roles[id]]
    BY <1>4, Zenon DEF HandleBulkDelete
  <2> QED BY <1>1, <2>1, SMT DEF Table
<1>5. ASSUME NEW id \in RoleIds, OtherOwner(id)
      PROVE  Table(roles)'
  <2>1. ASSUME NEW perms \in OtherSaves, roles' = [roles EXCEPT ![id] = perms]
        PROVE  Table(roles')
    BY <1>1, <1>2, <2>1, TableStep, Zenon
  <2>2. ASSUME roles' = [roles EXCEPT ![id] = Missing]
        PROVE  Table(roles')
    BY <1>1, <2>2, SMT DEF Table
  <2>3. Table(roles')
    BY <1>5, <2>1, <2>2, Zenon DEF OtherOwner
  <2> QED BY <2>3, Zenon DEF Table
<1> QED BY <1>3, <1>4, <1>5

LEMMA InitRoles == ASSUME RolesInit PROVE RolesInv
<1>1. FormOK(NoPermissions) /\ NoPermissions \in [Pairs -> FormValues]
  BY EmptyForm, Zenon DEF FormOK
<1>2. Table(roles)
  BY RolesAssumption, StoredAssumption, SMT DEF Table, RolesInit
<1>3. Table(list)
  BY <1>2, Zenon DEF RolesInit
<1>4. Closed \in Dialogs /\ Closed.perms = NoPermissions /\ ~Closed.section
  BY <1>1, SMT DEF Closed, Dialogs
<1>5. NoSave \in Saves /\ NoSave.payload = NoPermissions /\ ~NoSave.shown
  BY <1>1, SMT DEF NoSave, Saves
<1> QED BY <1>1, <1>2, <1>3, <1>4, <1>5, Zenon DEF RolesInit, RolesInv, DialogInv, SavingInv

LEMMA StepRoles ==
    ASSUME RolesInv, [RolesNext]_(rolesVars)
    PROVE  RolesInv'
<1>1. Table(roles) /\ Table(list) /\ DialogInv /\ SavingInv
  BY Zenon DEF RolesInv
<1>2. ASSUME UNCHANGED <<roles, list, dialog, saving>>
      PROVE  RolesInv'
  BY <1>1, <1>2, Zenon DEF RolesInv, Table, DialogInv, SavingInv
<1>3. CASE Refetch
  BY <1>1, <1>3, Zenon DEF Refetch, RolesInv, Table, DialogInv, SavingInv
<1>4. CASE \/ \E id \in RoleIds : HandleEdit(id)
           \/ OpenCreate \/ OpenSection \/ FoldSection \/ ChangeName \/ ChangePermission \/ CloseDialog
  <2>1. DialogInv'
    BY <1>4, DialogSteps, Zenon
  <2>2. UNCHANGED <<roles, list, saving>>
    BY <1>4, Zenon DEF HandleEdit, OpenCreate, OpenSection, FoldSection, ChangeName, ChangePermission, CloseDialog
  <2> QED BY <1>1, <2>1, <2>2, Zenon DEF RolesInv, Table, SavingInv
<1>5. CASE Submit \/ (\E id \in RoleIds : HandleDuplicate(id)) \/ ServerRefuses
  <2>1. SavingInv'
    BY <1>5, SavingSteps, Zenon
  <2>2. UNCHANGED <<roles, list, dialog>>
    BY <1>5, Zenon DEF Submit, HandleDuplicate, ServerRefuses
  <2> QED BY <1>1, <2>1, <2>2, Zenon DEF RolesInv, Table, DialogInv
<1>6. CASE ServerSaves
  <2>1. SavingInv' /\ Table(roles)'
    BY <1>6, SavingSteps, TableSteps, Zenon
  <2>2. UNCHANGED <<list, dialog>>
    BY <1>6, Zenon DEF ServerSaves
  <2> QED BY <1>1, <2>1, <2>2, Zenon DEF RolesInv, Table, DialogInv
<1>7. CASE SubmitReturns
  <2>1. SavingInv'
    BY <1>7, SavingSteps, Zenon
  <2>2. /\ list' = roles /\ roles' = roles
        /\ dialog' = Closed \/ dialog' = dialog
    BY <1>7, Zenon DEF SubmitReturns
  <2>3. DialogInv'
    BY <1>1, <2>2, ClosedDialog, Zenon DEF DialogInv
  <2> QED BY <1>1, <2>1, <2>2, <2>3, Zenon DEF RolesInv, Table
<1>8. CASE HandleBulkDelete
  <2>1. Table(roles)'
    BY <1>8, TableSteps, Zenon
  <2>2. list' = roles' /\ UNCHANGED <<dialog, saving>>
    BY <1>8, Zenon DEF HandleBulkDelete
  <2> QED BY <1>1, <2>1, <2>2, Zenon DEF RolesInv, Table, DialogInv, SavingInv
<1>9. CASE \E id \in RoleIds : OtherOwner(id)
  <2>1. Table(roles)'
    BY <1>9, TableSteps, Zenon
  <2>2. UNCHANGED <<list, dialog, saving>>
    BY <1>9, Zenon DEF OtherOwner
  <2> QED BY <1>1, <2>1, <2>2, Zenon DEF RolesInv, Table, DialogInv, SavingInv
<1>10. CASE LoadCurrentAdmin \/ (\E r \in Paths : Navigate(r)) \/ GuardEffect
  BY <1>2, <1>10, Zenon DEF LoadCurrentAdmin, Navigate, GuardEffect
<1>11. CASE UNCHANGED rolesVars
  BY <1>2, <1>11, Zenon DEF rolesVars
<1> QED
  BY <1>3, <1>4, <1>5, <1>6, <1>7, <1>8, <1>9, <1>10, <1>11, Zenon DEF RolesNext

\* What the page or another owner stores is read alike by the front end and
\* the server.
THEOREM StoredReadAlike == RolesSpec => []GrantedAlike
<1>1. ASSUME RolesInv
      PROVE  GrantedAlike
  <2>1. ASSUME NEW id \in RoleIds, roles[id] # Missing
        PROVE  roles[id] \in Permissions /\ Consistent(roles[id])
    BY <1>1, <2>1, SMT DEF RolesInv, Table
  <2> QED BY <2>1, Alike, Zenon DEF GrantedAlike
<1> QED BY <1>1, InitRoles, StepRoles, PTL DEF RolesSpec

\* A role saved from the unfolded form has the rights the form showed.
LEMMA SavesShown ==
    ASSUME RolesInv, [RolesNext]_(rolesVars),
           saving.st = "sent", saving'.st = "ok", saving.shown,
           ~(saving.id = NewRole /\ saving.payload = NoPermissions),
           NEW id \in RoleIds, roles'[id] # roles[id] \/ id = saving.id, NEW p \in FormPairs
    PROVE  LET restrict == Restricted(saving.id, saving.named)
           IN  /\ p \in RequestedPairs =>
                    (ServerGrants(AsRole(roles'[id]), p[1], p[2])
                       <=> ShownGranted(restrict, p, saving.payload[p]))
               /\ p \in ScopedPairs =>
                    (HasScopeAll(AsRole(roles'[id]), p[1], p[2])
                       <=> ShownAll(restrict, saving.payload[p]))
<1> DEFINE restrict == Restricted(saving.id, saving.named)
<1>1. saving \in Saves /\ FormOK(saving.payload) /\ Table(roles)
  BY Zenon DEF RolesInv, SavingInv
<1>2. ServerSaves
  <2>1. saving' # saving /\ saving' # NoSave
    BY SMT DEF NoSave
  <2>2. \A r : ~HandleDuplicate(r) /\ ~Submit
    BY Zenon DEF HandleDuplicate, Submit
  <2> QED
    BY <2>1, <2>2, Zenon DEF RolesNext, rolesVars, Refetch, HandleEdit, OpenCreate, OpenSection, FoldSection, ChangeName, ChangePermission, CloseDialog, ServerRefuses, SubmitReturns, HandleBulkDelete, OtherOwner, LoadCurrentAdmin, Navigate, GuardEffect
<1>3. roles'[id] = saving.payload
  <2>1. PICK k \in RoleIds, perms \in {saving.payload, OperatorPermissions} :
             /\ roles' = [roles EXCEPT ![k] = perms]
             /\ saving.id # NewRole => k = saving.id
             /\ saving.id # NewRole \/ saving.payload # NoPermissions => perms = saving.payload
    BY <1>2, SavedTable, Zenon
  <2>2. perms = saving.payload
    BY <2>1, Zenon
  <2>4. NewRole \notin RoleIds
    BY RolesAssumption, Zenon
  <2>5. DOMAIN roles = RoleIds
    BY <1>1, SMT DEF Table
  <2>6. id = k
    BY <2>1, <2>4, <2>5, Zenon
  <2> QED BY <2>1, <2>2, <2>5, <2>6, Zenon
<1> DEFINE v == saving.payload[p]
<1>4. /\ v \in FormValues /\ p \in Pairs
      /\ p \in ScopedPairs => v # "true"
      /\ p \notin ScopedPairs => v \notin Scoped
  BY FormPairsAssumption, <1>1, SMT DEF FormOK, FormKinds
<1>5. restrict /\ p \in ScopedPairs => v # "scope2"
  BY <1>1, Zenon DEF RolesInv, SavingInv, OwnAtMost
<1>7. restrict \in BOOLEAN
  BY <1>1, RestrictedBool, SMT DEF Saves
<1> HIDE DEF v, restrict
<1>6. /\ ShownGranted(restrict, p, v) <=> v \in {"true", "scope1", "scope2"}
      /\ p \in ScopedPairs => (ShownAll(restrict, v) <=> v \in {"true", "scope2"})
  <2>1. CASE p \in ScopedPairs
    <3>1. v \in {"absent", "false", "scope0", "scope1", "scope2"}
      BY <1>4, <2>1, SMT DEF FormValues, Booleans, Scoped
    <3>2. ShownScope(v, restrict) =
            IF v = "scope1" THEN 1 ELSE IF v = "scope2" THEN 2 ELSE 0
      BY <1>5, <1>7, <2>1, <3>1, SMT DEF ShownScope
    <3> QED BY <2>1, <3>1, <3>2, SMT DEF ShownGranted, ShownAll
  <2>2. CASE p \notin ScopedPairs
    BY <1>4, <2>2, SMT DEF ShownGranted, Scoped
  <2> QED BY <2>1, <2>2
<1> QED BY <1>1, <1>3, <1>6, FormReads, Zenon DEF v, restrict

THEOREM SaveKeepsShownRights == RolesSpec => SavedAsShown
<1>2. RequestedPairs \subseteq FormPairs /\ ScopedPairs \subseteq FormPairs
  BY FormPairsAssumption, Zenon DEF RequestedPairs
<1>1. RolesInv /\ [RolesNext]_(rolesVars) => SavedAsShown!1
  BY <1>2, SavesShown, Zenon
<1> QED BY <1>1, InitRoles, StepRoles, PTL DEF RolesSpec, SavedAsShown
-----------------------------------------------------------------------------
(* The clients page.  The invariant follows a row from the click on it to    *)
(* the form, to the save and back to the table: what each of them knows the  *)
(* row by is its sub, until a write or the user replaces it.                *)

ClientOrNone == Clients \cup {NoClient}
IdOrNone == Ids \cup {NoClient}
Fetched == [st : {"none", "sent", "answered", "update", "written"}, for : {"edit", "toggle"},
            next : BOOLEAN, row : Clients, id : IdOrNone, full : ClientOrNone]
Forms == [open : BOOLEAN, mode : {"add", "edit"}, client : ClientOrNone, attached : SUBSET Inbounds,
          form : Clients, seed : IdOrNone, base : ClientOrNone, changed : SUBSET Fields]
SaveSteps == {"none", "update", "create", "attach", "detach", "links"}
Onsaves == [st : SaveSteps, at : {"sent", "ok", "no"},
            email : Emails \cup {NoClient}, payload : Clients, attach : SUBSET Inbounds,
            detach : SUBSET Inbounds, seed : IdOrNone, base : ClientOrNone, changed : SUBSET Fields,
            id : IdOrNone, alone : BOOLEAN, had : SUBSET Inbounds, made : {"edit", "new", "known"}]

\* The row i still has this sub, unless it is gone or a write replaced it.
Same(i, sub) == i \in used /\ (server[i] = NoClient \/ i \in replaced \/ server[i].sub = sub)

ServerOK ==
    /\ server \in [Ids -> ClientOrNone] /\ used \in SUBSET Ids
    /\ \A i \in Ids : server[i] # NoClient => i \in used
    /\ \A i, j \in Ids : (server[i] # NoClient /\ server[j] # NoClient /\ server[i].email = server[j].email)
                           => i = j

RowsOK == rows \in [Ids -> ClientOrNone] /\ \A i \in Ids : rows[i] # NoClient => Same(i, rows[i].sub)

\* The record a fetch has, or the row it was clicked on.
Given(f) == IF f.full = NoClient THEN f.row ELSE f.full

FetchOK ==
    /\ fetch \in [Slots -> Fetched]
    /\ \A s \in Slots :
         /\ fetch[s].st # "none" => fetch[s].id \in Ids /\ Same(fetch[s].id, Given(fetch[s]).sub)
         /\ fetch[s].st = "update" => fetch[s].full # NoClient

\* A form that was filled from a full record has every field of it that the
\* user has not changed, as far as the form shows it.
Kept(form, base, changed) ==
    base # NoClient => /\ "sub" \notin changed => form.sub = base.sub
                       /\ "email" \notin changed => form.email = base.email
                       /\ "data" \notin changed => form.data = Rounded(base.data)
                       /\ "enable" \notin changed => form.enable = base.enable
                       /\ "inbounds" \notin changed => form.inbounds = base.inbounds
                       /\ "key" \notin changed /\ "inbounds" \notin changed
                            /\ ~Misfit(base.key, base.inbounds) => form.key = base.key
                       /\ "flow" \notin changed /\ "inbounds" \notin changed
                            /\ base.inbounds \cap FlowCapable # {} => form.flow = base.flow

DialogOK ==
    /\ clientDialog \in Forms
    /\ clientDialog.open /\ clientDialog.mode = "edit" =>
         /\ clientDialog.client # NoClient /\ clientDialog.seed \in Ids
         /\ "sub" \notin clientDialog.changed => Same(clientDialog.seed, clientDialog.form.sub)
    /\ Kept(clientDialog.form, clientDialog.base, clientDialog.changed)
    /\ clientDialog.base # NoClient /\ "adTag" \notin clientDialog.changed =>
         clientDialog.form.adTag = clientDialog.base.adTag

SaveOK ==
    /\ save \in Onsaves
    /\ save.st = "update" => /\ save.seed \in Ids
                             /\ "sub" \notin save.changed => Same(save.seed, save.payload.sub)
    /\ Kept(save.payload, save.base, save.changed)
    /\ save.base # NoClient /\ "adTag" \notin save.changed /\ save.payload.inbounds \cap Mtproto # {} =>
         save.payload.adTag = save.base.adTag

\* The first request of the save r has been carried out.
FirstDone(r) == r.st \in {"attach", "detach", "links"} \/ r.at = "ok"

\* What of the form the save r has stored in the row c after each of its
\* requests.  Until it detaches, the row keeps the inbounds it had at first.
StoredSoFar(r, c) ==
    /\ c # NoClient
    /\ c.email = r.payload.email /\ c.adTag = r.payload.adTag
    /\ r.made = "edit" => c.enable = r.payload.enable
    /\ r.made = "new" => c.enable = TRUE
    /\ r.had # {} => c.sub = r.payload.sub /\ c.data = r.payload.data
    /\ r.had # {} /\ r.payload.key # "none" /\ ~Misfit(r.payload.key, r.had \cup r.attach) =>
         c.key = r.payload.key
    /\ r.had \cap FlowCapable # {} /\ c.inbounds \cap FlowCapable # {} => c.flow = r.payload.flow
    /\ r.st \in {"update", "create", "attach"} => r.had \subseteq c.inbounds
    /\ r.st \in {"detach", "links"} \/ (r.st = "attach" /\ r.at = "ok") => r.attach \subseteq c.inbounds
    /\ r.st = "links" \/ (r.st = "detach" /\ r.at = "ok") => r.detach \cap c.inbounds = {}
    /\ r.st = "links" /\ r.at = "ok" => c.links = r.payload.links
    /\ r.st = "create" => c.links = "none"

Stages(r, table) ==
    /\ r.attach \cap r.detach = {}
    /\ r.st = "create" => r.attach = {} /\ r.detach = {}
    /\ r.st = "none" => r.at = "sent"
    /\ r.st = "update" => r.made = "edit"
    /\ r.st \in {"update", "create"} /\ r.at = "sent" => r.id = NoClient
    /\ FirstDone(r) => r.id \in Ids
    /\ FirstDone(r) /\ r.alone /\ r.made # "known" => StoredSoFar(r, table[r.id])

StagesOK == Stages(save, server)

ClientsInv == ServerOK /\ RowsOK /\ FetchOK /\ DialogOK /\ SaveOK /\ StagesOK

-----------------------------------------------------------------------------
(* Records, one field at a time.                                           *)

\* A client with one field changed.
LEMMA ClientEmail ==
    ASSUME NEW c \in Clients, NEW v \in Emails
    PROVE  LET d == [c EXCEPT !.email = v]
           IN  /\ d \in Clients
               /\ d.email = v /\ d.sub = c.sub /\ d.data = c.data /\ d.enable = c.enable
               /\ d.key = c.key /\ d.flow = c.flow /\ d.adTag = c.adTag
               /\ d.links = c.links /\ d.inbounds = c.inbounds
BY SMT DEF Clients

LEMMA ClientSub ==
    ASSUME NEW c \in Clients, NEW v \in Subs
    PROVE  LET d == [c EXCEPT !.sub = v]
           IN  /\ d \in Clients
               /\ d.sub = v /\ d.email = c.email /\ d.data = c.data /\ d.enable = c.enable
               /\ d.key = c.key /\ d.flow = c.flow /\ d.adTag = c.adTag
               /\ d.links = c.links /\ d.inbounds = c.inbounds
BY SMT DEF Clients

LEMMA ClientData ==
    ASSUME NEW c \in Clients, NEW v \in Data
    PROVE  LET d == [c EXCEPT !.data = v]
           IN  /\ d \in Clients
               /\ d.data = v /\ d.email = c.email /\ d.sub = c.sub /\ d.enable = c.enable
               /\ d.key = c.key /\ d.flow = c.flow /\ d.adTag = c.adTag
               /\ d.links = c.links /\ d.inbounds = c.inbounds
BY SMT DEF Clients

LEMMA ClientEnable ==
    ASSUME NEW c \in Clients, NEW v \in BOOLEAN
    PROVE  LET d == [c EXCEPT !.enable = v]
           IN  /\ d \in Clients
               /\ d.enable = v /\ d.email = c.email /\ d.sub = c.sub /\ d.data = c.data
               /\ d.key = c.key /\ d.flow = c.flow /\ d.adTag = c.adTag
               /\ d.links = c.links /\ d.inbounds = c.inbounds
BY SMT DEF Clients

LEMMA ClientKey ==
    ASSUME NEW c \in Clients, NEW v \in Keys
    PROVE  LET d == [c EXCEPT !.key = v]
           IN  /\ d \in Clients
               /\ d.key = v /\ d.email = c.email /\ d.sub = c.sub /\ d.data = c.data
               /\ d.enable = c.enable /\ d.flow = c.flow /\ d.adTag = c.adTag
               /\ d.links = c.links /\ d.inbounds = c.inbounds
BY SMT DEF Clients

LEMMA ClientFlow ==
    ASSUME NEW c \in Clients, NEW v \in Flows
    PROVE  LET d == [c EXCEPT !.flow = v]
           IN  /\ d \in Clients
               /\ d.flow = v /\ d.email = c.email /\ d.sub = c.sub /\ d.data = c.data
               /\ d.enable = c.enable /\ d.key = c.key /\ d.adTag = c.adTag
               /\ d.links = c.links /\ d.inbounds = c.inbounds
BY SMT DEF Clients

LEMMA ClientAdTag ==
    ASSUME NEW c \in Clients, NEW v \in Tags
    PROVE  LET d == [c EXCEPT !.adTag = v]
           IN  /\ d \in Clients
               /\ d.adTag = v /\ d.email = c.email /\ d.sub = c.sub /\ d.data = c.data
               /\ d.enable = c.enable /\ d.key = c.key /\ d.flow = c.flow
               /\ d.links = c.links /\ d.inbounds = c.inbounds
BY SMT DEF Clients

LEMMA ClientLinks ==
    ASSUME NEW c \in Clients, NEW v \in Links
    PROVE  LET d == [c EXCEPT !.links = v]
           IN  /\ d \in Clients
               /\ d.links = v /\ d.email = c.email /\ d.sub = c.sub /\ d.data = c.data
               /\ d.enable = c.enable /\ d.key = c.key /\ d.flow = c.flow
               /\ d.adTag = c.adTag /\ d.inbounds = c.inbounds
BY SMT DEF Clients

LEMMA ClientInbounds ==
    ASSUME NEW c \in Clients, NEW v \in SUBSET Inbounds
    PROVE  LET d == [c EXCEPT !.inbounds = v]
           IN  /\ d \in Clients
               /\ d.inbounds = v /\ d.email = c.email /\ d.sub = c.sub /\ d.data = c.data
               /\ d.enable = c.enable /\ d.key = c.key /\ d.flow = c.flow
               /\ d.adTag = c.adTag /\ d.links = c.links
BY SMT DEF Clients

\* A fetch with one field changed.
LEMMA FetchSt ==
    ASSUME NEW f \in Fetched, NEW v \in {"none", "sent", "answered", "update", "written"}
    PROVE  LET d == [f EXCEPT !.st = v]
           IN  /\ d \in Fetched
               /\ d.st = v /\ d.for = f.for /\ d.next = f.next /\ d.row = f.row /\ d.id = f.id
               /\ d.full = f.full
BY SMT DEF Fetched

LEMMA FetchFor ==
    ASSUME NEW f \in Fetched, NEW v \in {"edit", "toggle"}
    PROVE  LET d == [f EXCEPT !.for = v]
           IN  /\ d \in Fetched
               /\ d.for = v /\ d.st = f.st /\ d.next = f.next /\ d.row = f.row /\ d.id = f.id
               /\ d.full = f.full
BY SMT DEF Fetched

LEMMA FetchNext ==
    ASSUME NEW f \in Fetched, NEW v \in BOOLEAN
    PROVE  LET d == [f EXCEPT !.next = v]
           IN  /\ d \in Fetched
               /\ d.next = v /\ d.st = f.st /\ d.for = f.for /\ d.row = f.row /\ d.id = f.id
               /\ d.full = f.full
BY SMT DEF Fetched

LEMMA FetchRow ==
    ASSUME NEW f \in Fetched, NEW v \in Clients
    PROVE  LET d == [f EXCEPT !.row = v]
           IN  /\ d \in Fetched
               /\ d.row = v /\ d.st = f.st /\ d.for = f.for /\ d.next = f.next /\ d.id = f.id
               /\ d.full = f.full
BY SMT DEF Fetched

LEMMA FetchId ==
    ASSUME NEW f \in Fetched, NEW v \in IdOrNone
    PROVE  LET d == [f EXCEPT !.id = v]
           IN  /\ d \in Fetched
               /\ d.id = v /\ d.st = f.st /\ d.for = f.for /\ d.next = f.next /\ d.row = f.row
               /\ d.full = f.full
BY SMT DEF Fetched

LEMMA FetchFull ==
    ASSUME NEW f \in Fetched, NEW v \in ClientOrNone
    PROVE  LET d == [f EXCEPT !.full = v]
           IN  /\ d \in Fetched
               /\ d.full = v /\ d.st = f.st /\ d.for = f.for /\ d.next = f.next /\ d.row = f.row
               /\ d.id = f.id
BY SMT DEF Fetched

\* A dialog with one field changed.
LEMMA FormOpen ==
    ASSUME NEW g \in Forms, NEW v \in BOOLEAN
    PROVE  LET d == [g EXCEPT !.open = v]
           IN  /\ d \in Forms
               /\ d.open = v /\ d.mode = g.mode /\ d.client = g.client /\ d.attached = g.attached
               /\ d.form = g.form /\ d.seed = g.seed /\ d.base = g.base /\ d.changed = g.changed
BY SMT DEF Forms

LEMMA FormMode ==
    ASSUME NEW g \in Forms, NEW v \in {"add", "edit"}
    PROVE  LET d == [g EXCEPT !.mode = v]
           IN  /\ d \in Forms
               /\ d.mode = v /\ d.open = g.open /\ d.client = g.client /\ d.attached = g.attached
               /\ d.form = g.form /\ d.seed = g.seed /\ d.base = g.base /\ d.changed = g.changed
BY SMT DEF Forms

LEMMA FormClient ==
    ASSUME NEW g \in Forms, NEW v \in ClientOrNone
    PROVE  LET d == [g EXCEPT !.client = v]
           IN  /\ d \in Forms
               /\ d.client = v /\ d.open = g.open /\ d.mode = g.mode /\ d.attached = g.attached
               /\ d.form = g.form /\ d.seed = g.seed /\ d.base = g.base /\ d.changed = g.changed
BY SMT DEF Forms

LEMMA FormAttached ==
    ASSUME NEW g \in Forms, NEW v \in SUBSET Inbounds
    PROVE  LET d == [g EXCEPT !.attached = v]
           IN  /\ d \in Forms
               /\ d.attached = v /\ d.open = g.open /\ d.mode = g.mode /\ d.client = g.client
               /\ d.form = g.form /\ d.seed = g.seed /\ d.base = g.base /\ d.changed = g.changed
BY SMT DEF Forms

LEMMA FormForm ==
    ASSUME NEW g \in Forms, NEW v \in Clients
    PROVE  LET d == [g EXCEPT !.form = v]
           IN  /\ d \in Forms
               /\ d.form = v /\ d.open = g.open /\ d.mode = g.mode /\ d.client = g.client
               /\ d.attached = g.attached /\ d.seed = g.seed /\ d.base = g.base
               /\ d.changed = g.changed
BY SMT DEF Forms

LEMMA FormSeed ==
    ASSUME NEW g \in Forms, NEW v \in IdOrNone
    PROVE  LET d == [g EXCEPT !.seed = v]
           IN  /\ d \in Forms
               /\ d.seed = v /\ d.open = g.open /\ d.mode = g.mode /\ d.client = g.client
               /\ d.attached = g.attached /\ d.form = g.form /\ d.base = g.base
               /\ d.changed = g.changed
BY SMT DEF Forms

LEMMA FormBase ==
    ASSUME NEW g \in Forms, NEW v \in ClientOrNone
    PROVE  LET d == [g EXCEPT !.base = v]
           IN  /\ d \in Forms
               /\ d.base = v /\ d.open = g.open /\ d.mode = g.mode /\ d.client = g.client
               /\ d.attached = g.attached /\ d.form = g.form /\ d.seed = g.seed
               /\ d.changed = g.changed
BY SMT DEF Forms

LEMMA FormChanged ==
    ASSUME NEW g \in Forms, NEW v \in SUBSET Fields
    PROVE  LET d == [g EXCEPT !.changed = v]
           IN  /\ d \in Forms
               /\ d.changed = v /\ d.open = g.open /\ d.mode = g.mode /\ d.client = g.client
               /\ d.attached = g.attached /\ d.form = g.form /\ d.seed = g.seed /\ d.base = g.base
BY SMT DEF Forms

\* A save with one field changed.
LEMMA SaveSt ==
    ASSUME NEW r \in Onsaves, NEW v \in SaveSteps
    PROVE  LET d == [r EXCEPT !.st = v]
           IN  /\ d \in Onsaves
               /\ d.st = v /\ d.at = r.at /\ d.email = r.email /\ d.payload = r.payload
               /\ d.attach = r.attach /\ d.detach = r.detach /\ d.seed = r.seed
               /\ d.base = r.base /\ d.changed = r.changed /\ d.id = r.id
               /\ d.alone = r.alone /\ d.had = r.had /\ d.made = r.made
BY SMT DEF Onsaves

LEMMA SaveAt ==
    ASSUME NEW r \in Onsaves, NEW v \in {"sent", "ok", "no"}
    PROVE  LET d == [r EXCEPT !.at = v]
           IN  /\ d \in Onsaves
               /\ d.at = v /\ d.st = r.st /\ d.email = r.email /\ d.payload = r.payload
               /\ d.attach = r.attach /\ d.detach = r.detach /\ d.seed = r.seed
               /\ d.base = r.base /\ d.changed = r.changed /\ d.id = r.id
               /\ d.alone = r.alone /\ d.had = r.had /\ d.made = r.made
BY SMT DEF Onsaves

LEMMA SaveId ==
    ASSUME NEW r \in Onsaves, NEW v \in IdOrNone
    PROVE  LET d == [r EXCEPT !.id = v]
           IN  /\ d \in Onsaves
               /\ d.id = v /\ d.st = r.st /\ d.at = r.at /\ d.email = r.email
               /\ d.payload = r.payload /\ d.attach = r.attach /\ d.detach = r.detach
               /\ d.seed = r.seed /\ d.base = r.base /\ d.changed = r.changed
               /\ d.alone = r.alone /\ d.had = r.had /\ d.made = r.made
BY SMT DEF Onsaves

LEMMA SaveAlone ==
    ASSUME NEW r \in Onsaves, NEW v \in BOOLEAN
    PROVE  LET d == [r EXCEPT !.alone = v]
           IN  /\ d \in Onsaves
               /\ d.alone = v /\ d.st = r.st /\ d.at = r.at /\ d.email = r.email
               /\ d.payload = r.payload /\ d.attach = r.attach /\ d.detach = r.detach
               /\ d.seed = r.seed /\ d.base = r.base /\ d.changed = r.changed
               /\ d.id = r.id /\ d.had = r.had /\ d.made = r.made
BY SMT DEF Onsaves

LEMMA SaveHad ==
    ASSUME NEW r \in Onsaves, NEW v \in SUBSET Inbounds
    PROVE  LET d == [r EXCEPT !.had = v]
           IN  /\ d \in Onsaves
               /\ d.had = v /\ d.st = r.st /\ d.at = r.at /\ d.email = r.email
               /\ d.payload = r.payload /\ d.attach = r.attach /\ d.detach = r.detach
               /\ d.seed = r.seed /\ d.base = r.base /\ d.changed = r.changed
               /\ d.id = r.id /\ d.alone = r.alone /\ d.made = r.made
BY SMT DEF Onsaves

LEMMA SaveMade ==
    ASSUME NEW r \in Onsaves, NEW v \in {"edit", "new", "known"}
    PROVE  LET d == [r EXCEPT !.made = v]
           IN  /\ d \in Onsaves
               /\ d.made = v /\ d.st = r.st /\ d.at = r.at /\ d.email = r.email
               /\ d.payload = r.payload /\ d.attach = r.attach /\ d.detach = r.detach
               /\ d.seed = r.seed /\ d.base = r.base /\ d.changed = r.changed
               /\ d.id = r.id /\ d.alone = r.alone /\ d.had = r.had
BY SMT DEF Onsaves

LEMMA Flags == TRUE \in BOOLEAN /\ FALSE \in BOOLEAN
OBVIOUS

LEMMA NotFlag == ASSUME NEW b \in BOOLEAN PROVE (~b) \in BOOLEAN
BY SMT

LEMMA Apart == NoClient \notin Clients /\ NoClient \notin Ids /\ NoClient \notin Emails
BY ClientsAssumption

LEMMA BlankTyped == Blank \in Clients
<1>1. PICK e \in Emails, u \in Subs : TRUE
  BY ClientsAssumption, Zenon
<1> DEFINE c == [email |-> e, sub |-> u, data |-> "even", enable |-> TRUE, key |-> "short", flow |-> "none",
                 adTag |-> "none", links |-> "none", inbounds |-> {}]
<1>2. /\ c \in Clients /\ c.data = "even" /\ c.key = "short" /\ c.flow = "none" /\ c.adTag = "none"
      /\ c.links = "none" /\ c.inbounds = {} /\ c.enable
  BY SMT DEF Clients, Data, Keys, Flows, Tags, Links
<1> HIDE DEF c
<1> QED BY <1>2, Zenon DEF Blank

\* The fields of a client, and what may replace them.
LEMMA RowFields ==
    ASSUME NEW c \in Clients
    PROVE  /\ c.email \in Emails /\ c.sub \in Subs /\ c.data \in Data /\ c.enable \in BOOLEAN
           /\ c.key \in Keys /\ c.flow \in Flows /\ c.adTag \in Tags /\ c.links \in Links
           /\ c.inbounds \in SUBSET Inbounds
BY SMT DEF Clients

LEMMA Nones == "none" \in Keys /\ "none" \in Flows /\ "none" \in Tags /\ "none" \in Links
BY DEF Keys, Flows, Tags, Links

\* A key that fits stays, and one that fits more inbounds fits fewer.
LEMMA KeyFits ==
    ASSUME NEW k \in Keys, NEW ids
    PROVE  Fitted(k, ids) \in Keys /\ (~Misfit(k, ids) => Fitted(k, ids) = k)
<1>1. "fresh" \in Keys
  BY DEF Keys
<1> QED BY <1>1, Zenon DEF Fitted

LEMMA FitsFewer ==
    ASSUME NEW k, NEW ids, NEW few \in SUBSET ids, ~Misfit(k, ids)
    PROVE  ~Misfit(k, few)
BY Zenon DEF Misfit

LEMMA KeySent ==
    ASSUME NEW c \in Clients, NEW p \in Clients
    PROVE  /\ KeyOf(c, p) \in Keys
           /\ p.key # "none" \/ p.key = c.key => KeyOf(c, p) = p.key
<1>1. c.key \in Keys /\ p.key \in Keys
  BY RowFields, Zenon
<1>2. CASE p.key = "none"
  BY <1>1, <1>2, Zenon DEF KeyOf
<1>3. CASE p.key # "none"
  BY <1>1, <1>3, Zenon DEF KeyOf
<1> QED BY <1>2, <1>3

LEMMA FlowKept ==
    ASSUME NEW f \in Flows, NEW ids
    PROVE  FlowIn(f, ids) \in Flows /\ (ids \cap FlowCapable # {} => FlowIn(f, ids) = f)
BY Nones, Zenon DEF FlowIn

LEMMA DataRounded == ASSUME NEW v \in Data PROVE Rounded(v) \in Data
BY DEF Data, Rounded

\* A client with its key and its flow replaced.
LEMMA KeyAndFlow ==
    ASSUME NEW c \in Clients, NEW k \in Keys, NEW f \in Flows
    PROVE  LET d == [c EXCEPT !.key = k, !.flow = f]
           IN  /\ d \in Clients /\ d.key = k /\ d.flow = f
               /\ d.email = c.email /\ d.sub = c.sub /\ d.data = c.data /\ d.enable = c.enable
               /\ d.adTag = c.adTag /\ d.links = c.links /\ d.inbounds = c.inbounds
<1> DEFINE d1 == [c EXCEPT !.key = k]
           d2 == [d1 EXCEPT !.flow = f]
<1>1. /\ d1 \in Clients /\ d1.key = k
      /\ d1.email = c.email /\ d1.sub = c.sub /\ d1.data = c.data /\ d1.enable = c.enable
      /\ d1.adTag = c.adTag /\ d1.links = c.links /\ d1.inbounds = c.inbounds
  BY ClientKey, Zenon
<1>2. [c EXCEPT !.key = k, !.flow = f] = d2
  BY Zenon
<1> HIDE DEF d1
<1>3. /\ d2 \in Clients /\ d2.flow = f /\ d2.key = d1.key
      /\ d2.email = d1.email /\ d2.sub = d1.sub /\ d2.data = d1.data /\ d2.enable = d1.enable
      /\ d2.adTag = d1.adTag /\ d2.links = d1.links /\ d2.inbounds = d1.inbounds
  BY <1>1, ClientFlow, Zenon
<1> HIDE DEF d2
<1> QED BY <1>1, <1>2, <1>3, Zenon

\* What Update writes.
LEMMA WrittenRow ==
    ASSUME NEW c \in Clients, NEW p \in Clients
    PROVE  LET d == Written(c, p)
           IN  /\ d \in Clients
               /\ d.email = p.email /\ d.enable = p.enable /\ d.adTag = p.adTag
               /\ d.links = c.links /\ d.inbounds = c.inbounds
               /\ c.inbounds = {} => d.sub = c.sub /\ d.data = c.data /\ d.key = c.key /\ d.flow = c.flow
               /\ c.inbounds # {} => /\ d.sub = p.sub /\ d.data = p.data
                                     /\ d.key = Fitted(KeyOf(c, p), c.inbounds)
                                     /\ d.flow = FlowIn(p.flow, c.inbounds)
<1> DEFINE k == Fitted(KeyOf(c, p), c.inbounds)
           f == FlowIn(p.flow, c.inbounds)
           d1 == [c EXCEPT !.email = p.email]
           d2 == [d1 EXCEPT !.enable = p.enable]
           d3 == [d2 EXCEPT !.adTag = p.adTag]
           d4 == [d3 EXCEPT !.sub = p.sub]
           d5 == [d4 EXCEPT !.data = p.data]
           d6 == [d5 EXCEPT !.key = k, !.flow = f]
<1>1. /\ p.email \in Emails /\ p.sub \in Subs /\ p.data \in Data /\ p.enable \in BOOLEAN
      /\ p.adTag \in Tags /\ p.flow \in Flows
  BY RowFields, Zenon
<1>2. Written(c, p) = IF c.inbounds = {} THEN d3 ELSE d6
  BY Zenon DEF Written
<1>3. k \in Keys /\ f \in Flows
  BY <1>1, KeySent, KeyFits, FlowKept, Zenon
<1> HIDE DEF k, f
<1>4. /\ d1 \in Clients /\ d1.email = p.email
      /\ d1.sub = c.sub /\ d1.data = c.data /\ d1.key = c.key /\ d1.flow = c.flow
      /\ d1.links = c.links /\ d1.inbounds = c.inbounds
  BY <1>1, ClientEmail, Zenon
<1> HIDE DEF d1
<1>5. /\ d2 \in Clients /\ d2.email = p.email /\ d2.enable = p.enable
      /\ d2.sub = c.sub /\ d2.data = c.data /\ d2.key = c.key /\ d2.flow = c.flow
      /\ d2.links = c.links /\ d2.inbounds = c.inbounds
  BY <1>1, <1>4, ClientEnable, Zenon
<1> HIDE DEF d2
<1>6. /\ d3 \in Clients /\ d3.email = p.email /\ d3.enable = p.enable /\ d3.adTag = p.adTag
      /\ d3.sub = c.sub /\ d3.data = c.data /\ d3.key = c.key /\ d3.flow = c.flow
      /\ d3.links = c.links /\ d3.inbounds = c.inbounds
  BY <1>1, <1>5, ClientAdTag, Zenon
<1> HIDE DEF d3
<1>7. /\ d4 \in Clients /\ d4.email = p.email /\ d4.enable = p.enable /\ d4.adTag = p.adTag
      /\ d4.sub = p.sub /\ d4.links = c.links /\ d4.inbounds = c.inbounds
  BY <1>1, <1>6, ClientSub, Zenon
<1> HIDE DEF d4
<1>8. /\ d5 \in Clients /\ d5.email = p.email /\ d5.enable = p.enable /\ d5.adTag = p.adTag
      /\ d5.sub = p.sub /\ d5.data = p.data /\ d5.links = c.links /\ d5.inbounds = c.inbounds
  BY <1>1, <1>7, ClientData, Zenon
<1> HIDE DEF d5
<1>9. /\ d6 \in Clients /\ d6.key = k /\ d6.flow = f
      /\ d6.email = d5.email /\ d6.sub = d5.sub /\ d6.data = d5.data /\ d6.enable = d5.enable
      /\ d6.adTag = d5.adTag /\ d6.links = d5.links /\ d6.inbounds = d5.inbounds
  BY <1>3, <1>8, KeyAndFlow, Zenon
<1> HIDE DEF d6
<1>10. CASE c.inbounds = {}
  <2>1. Written(c, p) = d3
    BY <1>2, <1>10, Zenon
  <2> QED BY <1>6, <1>10, <2>1, Zenon
<1>11. CASE c.inbounds # {}
  <2>1. Written(c, p) = d6
    BY <1>2, <1>11, Zenon
  <2> QED BY <1>8, <1>9, <1>11, <2>1, Zenon DEF k, f
<1> QED BY <1>10, <1>11

LEMMA PartlyRow ==
    ASSUME NEW c \in Clients, NEW p \in Clients, NEW d \in PartlyWritten(c, p)
    PROVE  d \in Clients /\ d.email = p.email
<1> DEFINE w == Written(c, p)
           g == [w EXCEPT !.adTag = c.adTag]
<1>1. w \in Clients /\ w.email = p.email /\ c.adTag \in Tags
  BY WrittenRow, RowFields, Zenon
<1>2. PICK k \in {KeyOf(c, p), w.key}, f \in {c.flow, w.flow} :
         d = [w EXCEPT !.adTag = c.adTag, !.key = k, !.flow = f]
  BY SMT DEF PartlyWritten
<1>3. k \in Keys /\ f \in Flows
  BY <1>1, KeySent, RowFields, Zenon
<1>4. d = [g EXCEPT !.key = k, !.flow = f]
  BY <1>2, Zenon
<1> HIDE DEF w
<1>5. g \in Clients /\ g.email = p.email
  BY <1>1, ClientAdTag, Zenon
<1> HIDE DEF g
<1> DEFINE h == [g EXCEPT !.key = k]
           e == [h EXCEPT !.flow = f]
<1>6. h \in Clients /\ h.email = g.email
  BY <1>3, <1>5, ClientKey, Zenon
<1>7. d = e
  BY <1>4, Zenon
<1> HIDE DEF h
<1>8. e \in Clients /\ e.email = h.email
  BY <1>3, <1>6, ClientFlow, Zenon
<1> HIDE DEF e
<1> QED BY <1>5, <1>6, <1>7, <1>8, Zenon

LEMMA SlimRow ==
    ASSUME NEW c \in Clients
    PROVE  Slim(c) \in Clients /\ Slim(c).sub = c.sub
<1> DEFINE d1 == [c EXCEPT !.key = "none", !.flow = "none"]
           d2 == [d1 EXCEPT !.adTag = "none"]
           d3 == [d2 EXCEPT !.links = "none"]
<1>1. d1 \in Clients /\ d1.sub = c.sub
  BY Nones, KeyAndFlow, Zenon
<1>2. Slim(c) = d3
  BY Zenon DEF Slim
<1> HIDE DEF d1
<1>3. d2 \in Clients /\ d2.sub = c.sub
  BY <1>1, Nones, ClientAdTag, Zenon
<1> HIDE DEF d2
<1>4. d3 \in Clients /\ d3.sub = c.sub
  BY <1>3, Nones, ClientLinks, Zenon
<1> HIDE DEF d3
<1> QED BY <1>2, <1>4, Zenon

\* The form that the dialog opens with.
LEMMA SeedRow ==
    ASSUME NEW c \in Clients, NEW form \in Rekeyed(Seed(c))
    PROVE  /\ form \in Clients
           /\ form.email = c.email /\ form.sub = c.sub /\ form.data = Rounded(c.data)
           /\ form.enable = c.enable /\ form.adTag = c.adTag /\ form.inbounds = c.inbounds
           /\ ~Misfit(c.key, c.inbounds) => form.key = c.key
           /\ c.inbounds \cap FlowCapable # {} => form.flow = c.flow
<1> DEFINE data == Rounded(c.data)
           flow == FlowIn(c.flow, c.inbounds)
           d1 == [c EXCEPT !.data = data]
           d2 == [d1 EXCEPT !.flow = flow]
           key == Fitted(d2.key, d2.inbounds)
           d3 == [d2 EXCEPT !.key = key]
<1>1. /\ data \in Data /\ flow \in Flows /\ c.key \in Keys
      /\ c.inbounds \cap FlowCapable # {} => flow = c.flow
  BY RowFields, DataRounded, FlowKept, Zenon
<1>2. Seed(c) = d2
  BY Zenon DEF Seed
<1>3. form = d2 \/ form = d3
  BY <1>2, Zenon DEF Rekeyed
<1> HIDE DEF data, flow
<1>4. /\ d1 \in Clients /\ d1.data = data
      /\ d1.email = c.email /\ d1.sub = c.sub /\ d1.enable = c.enable /\ d1.key = c.key
      /\ d1.adTag = c.adTag /\ d1.inbounds = c.inbounds
  BY <1>1, ClientData, Zenon
<1> HIDE DEF d1
<1>5. /\ d2 \in Clients /\ d2.data = data /\ d2.flow = flow
      /\ d2.email = c.email /\ d2.sub = c.sub /\ d2.enable = c.enable /\ d2.key = c.key
      /\ d2.adTag = c.adTag /\ d2.inbounds = c.inbounds
  BY <1>1, <1>4, ClientFlow, Zenon
<1> HIDE DEF d2
<1>6. key \in Keys /\ (~Misfit(c.key, c.inbounds) => key = c.key)
  <2>1. key = Fitted(c.key, c.inbounds)
    BY <1>5, Zenon
  <2> QED BY <1>1, <2>1, KeyFits, Zenon
<1> HIDE DEF key
<1>7. /\ d3 \in Clients /\ d3.key = key /\ d3.data = d2.data /\ d3.flow = d2.flow
      /\ d3.email = d2.email /\ d3.sub = d2.sub /\ d3.enable = d2.enable
      /\ d3.adTag = d2.adTag /\ d3.inbounds = d2.inbounds
  BY <1>5, <1>6, ClientKey, Zenon
<1> HIDE DEF d3
<1>8. CASE form = d2
  BY <1>1, <1>5, <1>8, Zenon DEF data
<1>9. CASE form = d3
  BY <1>1, <1>5, <1>6, <1>7, <1>9, Zenon DEF data
<1> QED BY <1>3, <1>8, <1>9

LEMMA NewFormRow ==
    ASSUME NEW form \in NewForms
    PROVE  form \in Clients
<1>1. PICK e \in UnusedEmails, s \in UnusedSubs : form = NewForm(e, s)
  BY SMT DEF NewForms
<1>2. e \in Emails /\ s \in Subs
  BY Zenon DEF UnusedEmails, UnusedSubs
<1> DEFINE d == [Blank EXCEPT !.email = e]
<1>3. d \in Clients
  BY <1>2, BlankTyped, ClientEmail, Zenon
<1>4. form = [d EXCEPT !.sub = s]
  BY <1>1, Zenon DEF NewForm
<1> HIDE DEF d
<1> QED BY <1>2, <1>3, <1>4, ClientSub, Zenon

LEMMA PayloadRow ==
    ASSUME NEW c \in Clients
    PROVE  LET d == Payload(c)
           IN  /\ d \in Clients
               /\ d.email = c.email /\ d.sub = c.sub /\ d.data = c.data /\ d.enable = c.enable
               /\ d.key = c.key /\ d.inbounds = c.inbounds
               /\ d.inbounds \cap FlowCapable # {} => d.flow = c.flow
               /\ d.inbounds \cap Mtproto # {} => d.adTag = c.adTag
<1> DEFINE flow == FlowIn(c.flow, c.inbounds)
           tag == IF c.inbounds \cap Mtproto = {} THEN "none" ELSE c.adTag
           d1 == [c EXCEPT !.flow = flow]
           d2 == [d1 EXCEPT !.adTag = tag]
<1>1. /\ flow \in Flows /\ (c.inbounds \cap FlowCapable # {} => flow = c.flow)
      /\ tag \in Tags /\ (c.inbounds \cap Mtproto # {} => tag = c.adTag)
  BY RowFields, Nones, FlowKept, Zenon
<1>2. Payload(c) = d2
  BY Zenon DEF Payload
<1> HIDE DEF flow, tag
<1>3. /\ d1 \in Clients /\ d1.flow = flow
      /\ d1.email = c.email /\ d1.sub = c.sub /\ d1.data = c.data /\ d1.enable = c.enable
      /\ d1.key = c.key /\ d1.inbounds = c.inbounds
  BY <1>1, ClientFlow, Zenon
<1> HIDE DEF d1
<1>4. /\ d2 \in Clients /\ d2.adTag = tag /\ d2.flow = flow
      /\ d2.email = c.email /\ d2.sub = c.sub /\ d2.data = c.data /\ d2.enable = c.enable
      /\ d2.key = c.key /\ d2.inbounds = c.inbounds
  BY <1>1, <1>3, ClientAdTag, Zenon
<1> HIDE DEF d2
<1> QED BY <1>1, <1>2, <1>4, Zenon

LEMMA ToggleRow ==
    ASSUME NEW f \in Fetched, f.full # NoClient
    PROVE  TogglePayload(f) \in Clients
<1> DEFINE d == [f.full EXCEPT !.enable = f.next]
<1>1. "none" \in Tags /\ f.next \in BOOLEAN /\ f.full \in Clients
  BY SMT DEF Tags, Fetched, ClientOrNone
<1>2. d \in Clients
  BY <1>1, ClientEnable, Zenon
<1>3. TogglePayload(f) = [d EXCEPT !.adTag = "none"]
  BY Zenon DEF TogglePayload
<1> HIDE DEF d
<1> QED BY <1>1, <1>2, <1>3, ClientAdTag, Zenon

\* The form after the user has chosen inbounds.
LEMMA ChosenForm ==
    ASSUME NEW form \in Clients, NEW ids \in SUBSET Inbounds
    PROVE  LET d == Choose(form, ids)
           IN  /\ d \in Clients
               /\ d.email = form.email /\ d.sub = form.sub /\ d.data = form.data
               /\ d.enable = form.enable /\ d.adTag = form.adTag
<1> DEFINE flow == FlowIn(form.flow, ids)
           key == IF form.inbounds \cap Long = {} THEN Fitted(form.key, ids) ELSE form.key
           d1 == [form EXCEPT !.inbounds = ids]
           d2 == [d1 EXCEPT !.flow = flow]
           d3 == [d2 EXCEPT !.key = key]
<1>1. flow \in Flows /\ key \in Keys
  BY RowFields, FlowKept, KeyFits, Zenon
<1>2. Choose(form, ids) = d3
  BY SMT DEF Choose
<1> HIDE DEF flow, key
<1>3. /\ d1 \in Clients
      /\ d1.email = form.email /\ d1.sub = form.sub /\ d1.data = form.data
      /\ d1.enable = form.enable /\ d1.adTag = form.adTag
  BY ClientInbounds, Zenon
<1> HIDE DEF d1
<1>4. /\ d2 \in Clients
      /\ d2.email = d1.email /\ d2.sub = d1.sub /\ d2.data = d1.data
      /\ d2.enable = d1.enable /\ d2.adTag = d1.adTag
  BY <1>1, <1>3, ClientFlow, Zenon
<1> HIDE DEF d2
<1>5. /\ d3 \in Clients
      /\ d3.email = d2.email /\ d3.sub = d2.sub /\ d3.data = d2.data
      /\ d3.enable = d2.enable /\ d3.adTag = d2.adTag
  BY <1>1, <1>4, ClientKey, Zenon
<1> HIDE DEF d3
<1> QED BY <1>2, <1>3, <1>4, <1>5, Zenon

\* A client that is created, one that was there, and one that is moved.
LEMMA NewRow ==
    ASSUME NEW p \in Clients, NEW done \in SUBSET Inbounds
    PROVE  LET d == NewClient(p, done)
           IN  /\ d \in Clients
               /\ d.email = p.email /\ d.sub = p.sub /\ d.data = p.data /\ d.adTag = p.adTag
               /\ d.enable = TRUE /\ d.links = "none" /\ d.inbounds = done
               /\ d.key = Fitted(p.key, done) /\ d.flow = FlowIn(p.flow, done)
<1> DEFINE k == Fitted(p.key, done)
           f == FlowIn(p.flow, done)
           d1 == [p EXCEPT !.enable = TRUE]
           d2 == [d1 EXCEPT !.key = k]
           d3 == [d2 EXCEPT !.flow = f]
           d4 == [d3 EXCEPT !.links = "none"]
           d5 == [d4 EXCEPT !.inbounds = done]
<1>1. k \in Keys /\ f \in Flows
  BY RowFields, KeyFits, FlowKept, Zenon
<1>2. NewClient(p, done) = d5
  BY SMT DEF NewClient
<1> HIDE DEF k, f
<1>3. /\ d1 \in Clients /\ d1.enable = TRUE
      /\ d1.email = p.email /\ d1.sub = p.sub /\ d1.data = p.data /\ d1.adTag = p.adTag
  BY Flags, ClientEnable, Zenon
<1> HIDE DEF d1
<1>4. /\ d2 \in Clients /\ d2.enable = TRUE /\ d2.key = k
      /\ d2.email = p.email /\ d2.sub = p.sub /\ d2.data = p.data /\ d2.adTag = p.adTag
  BY <1>1, <1>3, ClientKey, Zenon
<1> HIDE DEF d2
<1>5. /\ d3 \in Clients /\ d3.enable = TRUE /\ d3.key = k /\ d3.flow = f
      /\ d3.email = p.email /\ d3.sub = p.sub /\ d3.data = p.data /\ d3.adTag = p.adTag
  BY <1>1, <1>4, ClientFlow, Zenon
<1> HIDE DEF d3
<1>6. /\ d4 \in Clients /\ d4.enable = TRUE /\ d4.key = k /\ d4.flow = f /\ d4.links = "none"
      /\ d4.email = p.email /\ d4.sub = p.sub /\ d4.data = p.data /\ d4.adTag = p.adTag
  BY <1>5, Nones, ClientLinks, Zenon
<1> HIDE DEF d4
<1>7. /\ d5 \in Clients /\ d5.enable = TRUE /\ d5.key = k /\ d5.flow = f /\ d5.links = "none"
      /\ d5.email = p.email /\ d5.sub = p.sub /\ d5.data = p.data /\ d5.adTag = p.adTag
      /\ d5.inbounds = done
  BY <1>6, ClientInbounds, Zenon
<1> HIDE DEF d5
<1> QED BY <1>2, <1>7, Zenon DEF k, f

LEMMA KnownRow ==
    ASSUME NEW c \in Clients, NEW p \in Clients, c.email = p.email, c.sub = p.sub,
           NEW done \in SUBSET Inbounds
    PROVE  LET d == KnownClient(c, p, done)
           IN  d \in Clients /\ d.email = p.email /\ d.sub = p.sub
<1> DEFINE k == Fitted(KeyOf(c, p), done)
           f == IF c.flow = "none" THEN FlowIn(p.flow, done \ c.inbounds) ELSE c.flow
           g == IF p.adTag = "none" THEN c.adTag ELSE p.adTag
           ids == c.inbounds \cup done
           d1 == [p EXCEPT !.enable = TRUE]
           d2 == [d1 EXCEPT !.key = k]
           d3 == [d2 EXCEPT !.links = c.links]
           d4 == [d3 EXCEPT !.flow = f]
           d5 == [d4 EXCEPT !.adTag = g]
           d6 == [d5 EXCEPT !.inbounds = ids]
<1>1. /\ k \in Keys /\ f \in Flows /\ g \in Tags /\ c.links \in Links /\ ids \in SUBSET Inbounds
  <2>1. /\ c.links \in Links /\ c.flow \in Flows /\ c.adTag \in Tags /\ p.adTag \in Tags
        /\ c.inbounds \in SUBSET Inbounds /\ p.flow \in Flows
    BY RowFields, Zenon
  <2>2. k \in Keys
    BY KeySent, KeyFits, Zenon
  <2>3. f \in Flows
    BY <2>1, FlowKept, Zenon
  <2>4. g \in Tags /\ ids \in SUBSET Inbounds
    BY <2>1, Zenon
  <2> QED BY <2>1, <2>2, <2>3, <2>4
<1>2. KnownClient(c, p, done) = IF done \subseteq c.inbounds THEN c ELSE d6
  BY SMT DEF KnownClient
<1> HIDE DEF k, f, g, ids
<1>3. d1 \in Clients /\ d1.email = p.email /\ d1.sub = p.sub
  BY Flags, ClientEnable, Zenon
<1> HIDE DEF d1
<1>4. d2 \in Clients /\ d2.email = p.email /\ d2.sub = p.sub
  BY <1>1, <1>3, ClientKey, Zenon
<1> HIDE DEF d2
<1>5. d3 \in Clients /\ d3.email = p.email /\ d3.sub = p.sub
  BY <1>1, <1>4, ClientLinks, Zenon
<1> HIDE DEF d3
<1>6. d4 \in Clients /\ d4.email = p.email /\ d4.sub = p.sub
  BY <1>1, <1>5, ClientFlow, Zenon
<1> HIDE DEF d4
<1>7. d5 \in Clients /\ d5.email = p.email /\ d5.sub = p.sub
  BY <1>1, <1>6, ClientAdTag, Zenon
<1> HIDE DEF d5
<1>8. d6 \in Clients /\ d6.email = p.email /\ d6.sub = p.sub
  BY <1>1, <1>7, ClientInbounds, Zenon
<1> HIDE DEF d6
<1> QED BY <1>2, <1>8, Zenon

LEMMA MovedRow ==
    ASSUME NEW c \in Clients, NEW done \in SUBSET Inbounds, NEW d \in Moved(c, done)
    PROVE  /\ d \in Clients
           /\ d.email = c.email /\ d.sub = c.sub /\ d.data = c.data /\ d.enable = c.enable
           /\ d.adTag = c.adTag /\ d.links = c.links
           /\ save.st = "attach" => /\ d.inbounds = c.inbounds \cup done /\ d.flow = c.flow
                                    /\ ~Misfit(c.key, done) => d.key = c.key
           /\ save.st # "attach" => /\ d.inbounds = c.inbounds \ done /\ d.key = c.key
                                    /\ d.inbounds \cap FlowCapable # {} => d.flow = c.flow
<1>1. c.key \in Keys /\ c.flow \in Flows /\ c.inbounds \in SUBSET Inbounds
  BY RowFields, Zenon
<1>2. CASE save.st = "attach"
  <2> DEFINE ids == c.inbounds \cup done
             d1 == [c EXCEPT !.inbounds = ids]
  <2>1. PICK k \in {c.key, Fitted(c.key, done \ c.inbounds)} : d = [d1 EXCEPT !.key = k]
    BY <1>2, SMT DEF Moved
  <2>2. k \in Keys /\ (~Misfit(c.key, done) => k = c.key)
    <3>1. ~Misfit(c.key, done) => ~Misfit(c.key, done \ c.inbounds)
      BY FitsFewer, Zenon
    <3> QED BY <1>1, <2>1, <3>1, KeyFits, Zenon
  <2>3. ids \in SUBSET Inbounds
    BY <1>1, Zenon
  <2> HIDE DEF ids
  <2>4. /\ d1 \in Clients /\ d1.inbounds = ids
        /\ d1.email = c.email /\ d1.sub = c.sub /\ d1.data = c.data /\ d1.enable = c.enable
        /\ d1.flow = c.flow /\ d1.adTag = c.adTag /\ d1.links = c.links
    BY <2>3, ClientInbounds, Zenon
  <2> HIDE DEF d1
  <2> DEFINE d2 == [d1 EXCEPT !.key = k]
  <2>5. /\ d2 \in Clients /\ d2.key = k /\ d2.inbounds = d1.inbounds
        /\ d2.email = d1.email /\ d2.sub = d1.sub /\ d2.data = d1.data /\ d2.enable = d1.enable
        /\ d2.flow = d1.flow /\ d2.adTag = d1.adTag /\ d2.links = d1.links
    BY <2>2, <2>4, ClientKey, Zenon
  <2>6. d = d2
    BY <2>1, Zenon
  <2> HIDE DEF d2
  <2> QED BY <1>2, <2>2, <2>4, <2>5, <2>6, Zenon DEF ids
<1>3. CASE save.st # "attach"
  <2> DEFINE ids == c.inbounds \ done
             f == FlowIn(c.flow, ids)
             d1 == [c EXCEPT !.inbounds = ids]
             d2 == [d1 EXCEPT !.flow = f]
  <2>1. d = d2
    BY <1>3, SMT DEF Moved
  <2>2. ids \in SUBSET Inbounds /\ f \in Flows /\ (ids \cap FlowCapable # {} => f = c.flow)
    BY <1>1, FlowKept, Zenon
  <2> HIDE DEF ids, f
  <2>3. /\ d1 \in Clients /\ d1.inbounds = ids
        /\ d1.email = c.email /\ d1.sub = c.sub /\ d1.data = c.data /\ d1.enable = c.enable
        /\ d1.key = c.key /\ d1.adTag = c.adTag /\ d1.links = c.links
    BY <2>2, ClientInbounds, Zenon
  <2> HIDE DEF d1
  <2>4. /\ d2 \in Clients /\ d2.flow = f /\ d2.inbounds = d1.inbounds
        /\ d2.email = d1.email /\ d2.sub = d1.sub /\ d2.data = d1.data /\ d2.enable = d1.enable
        /\ d2.key = d1.key /\ d2.adTag = d1.adTag /\ d2.links = d1.links
    BY <2>2, <2>3, ClientFlow, Zenon
  <2> HIDE DEF d2
  <2> QED BY <1>3, <2>1, <2>2, <2>3, <2>4, Zenon DEF ids
<1> QED BY <1>2, <1>3

\* A form with one field changed by the user.
LEMMA ChangedForm ==
    ASSUME clientDialog.form \in Clients, NEW field \in Fields, NEW form \in Changed(field)
    PROVE  /\ form \in Clients
           /\ field # "email" => form.email = clientDialog.form.email
           /\ field # "sub" => form.sub = clientDialog.form.sub
           /\ field # "data" => form.data = clientDialog.form.data
           /\ field # "enable" => form.enable = clientDialog.form.enable
           /\ field # "adTag" => form.adTag = clientDialog.form.adTag
           /\ field # "inbounds" => form.inbounds = clientDialog.form.inbounds
           /\ field # "key" /\ field # "inbounds" => form.key = clientDialog.form.key
           /\ field # "flow" /\ field # "inbounds" => form.flow = clientDialog.form.flow
<1> DEFINE old == clientDialog.form
<1>1. CASE field = "email"
  <2>1. PICK e \in Emails : form = [old EXCEPT !.email = e]
    BY <1>1, SMT DEF Changed
  <2> HIDE DEF old
  <2> QED BY <1>1, <2>1, ClientEmail, Zenon DEF old
<1>2. CASE field = "sub"
  <2>1. PICK u \in Subs : form = [old EXCEPT !.sub = u]
    BY <1>2, SMT DEF Changed
  <2> HIDE DEF old
  <2> QED BY <1>2, <2>1, ClientSub, Zenon DEF old
<1>3. CASE field = "data"
  <2>1. form = [old EXCEPT !.data = "new"] /\ "new" \in Data
    BY <1>3, SMT DEF Changed, Data
  <2> QED BY <1>3, <2>1, ClientData, Zenon
<1>4. CASE field = "enable"
  <2>1. form = [old EXCEPT !.enable = ~@]
    BY <1>4, Zenon DEF Changed
  <2>2. (~old.enable) \in BOOLEAN
    BY RowFields, NotFlag, Zenon
  <2> QED BY <1>4, <2>1, <2>2, ClientEnable, Zenon
<1>5. CASE field = "key"
  <2>1. PICK k \in {"short", "long"} : form = [old EXCEPT !.key = k]
    BY <1>5, SMT DEF Changed
  <2>2. k \in Keys
    BY Zenon DEF Keys
  <2> QED BY <1>5, <2>1, <2>2, ClientKey, Zenon
<1>6. CASE field = "inbounds"
  <2>1. PICK ids \in SUBSET Inbounds : form = Choose(old, ids)
    BY <1>6, SMT DEF Changed
  <2> QED BY <1>6, <2>1, ChosenForm, Zenon
<1>7. CASE field = "links"
  <2>1. PICK l \in Links : form = [old EXCEPT !.links = l]
    BY <1>7, SMT DEF Changed
  <2> QED BY <1>7, <2>1, ClientLinks, Zenon
<1>8. CASE field = "flow"
  <2>1. PICK f \in Flows : form = [old EXCEPT !.flow = f]
    BY <1>8, SMT DEF Changed
  <2> QED BY <1>8, <2>1, ClientFlow, Zenon
<1>9. CASE field = "adTag"
  <2>1. PICK g \in Tags : form = [old EXCEPT !.adTag = g]
    BY <1>9, SMT DEF Changed
  <2> QED BY <1>9, <2>1, ClientAdTag, Zenon
<1> QED BY <1>1, <1>2, <1>3, <1>4, <1>5, <1>6, <1>7, <1>8, <1>9, Zenon DEF Fields

-----------------------------------------------------------------------------
(* The server's table.                                                     *)

\* What every step leaves of the table: no id comes back, and a sub that a
\* write replaces is remembered.
Kin ==
    /\ used \subseteq used' /\ replaced \subseteq replaced'
    /\ \A i \in used : \/ server'[i] = NoClient
                       \/ server[i] # NoClient /\ (i \in replaced' \/ server'[i].sub = server[i].sub)

LEMMA SameStays ==
    ASSUME Kin, NEW i, NEW sub, Same(i, sub)
    PROVE  Same(i, sub)'
BY Zenon DEF Kin, Same

\* One row is written: no other has its email.
LEMMA RowWritten ==
    ASSUME ServerOK, NEW i \in Ids, server[i] # NoClient, NEW c \in Clients,
           server' = [server EXCEPT ![i] = c], used' = used, replaced \subseteq replaced',
           \/ c.email = server[i].email
           \/ \A j \in Ids : j # i /\ server[j] # NoClient => server[j].email # c.email,
           c.sub = server[i].sub \/ i \in replaced'
    PROVE  ServerOK' /\ Kin
<1>1. /\ server' \in [Ids -> ClientOrNone] /\ used' \in SUBSET Ids
      /\ \A j \in Ids : server'[j] = IF j = i THEN c ELSE server[j]
  BY SMT DEF ServerOK, ClientOrNone
<1>2. \A j \in Ids : server'[j] # NoClient => j \in used'
  BY <1>1, Zenon DEF ServerOK
<1>3. ASSUME NEW j \in Ids, NEW k \in Ids, server'[j] # NoClient, server'[k] # NoClient,
             server'[j].email = server'[k].email
      PROVE  j = k
  <2>1. \A n \in Ids : server'[n] # NoClient => server[n] # NoClient
    BY <1>1, Zenon
  <2>2. CASE j = i /\ k # i
    BY <1>1, <1>3, <2>1, <2>2, Zenon DEF ServerOK
  <2>3. CASE j # i /\ k = i
    BY <1>1, <1>3, <2>1, <2>3, Zenon DEF ServerOK
  <2>4. CASE j # i /\ k # i
    BY <1>1, <1>3, <2>1, <2>4, Zenon DEF ServerOK
  <2> QED BY <2>2, <2>3, <2>4, Zenon
<1>4. Kin
  BY <1>1, Zenon DEF Kin, ServerOK
<1> QED BY <1>1, <1>2, <1>3, <1>4, Zenon DEF ServerOK

\* Rows are deleted, or written with the email and sub they have.
LEMMA RowsWritten ==
    ASSUME ServerOK, server' \in [Ids -> ClientOrNone], used' = used, replaced' = replaced,
           \A j \in Ids : \/ server'[j] = NoClient
                          \/ /\ server[j] # NoClient
                             /\ server'[j].email = server[j].email /\ server'[j].sub = server[j].sub
    PROVE  ServerOK' /\ Kin
BY Zenon DEF ServerOK, Kin

LEMMA TakenSplit ==
    ASSUME NEW i, NEW p, ~Taken(i, p)
    PROVE  \A j \in Ids : j # i /\ server[j] # NoClient => server[j].email # p.email /\ server[j].sub # p.sub
BY Zenon DEF Taken

LEMMA WriteRowStep ==
    ASSUME ServerOK, NEW i \in Ids, server[i] # NoClient, NEW c \in Clients, NEW p \in Clients,
           c.email = p.email, ~Taken(i, p), WriteRow(i, c), used' = used
    PROVE  ServerOK' /\ Kin
<1>1. /\ server' = [server EXCEPT ![i] = c] /\ replaced \subseteq replaced'
      /\ c.sub = server[i].sub \/ i \in replaced'
  BY Zenon DEF WriteRow
<1>2. \A j \in Ids : j # i /\ server[j] # NoClient => server[j].email # c.email
  <2>1. \A j \in Ids : j # i /\ server[j] # NoClient => server[j].email # p.email
    BY Zenon DEF Taken
  <2> QED BY <2>1, Zenon
<1> QED BY <1>1, <1>2, RowWritten, Zenon

LEMMA HolderRow ==
    ASSUME ServerOK, NEW email, NEW i \in Holders(email)
    PROVE  i \in Ids /\ server[i] # NoClient /\ server[i] \in Clients /\ server[i].email = email
BY SMT DEF ServerOK, Holders, ClientOrNone

LEMMA UpdateTable ==
    ASSUME ServerOK, SaveOK, ServerUpdates
    PROVE  ServerOK' /\ Kin
<1>1. save.payload \in Clients /\ used' = used
  <2>1. save.payload \in Clients
    BY SMT DEF SaveOK, Onsaves
  <2> QED BY <2>1, Zenon DEF ServerUpdates
<1>2. ASSUME NEW i \in Holders(save.email), ~Taken(i, save.payload),
             \/ WriteRow(i, Written(server[i], save.payload))
             \/ \E c \in PartlyWritten(server[i], save.payload) : WriteRow(i, c)
      PROVE  ServerOK' /\ Kin
  <2>1. i \in Ids /\ server[i] # NoClient /\ server[i] \in Clients
    BY HolderRow, Zenon
  <2>2. /\ Written(server[i], save.payload) \in Clients
        /\ Written(server[i], save.payload).email = save.payload.email
    BY <1>1, <2>1, WrittenRow, Zenon
  <2>3. \A c \in PartlyWritten(server[i], save.payload) : c \in Clients /\ c.email = save.payload.email
    BY <1>1, <2>1, PartlyRow, Zenon
  <2>4. \E c \in Clients : c.email = save.payload.email /\ WriteRow(i, c)
    BY <1>2, <2>2, <2>3, Zenon
  <2> QED BY <1>1, <1>2, <2>1, <2>4, WriteRowStep, Zenon
<1>3. CASE UNCHANGED <<server, replaced>>
  BY <1>1, <1>3, Zenon DEF ServerOK, Kin
<1> QED BY <1>2, <1>3, Zenon DEF ServerUpdates

LEMMA ToggleTable ==
    ASSUME ServerOK, FetchOK, NEW s \in Slots, ToggleUpdate(s)
    PROVE  ServerOK' /\ Kin
<1>1. fetch[s] \in Fetched /\ fetch[s].full # NoClient /\ used' = used
  BY Zenon DEF FetchOK, ToggleUpdate
<1> DEFINE p == TogglePayload(fetch[s])
<1>2. p \in Clients
  BY <1>1, ToggleRow, Zenon
<1>3. ASSUME NEW i \in Holders(fetch[s].row.email), ~Taken(i, p), WriteRow(i, Written(server[i], p))
      PROVE  ServerOK' /\ Kin
  <2> HIDE DEF p
  <2>1. i \in Ids /\ server[i] # NoClient /\ server[i] \in Clients
    BY HolderRow, Zenon
  <2>2. Written(server[i], p) \in Clients /\ Written(server[i], p).email = p.email
    BY <1>2, <2>1, WrittenRow, Zenon
  <2> QED BY <1>1, <1>2, <1>3, <2>1, <2>2, WriteRowStep, Zenon
<1>4. CASE UNCHANGED <<server, replaced>>
  BY <1>1, <1>4, Zenon DEF ServerOK, Kin
<1> QED BY <1>3, <1>4, Zenon DEF ToggleUpdate

\* How a creation ends: a new row, a row that was there, or no write.
CreatesNew(done) ==
    \E i \in Ids \ used :
       /\ Holders(save.payload.email) = {}
       /\ server' = [server EXCEPT ![i] = NewClient(save.payload, done)]
       /\ used' = used \cup {i}
       /\ save' = [save EXCEPT !.at = IF done = save.payload.inbounds THEN "ok" ELSE "no",
                               !.id = i, !.had = done, !.made = "new"]

CreatesKnown(done) ==
    \E i \in Holders(save.payload.email) :
       /\ server[i].sub = save.payload.sub
       /\ server' = [server EXCEPT ![i] = KnownClient(@, save.payload, done)]
       /\ save' = [save EXCEPT !.at = IF done = save.payload.inbounds THEN "ok" ELSE "no",
                               !.id = i, !.had = done, !.made = "known"]
       /\ used' = used

LEMMA CreateCases ==
    ASSUME ServerCreates, save.payload.inbounds \in SUBSET Inbounds
    PROVE  \/ \E done \in SUBSET Inbounds : CreatesNew(done) \/ CreatesKnown(done)
           \/ save' = [save EXCEPT !.at = "no"] /\ UNCHANGED <<server, used>>
<1>1. CASE save' = [save EXCEPT !.at = "no"] /\ UNCHANGED <<server, used>>
  BY <1>1, Zenon
<1>2. ASSUME NEW done \in SUBSET save.payload.inbounds,
             CreatesNew(done) \/ CreatesKnown(done)
      PROVE  \E d \in SUBSET Inbounds : CreatesNew(d) \/ CreatesKnown(d)
  <2>1. done \in SUBSET Inbounds
    BY Zenon
  <2> QED BY <1>2, <2>1, Zenon
<1> QED BY <1>1, <1>2, Zenon DEF ServerCreates, CreatesNew, CreatesKnown

\* A new client has an id that was never used and an email that is free; one
\* that is known keeps its email and its sub.
LEMMA CreateTable ==
    ASSUME ServerOK, SaveOK, ServerCreates
    PROVE  ServerOK' /\ Kin
<1>1. save.payload \in Clients /\ save.payload.inbounds \in SUBSET Inbounds /\ replaced' = replaced
  <2>1. save.payload \in Clients
    BY SMT DEF SaveOK, Onsaves
  <2> QED BY <2>1, RowFields, Zenon DEF ServerCreates
<1>2. ASSUME NEW i \in Ids \ used, NEW done \in SUBSET Inbounds, Holders(save.payload.email) = {},
             server' = [server EXCEPT ![i] = NewClient(save.payload, done)], used' = used \cup {i}
      PROVE  ServerOK' /\ Kin
  <2> DEFINE c == NewClient(save.payload, done)
  <2>1. c \in Clients /\ c.email = save.payload.email
    BY <1>1, NewRow, Zenon
  <2>2. server' = [server EXCEPT ![i] = c]
    BY <1>2, Zenon
  <2> HIDE DEF c
  <2>5. /\ server' \in [Ids -> ClientOrNone] /\ used' \in SUBSET Ids
        /\ \A j \in Ids : server'[j] = IF j = i THEN c ELSE server[j]
    BY <1>2, <2>1, <2>2, SMT DEF ServerOK, ClientOrNone
  <2>6. \A j \in Ids : server[j] # NoClient => server[j].email # c.email
    BY <1>2, <2>1, Zenon DEF Holders
  <2>7. ASSUME NEW j \in Ids, NEW k \in Ids, server'[j] # NoClient, server'[k] # NoClient,
               server'[j].email = server'[k].email
        PROVE  j = k
    BY <2>5, <2>6, <2>7, Zenon DEF ServerOK
  <2>8. \A j \in Ids : server'[j] # NoClient => j \in used'
    BY <1>2, <2>5, SMT DEF ServerOK
  <2>9. Kin
    BY <1>1, <1>2, <2>5, SMT DEF Kin, ServerOK
  <2> QED BY <2>5, <2>7, <2>8, <2>9, Zenon DEF ServerOK
<1>3. ASSUME NEW i \in Holders(save.payload.email), NEW done \in SUBSET Inbounds,
             server[i].sub = save.payload.sub, used' = used,
             server' = [server EXCEPT ![i] = KnownClient(@, save.payload, done)]
      PROVE  ServerOK' /\ Kin
  <2> DEFINE c == KnownClient(server[i], save.payload, done)
  <2>1. i \in Ids /\ server[i] # NoClient /\ server[i] \in Clients /\ server[i].email = save.payload.email
    BY HolderRow, Zenon
  <2>2. c \in Clients /\ c.email = save.payload.email /\ c.sub = save.payload.sub
    BY <1>1, <1>3, <2>1, KnownRow, Zenon
  <2>3. server' = [server EXCEPT ![i] = c]
    BY <1>3, Zenon
  <2> HIDE DEF c
  <2>4. c.email = server[i].email /\ c.sub = server[i].sub /\ replaced \subseteq replaced'
    BY <1>1, <1>3, <2>1, <2>2, Zenon
  <2> QED BY <1>3, <2>1, <2>2, <2>3, <2>4, RowWritten, Zenon
<1>4. CASE UNCHANGED <<server, used>>
  BY <1>1, <1>4, Zenon DEF ServerOK, Kin
<1>5. \/ \E done \in SUBSET Inbounds : CreatesNew(done) \/ CreatesKnown(done)
      \/ UNCHANGED <<server, used>>
  BY <1>1, CreateCases, Zenon
<1> QED BY <1>2, <1>3, <1>4, <1>5, Zenon DEF CreatesNew, CreatesKnown

\* Only a row's inbounds, or only its links, change.
LEMMA InboundsTable ==
    ASSUME ServerOK, ServerMoves \/ ServerSetsLinks, SaveOK
    PROVE  ServerOK' /\ Kin
<1>1. used' = used /\ replaced' = replaced /\ save \in Onsaves
  BY Zenon DEF ServerMoves, ServerSetsLinks, SaveOK
<1>2. ASSUME NEW i \in Holders(save.payload.email), NEW c \in Clients,
             c.email = server[i].email, c.sub = server[i].sub, server' = [server EXCEPT ![i] = c]
      PROVE  ServerOK' /\ Kin
  <2>1. i \in Ids /\ server[i] # NoClient
    BY HolderRow, Zenon
  <2> QED BY <1>1, <1>2, <2>1, RowWritten, Zenon
<1>3. ASSUME ServerMoves, NEW i \in Holders(save.payload.email),
             NEW done \in SUBSET (IF save.st = "attach" THEN save.attach ELSE save.detach),
             NEW c \in Moved(server[i], done), server' = [server EXCEPT ![i] = c]
      PROVE  ServerOK' /\ Kin
  <2>1. server[i] \in Clients
    BY HolderRow, Zenon
  <2>2. done \in SUBSET Inbounds
    <3>1. save.attach \in SUBSET Inbounds /\ save.detach \in SUBSET Inbounds
      BY <1>1, SMT DEF Onsaves
    <3> QED BY <3>1, Zenon
  <2>3. c \in Clients /\ c.email = server[i].email /\ c.sub = server[i].sub
    BY <2>1, <2>2, MovedRow, SMT
  <2> QED BY <1>2, <1>3, <2>3, Zenon
<1>4. ASSUME NEW i \in Holders(save.payload.email), server' = [server EXCEPT ![i].links = save.payload.links]
      PROVE  ServerOK' /\ Kin
  <2> DEFINE c == [server[i] EXCEPT !.links = save.payload.links]
  <2>1. server[i] \in Clients /\ save.payload.links \in Links
    BY <1>1, HolderRow, SMT DEF Onsaves, Clients
  <2>2. server' = [server EXCEPT ![i] = c]
    BY <1>4, Zenon
  <2>3. c \in Clients /\ c.email = server[i].email /\ c.sub = server[i].sub
    BY <2>1, ClientLinks, Zenon
  <2> HIDE DEF c
  <2> QED BY <1>2, <2>2, <2>3, Zenon
<1>5. CASE server' = server
  BY <1>1, <1>5, Zenon DEF ServerOK, Kin
<1> QED BY <1>3, <1>4, <1>5, Zenon DEF ServerMoves, ServerSetsLinks

LEMMA BulkTable ==
    ASSUME ServerOK, ServerBulk
    PROVE  ServerOK' /\ Kin
<1>1. PICK done \in SUBSET Ids :
         /\ \A i \in done : server[i] # NoClient
         /\ server' = [i \in Ids |-> IF i \in done THEN BulkStored(server[i]) ELSE server[i]]
  BY Zenon DEF ServerBulk
<1>2. ASSUME NEW i \in Ids, server[i] # NoClient
      PROVE  /\ BulkStored(server[i]) \in ClientOrNone
             /\ BulkStored(server[i]) # NoClient =>
                  BulkStored(server[i]).email = server[i].email /\ BulkStored(server[i]).sub = server[i].sub
  <2>1. server[i] \in Clients /\ (bulk.kind = "enable") \in BOOLEAN
    BY <1>2, SMT DEF ServerOK, ClientOrNone
  <2>2. CASE bulk.kind = "delete"
    BY <2>2, Zenon DEF BulkStored, ClientOrNone
  <2>3. CASE bulk.kind # "delete"
    <3> DEFINE c == [server[i] EXCEPT !.enable = (bulk.kind = "enable")]
    <3>1. BulkStored(server[i]) = c
      BY <2>3, Zenon DEF BulkStored
    <3>2. c \in Clients /\ c.email = server[i].email /\ c.sub = server[i].sub
      BY <2>1, ClientEnable, Zenon
    <3> HIDE DEF c
    <3> QED BY <3>1, <3>2, Zenon DEF ClientOrNone
  <2> QED BY <2>2, <2>3
<1>3. server' \in [Ids -> ClientOrNone]
  <2>1. \A i \in Ids : (IF i \in done THEN BulkStored(server[i]) ELSE server[i]) \in ClientOrNone
    BY <1>1, <1>2, SMT DEF ServerOK
  <2> QED BY <1>1, <2>1, Zenon
<1>4. \A j \in Ids : \/ server'[j] = NoClient
                     \/ /\ server[j] # NoClient
                        /\ server'[j].email = server[j].email /\ server'[j].sub = server[j].sub
  BY <1>1, <1>2, Zenon
<1> QED BY <1>3, <1>4, RowsWritten, Zenon DEF ServerBulk

LEMMA OtherTable ==
    ASSUME ServerOK, NEW i \in Ids, OtherAdmin(i)
    PROVE  ServerOK' /\ Kin
<1>1. server[i] # NoClient /\ server[i] \in Clients /\ used' = used
  <2>1. server[i] # NoClient /\ used' = used
    BY Zenon DEF OtherAdmin
  <2> QED BY <2>1, SMT DEF ServerOK, ClientOrNone
<1>2. ASSUME NEW c \in Clients, WriteRow(i, c), c.email = server[i].email \/ c.email \in UnusedEmails
      PROVE  ServerOK' /\ Kin
  <2>1. /\ server' = [server EXCEPT ![i] = c] /\ replaced \subseteq replaced'
        /\ c.sub = server[i].sub \/ i \in replaced'
    BY <1>2, Zenon DEF WriteRow
  <2>2. \/ c.email = server[i].email
        \/ \A j \in Ids : j # i /\ server[j] # NoClient => server[j].email # c.email
    BY <1>2, Zenon DEF UnusedEmails
  <2> QED BY <1>1, <2>1, <2>2, RowWritten, Zenon
<1>3. CASE WriteRow(i, Written(server[i], [server[i] EXCEPT !.data = "theirs", !.adTag = "none"]))
  <2> DEFINE d == [server[i] EXCEPT !.data = "theirs"]
             p == [d EXCEPT !.adTag = "none"]
             c == Written(server[i], p)
  <2>1. "theirs" \in Data /\ "none" \in Tags
    BY DEF Data, Tags
  <2>2. d \in Clients /\ d.email = server[i].email
    BY <1>1, <2>1, ClientData, Zenon
  <2>3. WriteRow(i, c)
    BY <1>3, Zenon
  <2> HIDE DEF d
  <2>4. p \in Clients /\ p.email = server[i].email
    BY <2>1, <2>2, ClientAdTag, Zenon
  <2> HIDE DEF p
  <2>5. c \in Clients /\ c.email = server[i].email
    BY <1>1, <2>4, WrittenRow, Zenon
  <2> HIDE DEF c
  <2> QED BY <1>2, <2>3, <2>5, Zenon
<1>4. ASSUME NEW e \in UnusedEmails, WriteRow(i, [server[i] EXCEPT !.email = e])
      PROVE  ServerOK' /\ Kin
  <2> DEFINE c == [server[i] EXCEPT !.email = e]
  <2>1. e \in Emails
    BY Zenon DEF UnusedEmails
  <2>2. c \in Clients /\ c.email = e
    BY <1>1, <2>1, ClientEmail, Zenon
  <2>3. WriteRow(i, c)
    BY <1>4, Zenon
  <2> HIDE DEF c
  <2> QED BY <1>2, <1>4, <2>2, <2>3, Zenon
<1>5. ASSUME NEW s \in UnusedSubs, WriteRow(i, [server[i] EXCEPT !.sub = s])
      PROVE  ServerOK' /\ Kin
  <2> DEFINE c == [server[i] EXCEPT !.sub = s]
  <2>1. s \in Subs
    BY Zenon DEF UnusedSubs
  <2>2. c \in Clients /\ c.email = server[i].email
    BY <1>1, <2>1, ClientSub, Zenon
  <2>3. WriteRow(i, c)
    BY <1>5, Zenon
  <2> HIDE DEF c
  <2> QED BY <1>2, <2>2, <2>3, Zenon
<1>6. ASSUME NEW ib \in Inbounds,
             WriteRow(i, [server[i] EXCEPT !.inbounds = @ \cup {ib}, !.key = Fitted(@, {ib})])
      PROVE  ServerOK' /\ Kin
  <2> DEFINE k == Fitted(server[i].key, {ib})
             d == [server[i] EXCEPT !.inbounds = server[i].inbounds \cup {ib}]
             c == [d EXCEPT !.key = k]
  <2>1. server[i].inbounds \cup {ib} \in SUBSET Inbounds /\ k \in Keys
    BY <1>1, RowFields, KeyFits, Zenon
  <2>2. d \in Clients /\ d.email = server[i].email
    BY <1>1, <2>1, ClientInbounds, Zenon
  <2>3. WriteRow(i, c)
    BY <1>6, SMT
  <2> HIDE DEF k, d
  <2>4. c \in Clients /\ c.email = server[i].email
    BY <2>1, <2>2, ClientKey, Zenon
  <2> HIDE DEF c
  <2> QED BY <1>2, <2>3, <2>4, Zenon
<1>7. CASE server' = [server EXCEPT ![i] = NoClient] /\ UNCHANGED replaced
  <2>1. /\ server' \in [Ids -> ClientOrNone]
        /\ \A j \in Ids : server'[j] = IF j = i THEN NoClient ELSE server[j]
    BY <1>7, SMT DEF ServerOK, ClientOrNone
  <2>2. \A j \in Ids : \/ server'[j] = NoClient
                       \/ /\ server[j] # NoClient
                          /\ server'[j].email = server[j].email /\ server'[j].sub = server[j].sub
    BY <2>1, Zenon
  <2> QED BY <1>1, <1>7, <2>1, <2>2, RowsWritten, Zenon
<1> QED BY <1>3, <1>4, <1>5, <1>6, <1>7, Zenon DEF OtherAdmin

\* The actions that write the table, and the others.
WritesTable ==
    \/ ServerUpdates \/ (\E s \in Slots : ToggleUpdate(s)) \/ ServerCreates \/ ServerMoves
    \/ ServerSetsLinks \/ ServerBulk \/ (\E i \in Ids : OtherAdmin(i))

LEMMA TableWriters ==
    ASSUME [ClientsNext]_clientsVars
    PROVE  WritesTable \/ UNCHANGED <<server, used, replaced>>
BY Zenon DEF WritesTable, ClientsNext, clientsVars, RefetchList, OnEdit, OnToggleEnable, Hydrate, OpenEdit,
   Toggle, ToggleReturns, OnAdd, Change, CloseForm, OnSubmit, SaveGoesOn, SaveFails, OpenConfirm, AnswerConfirm

LEMMA TableStays ==
    ASSUME ClientsInv, [ClientsNext]_clientsVars
    PROVE  ServerOK' /\ Kin
<1>1. CASE UNCHANGED <<server, used, replaced>>
  BY <1>1, Zenon DEF ClientsInv, ServerOK, Kin
<1>2. CASE WritesTable
  BY <1>2, UpdateTable, ToggleTable, CreateTable, InboundsTable, BulkTable, OtherTable, Zenon
  DEF WritesTable, ClientsInv
<1> QED BY <1>1, <1>2, TableWriters, Zenon

-----------------------------------------------------------------------------
(* The rows and the fetches.                                               *)

LEMMA RowsStay ==
    ASSUME ClientsInv, Kin, [ClientsNext]_clientsVars
    PROVE  RowsOK'
<1>1. CASE RefetchList
  <2>1. /\ server' = server /\ used' = used /\ replaced' = replaced /\ rows' = Shown(server)
        /\ ServerOK
    BY <1>1, Zenon DEF RefetchList, ClientsInv
  <2>2. \A i \in Ids : rows'[i] = IF server[i] = NoClient THEN NoClient ELSE Slim(server[i])
    BY <2>1, Zenon DEF Shown
  <2>3. ASSUME NEW i \in Ids, server[i] # NoClient
        PROVE  Slim(server[i]) \in Clients /\ Slim(server[i]).sub = server[i].sub /\ i \in used
    <3>1. server[i] \in Clients /\ i \in used
      BY <2>1, <2>3, SMT DEF ServerOK, ClientOrNone
    <3> QED BY <3>1, SlimRow, Zenon
  <2>4. rows' \in [Ids -> ClientOrNone]
    <3>1. \A i \in Ids : (IF server[i] = NoClient THEN NoClient ELSE Slim(server[i])) \in ClientOrNone
      BY <2>3, Zenon DEF ClientOrNone
    <3> QED BY <2>1, <3>1, Zenon DEF Shown
  <2>5. \A i \in Ids : rows'[i] # NoClient => Same(i, rows'[i].sub)
    BY <2>2, <2>3, Zenon DEF Same
  <2> QED BY <2>1, <2>4, <2>5, Zenon DEF RowsOK, Same
<1>2. CASE rows' = rows
  <2>1. RowsOK
    BY Zenon DEF ClientsInv
  <2>2. rows' \in [Ids -> ClientOrNone]
    BY <1>2, <2>1, Zenon DEF RowsOK
  <2>3. \A i \in Ids : rows[i] # NoClient => Same(i, rows[i].sub)'
    <3> DEFINE sub(i) == rows[i].sub
    <3>1. \A i \in Ids : rows[i] # NoClient => Same(i, sub(i))
      BY <2>1, Zenon DEF RowsOK
    <3>2. \A i, v : Same(i, v) => Same(i, v)'
      BY SameStays, Zenon
    <3>3. \A i \in Ids : rows'[i] = rows[i] /\ rows[i].sub = rows'[i].sub
      BY <1>2, Zenon
    <3> QED BY <1>2, <3>1, <3>2, Zenon DEF Same
  <2> QED BY <1>2, <2>2, <2>3, Zenon DEF RowsOK
<1> QED BY <1>1, <1>2, Zenon DEF ClientsNext, clientsVars, OnEdit, OnToggleEnable, Hydrate, OpenEdit,
   Toggle, ToggleUpdate, ToggleReturns, OnAdd, Change, CloseForm, OnSubmit, ServerUpdates, ServerCreates,
   ServerMoves, ServerSetsLinks, SaveGoesOn, SaveFails, OpenConfirm, AnswerConfirm, ServerBulk, OtherAdmin

LEMMA NotFetchingTyped ==
    NotFetching \in Fetched /\ NotFetching.st = "none" /\ NotFetching.full = NoClient
BY BlankTyped, SMT DEF NotFetching, Fetched, ClientOrNone, IdOrNone

\* One fetch changes.
LEMMA OneFetch ==
    ASSUME FetchOK, Kin, NEW s \in Slots, NEW f \in Fetched, fetch' = [fetch EXCEPT ![s] = f],
           f.st # "none" => f.id \in Ids /\ Same(f.id, Given(f).sub),
           f.st = "update" => f.full # NoClient
    PROVE  FetchOK'
<1>1. /\ fetch' \in [Slots -> Fetched]
      /\ \A q \in Slots : fetch'[q] = IF q = s THEN f ELSE fetch[q]
  BY SMT DEF FetchOK
<1>2. \A i, v : Same(i, v) => Same(i, v)'
  BY SameStays, Zenon
<1>3. ASSUME NEW q \in Slots, NEW g \in Fetched, g = fetch'[q]
      PROVE  /\ g.st # "none" => g.id \in Ids /\ Same(g.id, Given(g).sub)'
             /\ g.st = "update" => g.full # NoClient
  <2>1. /\ g.st # "none" => g.id \in Ids /\ Same(g.id, Given(g).sub)
        /\ g.st = "update" => g.full # NoClient
    BY <1>1, <1>3, Zenon DEF FetchOK
  <2> QED BY <1>2, <2>1, Zenon
<1> QED BY <1>1, <1>3, Zenon DEF FetchOK, Same

LEMMA FetchesStay ==
    ASSUME ClientsInv, Kin, [ClientsNext]_clientsVars
    PROVE  FetchOK'
<1>0. ServerOK /\ RowsOK /\ FetchOK /\ fetch \in [Slots -> Fetched]
  BY Zenon DEF ClientsInv, FetchOK
<1>1. ASSUME NEW s \in Slots, NEW i \in Ids, OnEdit(s, i) PROVE FetchOK'
  <2>1. rows[i] \in Clients /\ Same(i, rows[i].sub) /\ i \in IdOrNone
    BY <1>0, <1>1, SMT DEF RowsOK, OnEdit, ClientOrNone, IdOrNone
  <2> DEFINE f1 == [NotFetching EXCEPT !.st = "sent"]
             f2 == [f1 EXCEPT !.row = rows[i]]
             f3 == [f2 EXCEPT !.id = i]
  <2>2. fetch' = [fetch EXCEPT ![s] = f3]
    BY <1>1, Zenon DEF OnEdit
  <2>3. f1 \in Fetched /\ f1.st = "sent" /\ f1.full = NoClient
    BY NotFetchingTyped, FetchSt, Zenon
  <2> HIDE DEF f1
  <2>4. f2 \in Fetched /\ f2.st = "sent" /\ f2.full = NoClient /\ f2.row = rows[i]
    BY <2>1, <2>3, FetchRow, Zenon
  <2> HIDE DEF f2
  <2>5. f3 \in Fetched /\ f3.st = "sent" /\ f3.full = NoClient /\ f3.row = rows[i] /\ f3.id = i
    BY <2>1, <2>4, FetchId, Zenon
  <2> HIDE DEF f3
  <2>6. Given(f3) = rows[i]
    BY <2>5, Zenon DEF Given
  <2>7. f3.id \in Ids /\ Same(f3.id, Given(f3).sub) /\ f3.st # "update"
    BY <2>1, <2>5, <2>6, Zenon
  <2> QED BY <1>0, <2>2, <2>5, <2>7, OneFetch, Zenon
<1>2. ASSUME NEW s \in Slots, NEW i \in Ids, OnToggleEnable(s, i) PROVE FetchOK'
  <2>1. rows[i] \in Clients /\ Same(i, rows[i].sub) /\ i \in IdOrNone
    BY <1>0, <1>2, SMT DEF RowsOK, OnToggleEnable, ClientOrNone, IdOrNone
  <2>2. (~rows[i].enable) \in BOOLEAN
    <3>1. rows[i].enable \in BOOLEAN
      BY <2>1, SMT DEF Clients
    <3> QED BY <3>1, NotFlag, Zenon
  <2> DEFINE f1 == [NotFetching EXCEPT !.st = "sent"]
             f2 == [f1 EXCEPT !.for = "toggle"]
             f3 == [f2 EXCEPT !.row = rows[i]]
             f4 == [f3 EXCEPT !.id = i]
             f5 == [f4 EXCEPT !.next = ~rows[i].enable]
  <2>3. fetch' = [fetch EXCEPT ![s] = f5]
    BY <1>2, Zenon DEF OnToggleEnable
  <2>4. f1 \in Fetched /\ f1.st = "sent" /\ f1.full = NoClient
    BY NotFetchingTyped, FetchSt, Zenon
  <2> HIDE DEF f1
  <2>5. f2 \in Fetched /\ f2.st = "sent" /\ f2.full = NoClient
    BY <2>4, FetchFor, Zenon
  <2> HIDE DEF f2
  <2>6. f3 \in Fetched /\ f3.st = "sent" /\ f3.full = NoClient /\ f3.row = rows[i]
    BY <2>1, <2>5, FetchRow, Zenon
  <2> HIDE DEF f3
  <2>7. f4 \in Fetched /\ f4.st = "sent" /\ f4.full = NoClient /\ f4.row = rows[i] /\ f4.id = i
    BY <2>1, <2>6, FetchId, Zenon
  <2> HIDE DEF f4
  <2>8. f5 \in Fetched /\ f5.st = "sent" /\ f5.full = NoClient /\ f5.row = rows[i] /\ f5.id = i
    BY <2>2, <2>7, FetchNext, Zenon
  <2> HIDE DEF f5
  <2>9. Given(f5) = rows[i]
    BY <2>8, Zenon DEF Given
  <2>10. f5.id \in Ids /\ Same(f5.id, Given(f5).sub) /\ f5.st # "update"
    BY <2>1, <2>8, <2>9, Zenon
  <2> QED BY <1>0, <2>3, <2>8, <2>10, OneFetch, Zenon
<1>3. ASSUME NEW s \in Slots, Hydrate(s) PROVE FetchOK'
  <2>1. fetch[s].st = "sent" /\ fetch[s] \in Fetched
    BY <1>0, <1>3, Zenon DEF Hydrate
  <2> DEFINE f1 == [fetch[s] EXCEPT !.st = "answered"]
  <2>2. /\ f1 \in Fetched /\ f1.st = "answered" /\ f1.id = fetch[s].id
        /\ f1.row = fetch[s].row /\ f1.full = fetch[s].full
    BY <2>1, FetchSt, Zenon
  <2>3. ASSUME NEW i \in Holders(fetch[s].row.email),
               fetch' = [fetch EXCEPT ![s] = [@ EXCEPT !.st = "answered", !.id = i, !.full = server[i]]]
        PROVE  FetchOK'
    <3>1. i \in Ids /\ server[i] # NoClient /\ server[i] \in Clients
      BY <1>0, HolderRow, Zenon
    <3>2. i \in IdOrNone /\ server[i] \in ClientOrNone /\ i \in used
      BY <1>0, <3>1, Zenon DEF IdOrNone, ClientOrNone, ServerOK
    <3> DEFINE f2 == [f1 EXCEPT !.id = i]
               f3 == [f2 EXCEPT !.full = server[i]]
    <3>3. fetch' = [fetch EXCEPT ![s] = f3]
      BY <2>3, Zenon
    <3> HIDE DEF f1
    <3>4. f2 \in Fetched /\ f2.st = "answered" /\ f2.id = i
      BY <2>2, <3>2, FetchId, Zenon
    <3> HIDE DEF f2
    <3>5. f3 \in Fetched /\ f3.st = "answered" /\ f3.id = i /\ f3.full = server[i]
      BY <3>2, <3>4, FetchFull, Zenon
    <3> HIDE DEF f3
    <3>6. Given(f3) = server[i]
      BY <3>1, <3>5, Zenon DEF Given
    <3>7. f3.id \in Ids /\ Same(f3.id, Given(f3).sub) /\ f3.st # "update"
      BY <3>1, <3>2, <3>5, <3>6, Zenon DEF Same
    <3> QED BY <1>0, <3>3, <3>5, <3>7, OneFetch, Zenon
  <2>4. CASE fetch' = [fetch EXCEPT ![s].st = "answered"]
    <3>1. fetch' = [fetch EXCEPT ![s] = f1]
      BY <2>4, Zenon
    <3> HIDE DEF f1
    <3>2. Given(f1) = Given(fetch[s])
      BY <2>2, Zenon DEF Given
    <3>3. fetch[s].id \in Ids /\ Same(fetch[s].id, Given(fetch[s]).sub)
      BY <1>0, <2>1, Zenon DEF FetchOK
    <3>4. f1.id \in Ids /\ Same(f1.id, Given(f1).sub) /\ f1.st # "update"
      BY <2>2, <3>2, <3>3, Zenon
    <3> QED BY <1>0, <2>2, <3>1, <3>4, OneFetch, Zenon
  <2> QED BY <1>3, <2>3, <2>4, Zenon DEF Hydrate
<1>4. ASSUME NEW s \in Slots, fetch' = [fetch EXCEPT ![s] = NotFetching] PROVE FetchOK'
  <2>1. NotFetching.st # "update"
    BY NotFetchingTyped, Zenon
  <2> QED BY <1>0, <1>4, <2>1, NotFetchingTyped, OneFetch, Zenon
<1>5. ASSUME NEW s \in Slots, NEW v \in {"update", "written"}, fetch[s].st \in {"answered", "update"},
             v = "update" => fetch[s].full # NoClient, fetch' = [fetch EXCEPT ![s].st = v]
      PROVE  FetchOK'
  <2>1. /\ fetch[s] \in Fetched /\ fetch[s].id \in Ids /\ Same(fetch[s].id, Given(fetch[s]).sub)
    <3>1. fetch[s].st # "none"
      BY <1>5, Zenon
    <3> QED BY <1>0, <3>1, Zenon DEF FetchOK
  <2> DEFINE f == [fetch[s] EXCEPT !.st = v]
  <2>2. v \in {"none", "sent", "answered", "update", "written"} /\ v # "none"
    BY <1>5, Zenon
  <2>3. /\ f \in Fetched /\ f.st = v /\ f.id = fetch[s].id /\ f.row = fetch[s].row
        /\ f.full = fetch[s].full
    BY <2>1, <2>2, FetchSt, Zenon
  <2>4. fetch' = [fetch EXCEPT ![s] = f]
    BY <1>5, Zenon
  <2> HIDE DEF f
  <2>5. Given(f) = Given(fetch[s])
    BY <2>3, Zenon DEF Given
  <2>6. f.id \in Ids /\ Same(f.id, Given(f).sub) /\ (f.st = "update" => f.full # NoClient)
    BY <1>5, <2>1, <2>3, <2>5, Zenon
  <2> QED BY <1>0, <2>3, <2>4, <2>6, OneFetch, Zenon
<1>6. ASSUME NEW s \in Slots, OpenEdit(s) PROVE FetchOK'
  BY <1>4, <1>6, Zenon DEF OpenEdit
<1>7. ASSUME NEW s \in Slots, Toggle(s) PROVE FetchOK'
  BY <1>4, <1>5, <1>7, Zenon DEF Toggle
<1>8. ASSUME NEW s \in Slots, ToggleUpdate(s) PROVE FetchOK'
  BY <1>5, <1>8, Zenon DEF ToggleUpdate
<1>9. ASSUME NEW s \in Slots, ToggleReturns(s) PROVE FetchOK'
  BY <1>4, <1>9, Zenon DEF ToggleReturns
<1>10. CASE fetch' = fetch
  <2>1. \A i, v : Same(i, v) => Same(i, v)'
    BY SameStays, Zenon
  <2>2. \A s \in Slots : /\ fetch[s].st # "none" => fetch[s].id \in Ids /\ Same(fetch[s].id, Given(fetch[s]).sub)
                         /\ fetch[s].st = "update" => fetch[s].full # NoClient
    BY <1>0, Zenon DEF FetchOK
  <2>3. ASSUME NEW s \in Slots, NEW g, g = fetch'[s]
        PROVE  /\ g.st # "none" => g.id \in Ids /\ Same(g.id, Given(g).sub)'
               /\ g.st = "update" => g.full # NoClient
    BY <1>10, <2>1, <2>2, <2>3, Zenon
  <2> QED BY <1>0, <1>10, <2>3, Zenon DEF FetchOK, Same
<1> QED BY <1>1, <1>2, <1>3, <1>6, <1>7, <1>8, <1>9, <1>10, Zenon DEF ClientsNext, clientsVars, RefetchList,
   OnAdd, Change, CloseForm, OnSubmit, ServerUpdates, ServerCreates,
   ServerMoves, ServerSetsLinks, SaveGoesOn, SaveFails, OpenConfirm, AnswerConfirm, ServerBulk, OtherAdmin

-----------------------------------------------------------------------------
(* The dialog.                                                             *)

LEMMA NoDialogTyped ==
    /\ NoDialog \in Forms /\ ~NoDialog.open /\ NoDialog.mode = "add" /\ NoDialog.base = NoClient
    /\ NoDialog.seed = NoClient /\ NoDialog.changed = {}
BY BlankTyped, SMT DEF NoDialog, Forms, ClientOrNone, IdOrNone

\* What a dialog must be.
Right(d) ==
    /\ d \in Forms
    /\ d.open /\ d.mode = "edit" => /\ d.client # NoClient /\ d.seed \in Ids
                                    /\ "sub" \notin d.changed => Same(d.seed, d.form.sub)
    /\ Kept(d.form, d.base, d.changed)
    /\ d.base # NoClient /\ "adTag" \notin d.changed => d.form.adTag = d.base.adTag

LEMMA DialogRight ==
    ASSUME Kin, NEW d, Right(d), clientDialog' = d
    PROVE  DialogOK'
<1>1. \A i, v : Same(i, v) => Same(i, v)'
  BY SameStays, Zenon
<1> QED BY <1>1, Zenon DEF Right, DialogOK, Same, Kept

LEMMA ClosedRight ==
    ASSUME NEW mode \in {"add", "edit"}
    PROVE  Right(ClosedIn(mode))
<1> DEFINE d == [NoDialog EXCEPT !.mode = mode]
<1>1. d \in Forms /\ ~d.open /\ d.base = NoClient
  BY NoDialogTyped, FormMode, Zenon
<1>2. ClosedIn(mode) = d
  BY Zenon DEF ClosedIn
<1> HIDE DEF d
<1> QED BY <1>1, <1>2, Zenon DEF Right, Kept

LEMMA DialogIsRight ==
    ASSUME DialogOK
    PROVE  Right(clientDialog)
BY Zenon DEF DialogOK, Right

\* The dialog is given a client.
Give(g, c) == [g EXCEPT !.open = TRUE, !.client = c, !.attached = c.inbounds]

LEMMA GivenDialog ==
    ASSUME NEW g \in Forms, NEW c \in Clients
    PROVE  LET d == Give(g, c)
           IN  /\ d \in Forms /\ d.open /\ d.client = c /\ d.mode = g.mode /\ d.form = g.form
               /\ d.seed = g.seed /\ d.base = g.base /\ d.changed = g.changed
<1> DEFINE d1 == [g EXCEPT !.open = TRUE]
           d2 == [d1 EXCEPT !.client = c]
           ids == c.inbounds
           d3 == [d2 EXCEPT !.attached = ids]
<1>1. c \in ClientOrNone /\ ids \in SUBSET Inbounds
  BY SMT DEF ClientOrNone, Clients
<1>2. /\ d1 \in Forms /\ d1.open /\ d1.mode = g.mode /\ d1.form = g.form
      /\ d1.seed = g.seed /\ d1.base = g.base /\ d1.changed = g.changed
  BY Flags, FormOpen, Zenon
<1>3. Give(g, c) = d3
  BY Zenon DEF Give
<1> HIDE DEF d1, ids
<1>4. /\ d2 \in Forms /\ d2.open /\ d2.client = c /\ d2.mode = g.mode /\ d2.form = g.form
      /\ d2.seed = g.seed /\ d2.base = g.base /\ d2.changed = g.changed
  BY <1>1, <1>2, FormClient, Zenon
<1> HIDE DEF d2
<1>5. /\ d3 \in Forms /\ d3.open = d2.open /\ d3.client = d2.client /\ d3.mode = d2.mode
      /\ d3.form = d2.form /\ d3.seed = d2.seed /\ d3.base = d2.base /\ d3.changed = d2.changed
  <2>1. d2 \in Forms /\ ids \in SUBSET Inbounds
    BY <1>1, <1>4, Zenon
  <2> QED BY <2>1, FormAttached, Zenon
<1> HIDE DEF d3
<1> QED BY <1>3, <1>4, <1>5, Zenon

\* And the form is filled.
Fill(g, form, seed, base) == [g EXCEPT !.form = form, !.seed = seed, !.base = base, !.changed = {}]

LEMMA FilledDialog ==
    ASSUME NEW g \in Forms, NEW form \in Clients, NEW seed \in IdOrNone, NEW base \in ClientOrNone
    PROVE  LET d == Fill(g, form, seed, base)
           IN  /\ d \in Forms /\ d.open = g.open /\ d.client = g.client /\ d.mode = g.mode
               /\ d.form = form /\ d.seed = seed /\ d.base = base /\ d.changed = {}
<1> DEFINE d1 == [g EXCEPT !.form = form]
           d2 == [d1 EXCEPT !.seed = seed]
           d3 == [d2 EXCEPT !.base = base]
           d4 == [d3 EXCEPT !.changed = {}]
<1>1. /\ d1 \in Forms /\ d1.open = g.open /\ d1.client = g.client /\ d1.mode = g.mode
      /\ d1.form = form
  BY FormForm, Zenon
<1>2. Fill(g, form, seed, base) = d4
  BY Zenon DEF Fill
<1> HIDE DEF d1
<1>3. /\ d2 \in Forms /\ d2.open = g.open /\ d2.client = g.client /\ d2.mode = g.mode
      /\ d2.form = form /\ d2.seed = seed
  BY <1>1, FormSeed, Zenon
<1> HIDE DEF d2
<1>4. /\ d3 \in Forms /\ d3.open = g.open /\ d3.client = g.client /\ d3.mode = g.mode
      /\ d3.form = form /\ d3.seed = seed /\ d3.base = base
  BY <1>3, FormBase, Zenon
<1> HIDE DEF d3
<1>5. {} \in SUBSET Fields
  BY Zenon
<1>6. /\ d4 \in Forms /\ d4.open = g.open /\ d4.client = g.client /\ d4.mode = g.mode
      /\ d4.form = form /\ d4.seed = seed /\ d4.base = base /\ d4.changed = {}
  BY <1>4, <1>5, FormChanged, Zenon
<1> HIDE DEF d4
<1> QED BY <1>2, <1>6, Zenon

LEMMA DialogStays ==
    ASSUME ClientsInv, Kin, [ClientsNext]_clientsVars
    PROVE  DialogOK'
<1>0. /\ ServerOK /\ FetchOK /\ DialogOK /\ clientDialog \in Forms /\ Right(clientDialog)
      /\ clientDialog.mode \in {"add", "edit"}
  <2>1. ServerOK /\ FetchOK /\ DialogOK /\ clientDialog \in Forms
    BY Zenon DEF ClientsInv, DialogOK
  <2>2. clientDialog.mode \in {"add", "edit"}
    BY <2>1, SMT DEF Forms
  <2> QED BY <2>1, <2>2, DialogIsRight, Zenon
<1>1. ASSUME NEW s \in Slots, NEW i \in Ids, OnEdit(s, i) PROVE DialogOK'
  <2> DEFINE d == [clientDialog EXCEPT !.mode = "edit"]
  <2>1. clientDialog' = d /\ ~clientDialog.open
    BY <1>1, Zenon DEF OnEdit
  <2>2. /\ d \in Forms /\ d.open = clientDialog.open /\ d.form = clientDialog.form
        /\ d.base = clientDialog.base /\ d.changed = clientDialog.changed
    BY <1>0, FormMode, Zenon
  <2> HIDE DEF d
  <2>3. Right(d)
    BY <1>0, <2>1, <2>2, Zenon DEF Right
  <2> QED BY <2>1, <2>3, DialogRight, Zenon
<1>2. ASSUME NEW s \in Slots, OpenEdit(s) PROVE DialogOK'
  <2>1. fetch[s] \in Fetched /\ fetch[s].id \in Ids /\ Same(fetch[s].id, Given(fetch[s]).sub)
    BY <1>0, <1>2, Zenon DEF FetchOK, OpenEdit
  <2>2. /\ Given(fetch[s]) \in Clients /\ fetch[s].full \in ClientOrNone
        /\ fetch[s].id \in IdOrNone
    BY <2>1, SMT DEF Fetched, ClientOrNone, Given
  <2> DEFINE c == Given(fetch[s])
             given == Give(clientDialog, c)
  <2>3. /\ c = IF fetch[s].full # NoClient THEN fetch[s].full ELSE fetch[s].row
        /\ fetch[s].full # NoClient => c = fetch[s].full
    BY Zenon DEF Given
  <2>4. \/ clientDialog.open /\ clientDialog' = given
        \/ /\ ~clientDialog.open /\ clientDialog.mode = "edit"
           /\ \E form \in Rekeyed(Seed(c)) :
                clientDialog' = Fill(given, form, fetch[s].id, fetch[s].full)
        \/ /\ ~clientDialog.open /\ clientDialog.mode = "add"
           /\ \E form \in NewForms : clientDialog' = Fill(given, form, NoClient, NoClient)
    BY <1>2, <2>3, Zenon DEF OpenEdit, Give, Fill
  <2>5. c \in Clients /\ c # NoClient
    BY <2>2, Apart, Zenon
  <2>6. /\ given \in Forms /\ given.open /\ given.client = c /\ given.mode = clientDialog.mode
        /\ given.form = clientDialog.form /\ given.seed = clientDialog.seed
        /\ given.base = clientDialog.base /\ given.changed = clientDialog.changed
    <3> HIDE DEF c
    <3> QED BY <1>0, <2>5, GivenDialog, Zenon
  <2> HIDE DEF given
  <2>7. CASE clientDialog.open /\ clientDialog' = given
    <3>1. Right(given)
      BY <1>0, <2>5, <2>6, <2>7, Zenon DEF Right
    <3> QED BY <2>7, <3>1, DialogRight, Zenon
  <2>8. ASSUME NEW form \in Rekeyed(Seed(c)), clientDialog.mode = "edit",
               clientDialog' = Fill(given, form, fetch[s].id, fetch[s].full)
        PROVE  DialogOK'
    <3> HIDE DEF c
    <3>1. /\ form \in Clients /\ form.email = c.email /\ form.sub = c.sub /\ form.data = Rounded(c.data)
          /\ form.enable = c.enable /\ form.adTag = c.adTag /\ form.inbounds = c.inbounds
          /\ ~Misfit(c.key, c.inbounds) => form.key = c.key
          /\ c.inbounds \cap FlowCapable # {} => form.flow = c.flow
      BY <2>5, SeedRow, Zenon
    <3> DEFINE d == Fill(given, form, fetch[s].id, fetch[s].full)
    <3>2. clientDialog' = d
      BY <2>8, Zenon
    <3>3. /\ d \in Forms /\ d.client = given.client /\ d.form = form /\ d.seed = fetch[s].id
          /\ d.base = fetch[s].full /\ d.changed = {}
      <4>1. /\ given \in Forms /\ form \in Clients /\ fetch[s].id \in IdOrNone
            /\ fetch[s].full \in ClientOrNone
        BY <2>2, <2>6, <3>1, Zenon
      <4> QED BY <4>1, FilledDialog, SMT
    <3> HIDE DEF d
    <3>4. Same(d.seed, d.form.sub) /\ d.seed \in Ids /\ d.client # NoClient
      BY <2>1, <2>5, <2>6, <3>1, <3>3, Zenon DEF c
    <3>5. Kept(d.form, d.base, d.changed) /\ (d.base # NoClient => d.form.adTag = d.base.adTag)
      BY <2>3, <3>1, <3>3, Zenon DEF Kept
    <3>6. Right(d)
      BY <3>3, <3>4, <3>5, Zenon DEF Right
    <3> QED BY <3>2, <3>6, DialogRight, Zenon
  <2>9. ASSUME NEW form \in NewForms, clientDialog.mode = "add",
               clientDialog' = Fill(given, form, NoClient, NoClient)
        PROVE  DialogOK'
    <3> HIDE DEF c
    <3>1. form \in Clients /\ NoClient \in IdOrNone /\ NoClient \in ClientOrNone
      BY NewFormRow, Zenon DEF IdOrNone, ClientOrNone
    <3> DEFINE d == Fill(given, form, NoClient, NoClient)
    <3>2. d \in Forms /\ d.mode = given.mode /\ d.base = NoClient
      <4>1. given \in Forms
        BY <2>6, Zenon
      <4> QED BY <3>1, <4>1, FilledDialog, SMT
    <3>3. clientDialog' = d
      BY <2>9, Zenon
    <3> HIDE DEF d
    <3>4. Right(d)
      <4>1. d.mode # "edit"
        BY <2>6, <2>9, <3>2, Zenon
      <4> QED BY <3>2, <4>1, Zenon DEF Right, Kept
    <3> QED BY <3>3, <3>4, DialogRight, Zenon
  <2> QED BY <2>4, <2>7, <2>8, <2>9, Zenon
<1>3. ASSUME OnAdd PROVE DialogOK'
  <2>1. PICK form \in NewForms : clientDialog' = [NoDialog EXCEPT !.open = TRUE, !.form = form]
    BY <1>3, Zenon DEF OnAdd
  <2>2. form \in Clients
    BY NewFormRow, Zenon
  <2> DEFINE d1 == [NoDialog EXCEPT !.open = TRUE]
             d2 == [d1 EXCEPT !.form = form]
  <2>3. d1 \in Forms /\ d1.mode = "add" /\ d1.base = NoClient
    BY NoDialogTyped, Flags, FormOpen, Zenon
  <2>4. clientDialog' = d2
    BY <2>1, Zenon
  <2> HIDE DEF d1
  <2>5. d2 \in Forms /\ d2.mode = "add" /\ d2.base = NoClient
    BY <2>2, <2>3, FormForm, Zenon
  <2> HIDE DEF d2
  <2>6. Right(d2)
    <3>1. d2.mode # "edit"
      BY <2>5, Zenon
    <3> QED BY <2>5, <3>1, Zenon DEF Right, Kept
  <2> QED BY <2>4, <2>6, DialogRight, Zenon
<1>4. ASSUME Change PROVE DialogOK'
  <2>0. PICK field \in Fields :
           \E form \in Changed(field) :
              clientDialog' = [clientDialog EXCEPT !.form = form, !.changed = @ \cup {field}]
    BY <1>4, Zenon DEF Change
  <2>1. PICK form \in Changed(field) :
           clientDialog' = [clientDialog EXCEPT !.form = form, !.changed = @ \cup {field}]
    BY <2>0
  <2>2. clientDialog.form \in Clients /\ clientDialog.changed \cup {field} \in SUBSET Fields
    <3>1. clientDialog.form \in Clients /\ clientDialog.changed \in SUBSET Fields
      BY <1>0, SMT DEF Forms
    <3> QED BY <3>1, Zenon
  <2>3. /\ form \in Clients
        /\ field # "email" => form.email = clientDialog.form.email
        /\ field # "sub" => form.sub = clientDialog.form.sub
        /\ field # "data" => form.data = clientDialog.form.data
        /\ field # "enable" => form.enable = clientDialog.form.enable
        /\ field # "adTag" => form.adTag = clientDialog.form.adTag
        /\ field # "inbounds" => form.inbounds = clientDialog.form.inbounds
        /\ field # "key" /\ field # "inbounds" => form.key = clientDialog.form.key
        /\ field # "flow" /\ field # "inbounds" => form.flow = clientDialog.form.flow
    BY <2>2, ChangedForm
  <2> DEFINE d1 == [clientDialog EXCEPT !.form = form]
             d2 == [d1 EXCEPT !.changed = clientDialog.changed \cup {field}]
  <2>4. /\ d1 \in Forms /\ d1.open = clientDialog.open /\ d1.mode = clientDialog.mode
        /\ d1.client = clientDialog.client /\ d1.form = form /\ d1.seed = clientDialog.seed
        /\ d1.base = clientDialog.base
    BY <1>0, <2>3, FormForm, Zenon
  <2>5. clientDialog' = d2
    BY <2>1, Zenon
  <2> HIDE DEF d1
  <2>6. /\ d2 \in Forms /\ d2.open = clientDialog.open /\ d2.mode = clientDialog.mode
        /\ d2.client = clientDialog.client /\ d2.form = form /\ d2.seed = clientDialog.seed
        /\ d2.base = clientDialog.base /\ d2.changed = clientDialog.changed \cup {field}
    BY <2>2, <2>4, FormChanged, Zenon
  <2> HIDE DEF d2
  <2>7. \A n : n \notin d2.changed => n \notin clientDialog.changed /\ n # field
    BY <2>6, Zenon
  <2>8. /\ Kept(d2.form, d2.base, d2.changed)
        /\ d2.base # NoClient /\ "adTag" \notin d2.changed => d2.form.adTag = d2.base.adTag
    <3>1. /\ Kept(clientDialog.form, clientDialog.base, clientDialog.changed)
          /\ clientDialog.base # NoClient /\ "adTag" \notin clientDialog.changed =>
               clientDialog.form.adTag = clientDialog.base.adTag
      BY <1>0, Zenon DEF Right
    <3>2. d2.form = form /\ d2.base = clientDialog.base
      BY <2>6, Zenon
    <3> QED BY <2>3, <2>7, <3>1, <3>2, Zenon DEF Kept
  <2>9. d2.open /\ d2.mode = "edit" =>
          /\ d2.client # NoClient /\ d2.seed \in Ids
          /\ "sub" \notin d2.changed => Same(d2.seed, d2.form.sub)
    BY <1>0, <2>3, <2>6, <2>7, Zenon DEF Right
  <2>10. Right(d2)
    BY <2>6, <2>8, <2>9, Zenon DEF Right
  <2> QED BY <2>5, <2>10, DialogRight, Zenon
<1>5. CASE clientDialog' = ClosedIn(clientDialog.mode)
  BY <1>0, <1>5, ClosedRight, DialogRight, Zenon
<1>6. CASE clientDialog' = clientDialog
  BY <1>0, <1>6, DialogRight, Zenon
<1> QED BY <1>1, <1>2, <1>3, <1>4, <1>5, <1>6, Zenon DEF ClientsNext, clientsVars, RefetchList, OnToggleEnable,
   Hydrate, Toggle, ToggleUpdate, ToggleReturns, CloseForm, OnSubmit, ServerUpdates, ServerCreates,
   ServerMoves, ServerSetsLinks, SaveGoesOn, SaveFails, OpenConfirm, AnswerConfirm, ServerBulk, OtherAdmin

-----------------------------------------------------------------------------
(* The save.                                                               *)

LEMMA NotSavingTyped ==
    /\ NotSaving \in Onsaves /\ NotSaving.st = "none" /\ NotSaving.at = "sent"
    /\ NotSaving.attach = {} /\ NotSaving.detach = {} /\ NotSaving.base = NoClient
BY BlankTyped, SMT DEF NotSaving, Onsaves, SaveSteps, ClientOrNone, IdOrNone

\* A step of the save keeps what was asked for.
Carries(r) ==
    /\ r \in Onsaves /\ r.email = save.email /\ r.payload = save.payload
    /\ r.attach = save.attach /\ r.detach = save.detach /\ r.seed = save.seed
    /\ r.base = save.base /\ r.changed = save.changed

\* What a save must be.
Asked(r) ==
    /\ r \in Onsaves
    /\ r.st = "update" => /\ r.seed \in Ids
                          /\ "sub" \notin r.changed => Same(r.seed, r.payload.sub)
    /\ Kept(r.payload, r.base, r.changed)
    /\ r.base # NoClient /\ "adTag" \notin r.changed /\ r.payload.inbounds \cap Mtproto # {} =>
         r.payload.adTag = r.base.adTag

LEMMA SaveAsked ==
    ASSUME Kin, NEW r, Asked(r), save' = r
    PROVE  SaveOK'
<1>1. \A i, v : Same(i, v) => Same(i, v)'
  BY SameStays, Zenon
<1> QED BY <1>1, Zenon DEF Asked, SaveOK, Same, Kept

LEMMA Carried ==
    ASSUME Kin, SaveOK, NEW r, Carries(r), r.st = "update" => save.st = "update", save' = r
    PROVE  SaveOK'
<1>1. Asked(r)
  BY Zenon DEF SaveOK, Carries, Kept, Asked
<1> QED BY <1>1, SaveAsked, Zenon

LEMMA AtStep ==
    ASSUME SaveOK, NEW v \in {"sent", "ok", "no"}
    PROVE  LET d == [save EXCEPT !.at = v]
           IN  /\ Carries(d) /\ d.at = v /\ d.st = save.st /\ d.id = save.id
               /\ d.alone = save.alone /\ d.had = save.had /\ d.made = save.made
<1> DEFINE d == [save EXCEPT !.at = v]
<1>1. save \in Onsaves
  BY Zenon DEF SaveOK
<1>2. /\ d \in Onsaves /\ d.at = v /\ d.st = save.st /\ d.id = save.id
      /\ d.alone = save.alone /\ d.had = save.had /\ d.made = save.made
      /\ d.email = save.email /\ d.payload = save.payload /\ d.attach = save.attach
      /\ d.detach = save.detach /\ d.seed = save.seed /\ d.base = save.base /\ d.changed = save.changed
  BY <1>1, SaveAt, Zenon
<1> HIDE DEF d
<1>3. Carries(d)
  BY <1>2, Zenon DEF Carries
<1> QED BY <1>2, <1>3, Zenon DEF d

\* The first request has written the row i, which had these inbounds.
FirstAnswer(v, i, had) == [save EXCEPT !.at = v, !.id = i, !.had = had]

LEMMA FirstStep ==
    ASSUME SaveOK, NEW v \in {"sent", "ok", "no"}, NEW i \in Ids, NEW had \in SUBSET Inbounds,
           NEW d, d = FirstAnswer(v, i, had)
    PROVE  /\ Carries(d) /\ d.at = v /\ d.st = save.st /\ d.id = i
           /\ d.alone = save.alone /\ d.had = had /\ d.made = save.made
<1> DEFINE d1 == [save EXCEPT !.at = v]
           d2 == [d1 EXCEPT !.id = i]
           d3 == [d2 EXCEPT !.had = had]
<1>1. i \in IdOrNone
  BY Zenon DEF IdOrNone
<1>2. Carries(d1) /\ d1.at = v /\ d1.st = save.st /\ d1.alone = save.alone /\ d1.made = save.made
  BY AtStep, Zenon
<1>3. d = d3
  BY Zenon DEF FirstAnswer
<1> HIDE DEF d1
<1>4. /\ d2 \in Onsaves /\ d2.id = i /\ d2.at = d1.at /\ d2.st = d1.st /\ d2.alone = d1.alone
      /\ d2.made = d1.made
      /\ d2.email = d1.email /\ d2.payload = d1.payload /\ d2.attach = d1.attach
      /\ d2.detach = d1.detach /\ d2.seed = d1.seed /\ d2.base = d1.base /\ d2.changed = d1.changed
  <2>1. d1 \in Onsaves
    BY <1>2, Zenon DEF Carries
  <2> QED BY <1>1, <2>1, SaveId, Zenon
<1> HIDE DEF d2
<1>5. /\ d3 \in Onsaves /\ d3.had = had /\ d3.id = d2.id /\ d3.at = d2.at /\ d3.st = d2.st
      /\ d3.alone = d2.alone /\ d3.made = d2.made
      /\ d3.email = d2.email /\ d3.payload = d2.payload /\ d3.attach = d2.attach
      /\ d3.detach = d2.detach /\ d3.seed = d2.seed /\ d3.base = d2.base /\ d3.changed = d2.changed
  BY <1>4, SaveHad, Zenon
<1> HIDE DEF d3
<1>6. Carries(d3)
  BY <1>2, <1>4, <1>5, Zenon DEF Carries
<1> QED BY <1>2, <1>3, <1>4, <1>5, <1>6, Zenon

LEMMA StStep ==
    ASSUME SaveOK, NEW st \in SaveSteps
    PROVE  LET d == [save EXCEPT !.st = st, !.at = "sent"]
           IN  /\ Carries(d) /\ d.at = "sent" /\ d.st = st /\ d.id = save.id
               /\ d.alone = save.alone /\ d.had = save.had /\ d.made = save.made
<1> DEFINE d1 == [save EXCEPT !.st = st]
           d2 == [d1 EXCEPT !.at = "sent"]
<1>1. save \in Onsaves
  BY Zenon DEF SaveOK
<1>2. /\ d1 \in Onsaves /\ d1.st = st /\ d1.id = save.id
      /\ d1.alone = save.alone /\ d1.had = save.had /\ d1.made = save.made
      /\ d1.email = save.email /\ d1.payload = save.payload /\ d1.attach = save.attach
      /\ d1.detach = save.detach /\ d1.seed = save.seed /\ d1.base = save.base /\ d1.changed = save.changed
  BY <1>1, SaveSt, Zenon
<1>3. [save EXCEPT !.st = st, !.at = "sent"] = d2
  BY Zenon
<1> HIDE DEF d1
<1>4. /\ d2 \in Onsaves /\ d2.at = "sent" /\ d2.id = d1.id /\ d2.st = d1.st
      /\ d2.alone = d1.alone /\ d2.had = d1.had /\ d2.made = d1.made
      /\ d2.email = d1.email /\ d2.payload = d1.payload /\ d2.attach = d1.attach
      /\ d2.detach = d1.detach /\ d2.seed = d1.seed /\ d2.base = d1.base /\ d2.changed = d1.changed
  BY <1>2, SaveAt, Zenon
<1> HIDE DEF d2
<1> QED BY <1>2, <1>3, <1>4, Zenon DEF Carries

LEMMA AloneStep ==
    ASSUME SaveOK
    PROVE  LET d == [save EXCEPT !.alone = FALSE]
           IN  /\ Carries(d) /\ d.at = save.at /\ d.st = save.st /\ d.id = save.id /\ ~d.alone
               /\ d.had = save.had /\ d.made = save.made
<1> DEFINE d == [save EXCEPT !.alone = FALSE]
<1>1. save \in Onsaves
  BY Zenon DEF SaveOK
<1>2. /\ d \in Onsaves /\ d.at = save.at /\ d.st = save.st /\ d.id = save.id
      /\ ~d.alone /\ d.had = save.had /\ d.made = save.made
      /\ d.email = save.email /\ d.payload = save.payload /\ d.attach = save.attach
      /\ d.detach = save.detach /\ d.seed = save.seed /\ d.base = save.base /\ d.changed = save.changed
  BY <1>1, Flags, SaveAlone, Zenon
<1> HIDE DEF d
<1>3. Carries(d)
  BY <1>2, Zenon DEF Carries
<1> QED BY <1>2, <1>3, Zenon DEF d

\* The row that a save has written is left alone, or "alone" says it is not.
LEMMA RowLeft ==
    ASSUME Kin, SaveOK, StagesOK, NEW r, save' = r, Carries(r),
           r.st = save.st, r.at = save.at, r.id = save.id, r.had = save.had, r.made = save.made,
           r.alone => save.alone /\ (save.id \in Ids => server'[save.id] = server[save.id])
    PROVE  SaveOK' /\ StagesOK'
<1>1. SaveOK'
  BY Carried, Zenon
<1>2. Stages(r, server')
  <2>1. /\ r.payload = save.payload /\ r.attach = save.attach /\ r.detach = save.detach
        /\ r.st = save.st /\ r.at = save.at /\ r.id = save.id /\ r.had = save.had /\ r.made = save.made
    BY Zenon DEF Carries
  <2>2. /\ r.attach \cap r.detach = {}
        /\ r.st = "create" => r.attach = {} /\ r.detach = {}
        /\ r.st = "none" => r.at = "sent"
        /\ r.st = "update" => r.made = "edit"
        /\ r.st \in {"update", "create"} /\ r.at = "sent" => r.id = NoClient
        /\ FirstDone(r) => FirstDone(save) /\ r.id \in Ids
    BY <2>1, Zenon DEF StagesOK, Stages, FirstDone
  <2>3. FirstDone(r) /\ r.alone /\ r.made # "known" => StoredSoFar(save, server'[r.id])
    BY <2>1, <2>2, Zenon DEF StagesOK, Stages
  <2>4. \A c : StoredSoFar(save, c) => StoredSoFar(r, c)
    BY <2>1, SMT DEF StoredSoFar
  <2> QED BY <2>2, <2>3, <2>4, Zenon DEF Stages
<1> QED BY <1>1, <1>2, Zenon DEF StagesOK

\* The row has just been written, or the request has failed.
LEMMA FirstWritten ==
    ASSUME Kin, SaveOK, StagesOK, save.st \in {"update", "create"}, NEW i \in Ids, NEW r, save' = r,
           Carries(r), r.at = "ok", r.st = save.st, r.id = i, r.st = "update" => r.made = "edit",
           r.made # "known" =>
             /\ server'[i] # NoClient /\ server'[i].email = save.payload.email
             /\ server'[i].adTag = save.payload.adTag
             /\ r.made = "edit" => server'[i].enable = save.payload.enable
             /\ r.made = "new" => server'[i].enable = TRUE
             /\ r.had # {} => server'[i].sub = save.payload.sub /\ server'[i].data = save.payload.data
             /\ r.had # {} /\ save.payload.key # "none" /\ ~Misfit(save.payload.key, r.had) =>
                  server'[i].key = save.payload.key
             /\ r.had \cap FlowCapable # {} => server'[i].flow = save.payload.flow
             /\ r.had \subseteq server'[i].inbounds
             /\ save.st = "create" => server'[i].links = "none"
    PROVE  SaveOK' /\ StagesOK'
<1>1. Stages(r, server')
  <2>1. ASSUME r.made # "known"
        PROVE  StoredSoFar(r, server'[i])
    <3>1. r.st \notin {"detach", "links", "attach"} /\ r.payload = save.payload
      BY Zenon DEF Carries
    <3>2. ~Misfit(r.payload.key, r.had \cup r.attach) => ~Misfit(r.payload.key, r.had)
      <4>1. r.had \in SUBSET (r.had \cup r.attach)
        BY SMT
      <4> QED BY <4>1, FitsFewer, Zenon
    <3> QED BY <2>1, <3>1, <3>2, Zenon DEF StoredSoFar
  <2>2. /\ r.attach \cap r.detach = {}
        /\ r.st = "create" => r.attach = {} /\ r.detach = {}
        /\ r.st # "none" /\ r.at # "sent"
    BY Zenon DEF StagesOK, Stages, Carries
  <2> QED BY <2>1, <2>2, Zenon DEF Stages
<1>2. SaveOK'
  BY Carried, Zenon
<1> QED BY <1>1, <1>2, Zenon DEF StagesOK

\* A request has failed, on a row that keeps what was stored in it.
LEMMA NotDone ==
    ASSUME Kin, SaveOK, StagesOK, save.st # "none", save.at = "sent",
           save' = [save EXCEPT !.at = "no"],
           \/ save.st \in {"update", "create"}
           \/ server'[save.id] = server[save.id]
    PROVE  SaveOK' /\ StagesOK'
<1> DEFINE r == [save EXCEPT !.at = "no"]
<1>1. /\ Carries(r) /\ r.at = "no" /\ r.st = save.st /\ r.id = save.id
      /\ r.alone = save.alone /\ r.had = save.had /\ r.made = save.made
  BY AtStep, Zenon
<1>2. save' = r
  BY Zenon
<1> HIDE DEF r
<1>3. Stages(r, server')
  <2>1. CASE r.st \in {"update", "create"}
    BY <1>1, <2>1, Zenon DEF StagesOK, Stages, Carries, FirstDone
  <2>2. CASE server'[save.id] = server[save.id] /\ r.st \notin {"update", "create"}
    <3>1. FirstDone(r) /\ r.alone /\ r.made # "known" => StoredSoFar(r, server[save.id])
      <4>1. FirstDone(r) /\ r.alone /\ r.made # "known" => StoredSoFar(save, server[save.id])
        BY <1>1, Zenon DEF StagesOK, Stages, FirstDone
      <4>2. /\ r.payload = save.payload /\ r.attach = save.attach /\ r.detach = save.detach
            /\ r.st = save.st /\ r.at # "ok" /\ r.had = save.had /\ r.made = save.made
        BY <1>1, Zenon DEF Carries
      <4> QED BY <4>1, <4>2, Zenon DEF StoredSoFar
    <3>2. /\ r.attach \cap r.detach = {} /\ r.st # "create" /\ r.st # "none" /\ r.at # "sent"
          /\ FirstDone(r) => r.id \in Ids
      BY <1>1, <2>2, Zenon DEF StagesOK, Stages, Carries, FirstDone
    <3> QED BY <1>1, <2>2, <3>1, <3>2, Zenon DEF Stages
  <2> QED BY <1>1, <2>1, <2>2, Zenon
<1>4. SaveOK'
  BY <1>1, <1>2, Carried, Zenon
<1> QED BY <1>2, <1>3, <1>4, Zenon DEF StagesOK

LEMMA UpdateSave ==
    ASSUME ClientsInv, Kin, ServerUpdates
    PROVE  SaveOK' /\ StagesOK'
<1>0. /\ ServerOK /\ SaveOK /\ StagesOK /\ save.st = "update" /\ save.at = "sent"
      /\ save.payload \in Clients
  <2>1. ServerOK /\ SaveOK /\ StagesOK /\ save.st = "update" /\ save.at = "sent"
    BY Zenon DEF ClientsInv, ServerUpdates
  <2>2. save.payload \in Clients
    BY <2>1, SMT DEF SaveOK, Onsaves
  <2> QED BY <2>1, <2>2
<1>1. ASSUME NEW i \in Holders(save.email), WriteRow(i, Written(server[i], save.payload)),
             save' = [save EXCEPT !.at = "ok", !.id = i, !.had = server[i].inbounds]
      PROVE  SaveOK' /\ StagesOK'
  <2> DEFINE p == save.payload
             had == server[i].inbounds
             c == Written(server[i], p)
             r == FirstAnswer("ok", i, had)
  <2>1. i \in Ids /\ server[i] \in Clients /\ had \in SUBSET Inbounds /\ p \in Clients
    BY <1>0, HolderRow, RowFields, Zenon
  <2>2. /\ c \in Clients /\ c.email = p.email /\ c.enable = p.enable /\ c.adTag = p.adTag
        /\ c.inbounds = had
        /\ had # {} => /\ c.sub = p.sub /\ c.data = p.data
                       /\ c.key = Fitted(KeyOf(server[i], p), had)
                       /\ c.flow = FlowIn(p.flow, had)
    BY <2>1, WrittenRow, Zenon
  <2>3. had # {} /\ p.key # "none" /\ ~Misfit(p.key, had) => c.key = p.key
    <3>1. p.key \in Keys /\ (p.key # "none" => KeyOf(server[i], p) = p.key)
      BY <2>1, RowFields, KeySent, Zenon
    <3> QED BY <2>2, <3>1, KeyFits, Zenon
  <2>4. had \cap FlowCapable # {} => c.flow = p.flow
    <3>1. p.flow \in Flows
      BY <2>1, RowFields, Zenon
    <3>2. had \cap FlowCapable # {} => had # {} /\ FlowIn(p.flow, had) = p.flow
      BY <3>1, FlowKept, Zenon
    <3> QED BY <2>2, <3>2, Zenon
  <2>5. server'[i] = c
    <3>1. server' = [server EXCEPT ![i] = c] /\ server \in [Ids -> ClientOrNone]
      BY <1>0, <1>1, Zenon DEF WriteRow, ServerOK
    <3> HIDE DEF c
    <3> QED BY <2>1, <3>1, Zenon
  <2>6. c # NoClient
    BY <2>2, Apart, Zenon
  <2>7. save' = r
    BY <1>1, Zenon DEF FirstAnswer
  <2>8. Carries(r) /\ r.at = "ok" /\ r.st = save.st /\ r.id = i /\ r.had = had /\ r.made = save.made
    <3>1. "ok" \in {"sent", "ok", "no"} /\ r = FirstAnswer("ok", i, had)
      OBVIOUS
    <3> HIDE DEF had, r
    <3> QED BY <1>0, <2>1, <3>1, FirstStep, SMT
  <2> HIDE DEF c, had, r
  <2>9. r.made = "edit"
    BY <1>0, <2>8, Zenon DEF StagesOK, Stages
  <2>10. /\ server'[i] # NoClient /\ server'[i].email = p.email
         /\ server'[i].adTag = p.adTag /\ server'[i].enable = p.enable
         /\ r.had # {} => server'[i].sub = p.sub /\ server'[i].data = p.data
         /\ r.had # {} /\ p.key # "none" /\ ~Misfit(p.key, r.had) => server'[i].key = p.key
         /\ r.had \cap FlowCapable # {} => server'[i].flow = p.flow
         /\ r.had \subseteq server'[i].inbounds
    BY <2>2, <2>3, <2>4, <2>5, <2>6, <2>8, <2>9, Zenon
  <2> QED BY <1>0, <2>1, <2>7, <2>8, <2>9, <2>10, FirstWritten, Zenon
<1>2. CASE save' = [save EXCEPT !.at = "no"]
  BY <1>0, <1>2, NotDone, Zenon
<1> QED BY <1>1, <1>2, Zenon DEF ServerUpdates

LEMMA CreateSave ==
    ASSUME ClientsInv, Kin, ServerCreates
    PROVE  SaveOK' /\ StagesOK'
<1>0. /\ ServerOK /\ SaveOK /\ StagesOK /\ save.st = "create" /\ save.at = "sent"
      /\ save.payload \in Clients /\ save.payload.inbounds \in SUBSET Inbounds
  <2>1. ServerOK /\ SaveOK /\ StagesOK /\ save.st = "create" /\ save.at = "sent"
    BY Zenon DEF ClientsInv, ServerCreates
  <2>2. save.payload \in Clients
    BY <2>1, SMT DEF SaveOK, Onsaves
  <2> QED BY <2>1, <2>2, RowFields, Zenon
<1>1. ASSUME NEW i \in Ids, NEW done \in SUBSET Inbounds, NEW made \in {"new", "known"},
             made = "new" => server' = [server EXCEPT ![i] = NewClient(save.payload, done)],
             save' = [save EXCEPT !.at = IF done = save.payload.inbounds THEN "ok" ELSE "no",
                                  !.id = i, !.had = done, !.made = made]
      PROVE  SaveOK' /\ StagesOK'
  <2> DEFINE p == save.payload
             c == NewClient(p, done)
             v == IF done = save.payload.inbounds THEN "ok" ELSE "no"
             d == FirstAnswer(v, i, done)
             r == [d EXCEPT !.made = made]
  <2>1. v \in {"ok", "no"}
    BY Zenon
  <2>2. save' = r
    BY <1>1, Zenon DEF FirstAnswer
  <2> HIDE DEF v
  <2>3. Carries(d) /\ d.at = v /\ d.st = save.st /\ d.id = i /\ d.had = done
    <3>1. v \in {"sent", "ok", "no"} /\ d = FirstAnswer(v, i, done)
      BY <2>1, Zenon
    <3> HIDE DEF d
    <3> QED BY <1>0, <1>1, <3>1, FirstStep, SMT
  <2> HIDE DEF d
  <2>4. /\ r \in Onsaves /\ r.made = made /\ r.at = d.at /\ r.st = d.st /\ r.id = d.id /\ r.had = d.had
        /\ r.email = d.email /\ r.payload = d.payload /\ r.attach = d.attach
        /\ r.detach = d.detach /\ r.seed = d.seed /\ r.base = d.base /\ r.changed = d.changed
    <3>1. d \in Onsaves /\ made \in {"edit", "new", "known"}
      BY <2>3, Zenon DEF Carries
    <3> QED BY <3>1, SaveMade, Zenon
  <2> HIDE DEF r
  <2>5. /\ Carries(r) /\ r.at = v /\ r.st = "create" /\ r.id = i /\ r.had = done /\ r.made = made
    BY <1>0, <2>3, <2>4, Zenon DEF Carries
  <2>6. CASE v = "no"
    <3>1. SaveOK'
      BY <1>0, <2>2, <2>5, Carried, Zenon
    <3>2. r.attach \cap r.detach = {} /\ r.attach = {} /\ r.detach = {} /\ ~FirstDone(r)
      BY <1>0, <2>5, <2>6, Zenon DEF StagesOK, Stages, Carries, FirstDone
    <3>3. Stages(r, server')
      BY <2>5, <2>6, <3>2, Zenon DEF Stages
    <3> QED BY <2>2, <3>1, <3>3, Zenon DEF StagesOK
  <2>7. CASE v = "ok"
    <3>1. /\ c \in Clients
          /\ c.email = p.email /\ c.sub = p.sub /\ c.data = p.data /\ c.adTag = p.adTag
          /\ c.enable = TRUE /\ c.links = "none" /\ c.inbounds = done
          /\ c.key = Fitted(p.key, done) /\ c.flow = FlowIn(p.flow, done)
      BY <1>0, NewRow, Zenon
    <3>2. p.key \in Keys /\ p.flow \in Flows
      BY <1>0, RowFields, Zenon
    <3> HIDE DEF c
    <3>3. /\ ~Misfit(p.key, done) => c.key = p.key
          /\ done \cap FlowCapable # {} => c.flow = p.flow
      BY <3>1, <3>2, KeyFits, FlowKept, Zenon
    <3>4. made = "new" => server'[i] = c /\ c # NoClient
      <4>1. server \in [Ids -> ClientOrNone] /\ c # NoClient
        BY <1>0, <3>1, Apart, Zenon DEF ServerOK
      <4> QED BY <1>1, <4>1, Zenon DEF c
    <3>5. r.made # "known" =>
             /\ server'[i] # NoClient /\ server'[i].email = p.email
             /\ server'[i].adTag = p.adTag
             /\ r.made = "edit" => server'[i].enable = p.enable
             /\ r.made = "new" => server'[i].enable = TRUE
             /\ r.had # {} => server'[i].sub = p.sub /\ server'[i].data = p.data
             /\ r.had # {} /\ p.key # "none" /\ ~Misfit(p.key, r.had) => server'[i].key = p.key
             /\ r.had \cap FlowCapable # {} => server'[i].flow = p.flow
             /\ r.had \subseteq server'[i].inbounds
             /\ save.st = "create" => server'[i].links = "none"
      <4>1. r.made # "known" => made = "new"
        BY <2>5, Zenon
      <4> QED BY <2>5, <3>1, <3>3, <3>4, <4>1, Zenon
    <3>6. r.at = "ok" /\ r.st = save.st /\ (r.st = "update" => r.made = "edit")
      BY <1>0, <2>5, <2>7, Zenon
    <3> QED BY <1>0, <2>2, <2>5, <3>5, <3>6, FirstWritten, Zenon
  <2> QED BY <2>1, <2>6, <2>7, Zenon
<1>2. CASE save' = [save EXCEPT !.at = "no"]
  BY <1>0, <1>2, NotDone, Zenon
<1>3. ASSUME NEW done \in SUBSET Inbounds, CreatesNew(done) \/ CreatesKnown(done)
      PROVE  SaveOK' /\ StagesOK'
  <2>1. CASE CreatesNew(done)
    <3>1. PICK i \in Ids : /\ server' = [server EXCEPT ![i] = NewClient(save.payload, done)]
                           /\ save' = [save EXCEPT !.at = IF done = save.payload.inbounds THEN "ok" ELSE "no",
                                                   !.id = i, !.had = done, !.made = "new"]
      BY <2>1, Zenon DEF CreatesNew
    <3> QED BY <1>1, <3>1, Zenon
  <2>2. CASE CreatesKnown(done)
    <3>1. PICK i \in Ids : save' = [save EXCEPT !.at = IF done = save.payload.inbounds THEN "ok" ELSE "no",
                                                !.id = i, !.had = done, !.made = "known"]
      BY <2>2, Zenon DEF CreatesKnown, Holders
    <3> QED BY <1>1, <3>1, Zenon
  <2> QED BY <1>3, <2>1, <2>2
<1> QED BY <1>0, <1>2, <1>3, CreateCases, Zenon

\* The row the save has written is the one its email finds, unless another
\* has written it.
LEMMA OwnRow ==
    ASSUME ServerOK, StagesOK, FirstDone(save), save.alone, save.made # "known",
           NEW i \in Holders(save.payload.email)
    PROVE  i = save.id
<1>1. save.id \in Ids /\ server[save.id] # NoClient /\ server[save.id].email = save.payload.email
  BY Zenon DEF StagesOK, Stages, StoredSoFar
<1>2. i \in Ids /\ server[i] # NoClient /\ server[i].email = save.payload.email
  BY HolderRow, Zenon
<1> QED BY <1>1, <1>2, Zenon DEF ServerOK

\* A later request has written the row i.
LEMMA LaterWritten ==
    ASSUME Kin, ServerOK, SaveOK, StagesOK, save.st \in {"attach", "detach", "links"},
           save.at = "sent", NEW i \in Holders(save.payload.email), NEW v \in {"ok", "no"},
           save' = [save EXCEPT !.at = v], NEW c \in Clients, server' = [server EXCEPT ![i] = c],
           c.email = server[i].email, c.sub = server[i].sub, c.data = server[i].data,
           c.enable = server[i].enable, c.adTag = server[i].adTag,
           ~Misfit(server[i].key, save.attach) => c.key = server[i].key,
           c.inbounds \cap FlowCapable # {} => c.flow = server[i].flow,
           save.st = "attach" => server[i].inbounds \subseteq c.inbounds,
           save.st # "attach" => c.inbounds \subseteq server[i].inbounds,
           save.st = "attach" /\ v = "ok" => save.attach \subseteq c.inbounds,
           save.st = "detach" => server[i].inbounds \ save.detach \subseteq c.inbounds,
           save.st = "detach" /\ v = "ok" => save.detach \cap c.inbounds = {},
           save.st = "links" => c.inbounds = server[i].inbounds,
           save.st = "links" /\ v = "ok" => c.links = save.payload.links
    PROVE  SaveOK' /\ StagesOK'
<1> DEFINE r == [save EXCEPT !.at = v]
<1>1. /\ Carries(r) /\ r.at = v /\ r.st = save.st /\ r.id = save.id
      /\ r.alone = save.alone /\ r.had = save.had /\ r.made = save.made
  <2>1. v \in {"sent", "ok", "no"}
    BY Zenon
  <2> QED BY <2>1, AtStep, Zenon
<1>2. save' = r
  BY Zenon
<1> HIDE DEF r
<1>3. FirstDone(save) /\ save.id \in Ids /\ r.id \in Ids
  BY <1>1, Zenon DEF StagesOK, Stages, FirstDone
<1>4. ASSUME save.alone, save.made # "known"
      PROVE  StoredSoFar(r, server'[r.id])
  <2> DEFINE p == save.payload
  <2>1. i = save.id
    BY <1>3, <1>4, OwnRow, Zenon
  <2>2. StoredSoFar(save, server[i])
    BY <1>3, <1>4, <2>1, Zenon DEF StagesOK, Stages
  <2>3. server'[r.id] = c
    <3>1. server \in [Ids -> ClientOrNone]
      BY Zenon DEF ServerOK
    <3> QED BY <1>1, <1>3, <2>1, <3>1, Zenon
  <2>4. c # NoClient
    BY Apart, Zenon
  <2>5. /\ c.email = p.email /\ c.adTag = p.adTag
        /\ save.made = "edit" => c.enable = p.enable
        /\ save.made = "new" => c.enable = TRUE
        /\ save.had # {} => c.sub = p.sub /\ c.data = p.data
        /\ save.st = "attach" => save.had \subseteq c.inbounds
    BY <2>2, Zenon DEF StoredSoFar
  <2>9. save.had # {} /\ p.key # "none" /\ ~Misfit(p.key, save.had \cup save.attach) => c.key = p.key
    <3>1. ~Misfit(p.key, save.had \cup save.attach) => ~Misfit(p.key, save.attach)
      <4>1. save.attach \in SUBSET (save.had \cup save.attach)
        BY SMT
      <4> QED BY <4>1, FitsFewer, Zenon
    <3> QED BY <2>2, <3>1, Zenon DEF StoredSoFar
  <2>10. save.had \cap FlowCapable # {} /\ c.inbounds \cap FlowCapable # {} => c.flow = p.flow
    <3>1. /\ save.st = "attach" => save.had \subseteq server[i].inbounds
          /\ save.had \cap FlowCapable # {} /\ server[i].inbounds \cap FlowCapable # {} =>
               server[i].flow = p.flow
      BY <2>2, Zenon DEF StoredSoFar
    <3>2. save.had \cap FlowCapable # {} /\ c.inbounds \cap FlowCapable # {} =>
            server[i].inbounds \cap FlowCapable # {}
      <4>1. CASE save.st = "attach"
        BY <3>1, <4>1, Zenon
      <4>2. CASE save.st # "attach"
        BY <4>2, Zenon
      <4> QED BY <4>1, <4>2
    <3> QED BY <3>1, <3>2, Zenon
  <2>6. save.st \in {"detach", "links"} \/ (save.st = "attach" /\ v = "ok") => save.attach \subseteq c.inbounds
    <3>1. CASE save.st = "detach"
      <4>1. save.attach \subseteq server[i].inbounds /\ save.attach \cap save.detach = {}
        BY <2>2, <3>1, Zenon DEF StoredSoFar, StagesOK, Stages
      <4> QED BY <3>1, <4>1
    <3>2. CASE save.st = "links"
      BY <2>2, <3>2, Zenon DEF StoredSoFar
    <3> QED BY <3>1, <3>2, Zenon
  <2>7. save.st = "links" \/ (save.st = "detach" /\ v = "ok") => save.detach \cap c.inbounds = {}
    <3>1. CASE save.st = "links"
      BY <2>2, <3>1, Zenon DEF StoredSoFar
    <3> QED BY <3>1, Zenon
  <2>8. StoredSoFar(r, c)
    <3>1. /\ r.payload = save.payload /\ r.attach = save.attach /\ r.detach = save.detach
          /\ r.st = save.st /\ r.at = v /\ r.had = save.had /\ r.made = save.made
      BY <1>1, Zenon DEF Carries
    <3>2. save.st # "create" /\ save.st # "update"
      BY Zenon
    <3> QED BY <2>4, <2>5, <2>6, <2>7, <2>9, <2>10, <3>1, <3>2, Zenon DEF StoredSoFar
  <2> QED BY <2>3, <2>8, Zenon
<1>5. /\ r.attach \cap r.detach = {} /\ r.st # "create" /\ r.st # "none" /\ r.st # "update"
  BY <1>1, Zenon DEF StagesOK, Stages, Carries
<1>6. Stages(r, server')
  BY <1>1, <1>3, <1>4, <1>5, Zenon DEF Stages
<1>7. SaveOK'
  BY <1>1, <1>2, Carried, Zenon
<1> QED BY <1>2, <1>6, <1>7, Zenon DEF StagesOK

LEMMA MovesSave ==
    ASSUME ClientsInv, Kin, ServerMoves
    PROVE  SaveOK' /\ StagesOK'
<1> DEFINE asked == IF save.st = "attach" THEN save.attach ELSE save.detach
<1>0. /\ ServerOK /\ SaveOK /\ StagesOK /\ save.st \in {"attach", "detach"} /\ save.at = "sent"
      /\ save.attach \in SUBSET Inbounds /\ save.detach \in SUBSET Inbounds
  <2>1. ServerOK /\ SaveOK /\ StagesOK /\ save.st \in {"attach", "detach"} /\ save.at = "sent"
    BY Zenon DEF ClientsInv, ServerMoves
  <2>2. save.attach \in SUBSET Inbounds /\ save.detach \in SUBSET Inbounds
    BY <2>1, SMT DEF SaveOK, Onsaves
  <2> QED BY <2>1, <2>2
<1>1. ASSUME NEW i \in Holders(save.payload.email), NEW done \in SUBSET asked,
             NEW c \in Moved(server[i], done), server' = [server EXCEPT ![i] = c],
             save' = [save EXCEPT !.at = IF done = asked THEN "ok" ELSE "no"]
      PROVE  SaveOK' /\ StagesOK'
  <2> DEFINE v == IF done = asked THEN "ok" ELSE "no"
  <2>1. server[i] \in Clients /\ asked \subseteq Inbounds /\ done \in SUBSET Inbounds
    <3>1. server[i] \in Clients
      BY <1>0, HolderRow, Zenon
    <3> QED BY <1>0, <3>1, Zenon
  <2>2. /\ c \in Clients
        /\ c.email = server[i].email /\ c.sub = server[i].sub /\ c.data = server[i].data
        /\ c.enable = server[i].enable /\ c.adTag = server[i].adTag
        /\ save.st = "attach" => /\ c.inbounds = server[i].inbounds \cup done
                                 /\ c.flow = server[i].flow
                                 /\ ~Misfit(server[i].key, done) => c.key = server[i].key
        /\ save.st # "attach" => /\ c.inbounds = server[i].inbounds \ done /\ c.key = server[i].key
                                 /\ c.inbounds \cap FlowCapable # {} => c.flow = server[i].flow
    <3> HIDE DEF asked
    <3> QED BY <2>1, MovedRow, SMT
  <2>3. v \in {"ok", "no"} /\ (v = "ok" => done = asked) /\ save' = [save EXCEPT !.at = v]
    BY <1>1, Zenon
  <2> HIDE DEF v
  <2>4. /\ ~Misfit(server[i].key, save.attach) => c.key = server[i].key
        /\ c.inbounds \cap FlowCapable # {} => c.flow = server[i].flow
    <3>1. CASE save.st = "attach"
      <4>1. ~Misfit(server[i].key, save.attach) => ~Misfit(server[i].key, done)
        BY <3>1, FitsFewer, Zenon
      <4> QED BY <2>2, <3>1, <4>1, Zenon
    <3>2. CASE save.st # "attach"
      BY <2>2, <3>2, Zenon
    <3> QED BY <3>1, <3>2
  <2>5. /\ save.st = "attach" /\ v = "ok" => save.attach \subseteq c.inbounds
        /\ save.st = "detach" => server[i].inbounds \ save.detach \subseteq c.inbounds
        /\ save.st = "detach" /\ v = "ok" => save.detach \cap c.inbounds = {}
        /\ save.st = "attach" => server[i].inbounds \subseteq c.inbounds
        /\ save.st # "attach" => c.inbounds \subseteq server[i].inbounds
    <3>1. CASE save.st = "attach"
      BY <2>2, <2>3, <3>1, Zenon
    <3>2. CASE save.st # "attach"
      <4>1. done \subseteq save.detach /\ c.inbounds = server[i].inbounds \ done /\ asked = save.detach
        BY <2>2, <3>2, Zenon
      <4> QED BY <2>3, <3>2, <4>1, Zenon
    <3> QED BY <3>1, <3>2, Zenon
  <2>6. save.st # "links" /\ save.st \in {"attach", "detach", "links"}
    BY <1>0, Zenon
  <2> QED BY <1>0, <1>1, <2>2, <2>3, <2>4, <2>5, <2>6, LaterWritten, Zenon
<1>2. CASE save' = [save EXCEPT !.at = "no"] /\ server' = server
  BY <1>0, <1>2, NotDone, Zenon
<1> QED BY <1>1, <1>2, Zenon DEF ServerMoves

LEMMA LinksSave ==
    ASSUME ClientsInv, Kin, ServerSetsLinks
    PROVE  SaveOK' /\ StagesOK'
<1>0. /\ ServerOK /\ SaveOK /\ StagesOK /\ save.st = "links" /\ save.at = "sent"
      /\ save.payload.links \in Links
  <2>1. ServerOK /\ SaveOK /\ StagesOK /\ save.st = "links" /\ save.at = "sent"
    BY Zenon DEF ClientsInv, ServerSetsLinks
  <2>2. save.payload.links \in Links
    BY <2>1, SMT DEF SaveOK, Onsaves, Clients
  <2> QED BY <2>1, <2>2
<1>1. ASSUME NEW i \in Holders(save.payload.email),
             server' = [server EXCEPT ![i].links = save.payload.links],
             save' = [save EXCEPT !.at = "ok"]
      PROVE  SaveOK' /\ StagesOK'
  <2>1. server[i] \in Clients
    BY <1>0, HolderRow, Zenon
  <2> DEFINE l == save.payload.links
             c == [server[i] EXCEPT !.links = l]
  <2>2. server' = [server EXCEPT ![i] = c]
    BY <1>1, Zenon
  <2>3. l \in Links
    BY <1>0, Zenon
  <2> HIDE DEF l
  <2>4. /\ c \in Clients /\ c.links = l /\ c.email = server[i].email /\ c.sub = server[i].sub
        /\ c.data = server[i].data /\ c.enable = server[i].enable /\ c.key = server[i].key
        /\ c.flow = server[i].flow /\ c.adTag = server[i].adTag /\ c.inbounds = server[i].inbounds
    BY <2>1, <2>3, ClientLinks, Zenon
  <2> HIDE DEF c
  <2>5. /\ save.st # "attach" /\ save.st # "detach" /\ save.st \in {"attach", "detach", "links"}
        /\ "ok" \in {"ok", "no"} /\ c.links = save.payload.links
    BY <1>0, <2>4, Zenon DEF l
  <2> QED BY <1>0, <1>1, <2>2, <2>4, <2>5, LaterWritten, Zenon
<1>2. CASE save' = [save EXCEPT !.at = "no"] /\ server' = server
  BY <1>0, <1>2, NotDone, Zenon
<1> QED BY <1>1, <1>2, Zenon DEF ServerSetsLinks

LEMMA GoesOnSave ==
    ASSUME ClientsInv, Kin, SaveGoesOn, After(save.st) # "done"
    PROVE  SaveOK' /\ StagesOK'
<1> DEFINE st == After(save.st)
           r == [save EXCEPT !.st = st, !.at = "sent"]
<1>0. SaveOK /\ StagesOK /\ save.at = "ok" /\ server' = server /\ save' = r
  BY Zenon DEF ClientsInv, SaveGoesOn
<1>1. /\ save.st \in {"update", "create", "attach", "detach", "links"}
      /\ save.st = "create" => save.attach = {} /\ save.detach = {}
  <2>1. save.st \in SaveSteps
    BY <1>0, SMT DEF SaveOK, Onsaves
  <2>2. save.st # "none"
    BY <1>0, Zenon DEF StagesOK, Stages
  <2> QED BY <1>0, <2>1, <2>2, Zenon DEF StagesOK, Stages, SaveSteps
<1>2. /\ st \in {"attach", "detach", "links"} /\ save.st # "links"
      /\ st = "attach" => save.st = "update"
      /\ st = "detach" => (save.st = "update" /\ save.attach = {}) \/ save.st = "attach"
      /\ st = "links" => \/ save.attach = {} /\ save.detach = {}
                         \/ save.st = "attach" /\ save.detach = {}
                         \/ save.st = "detach"
  <2>1. CASE save.st = "create"
    BY <1>1, <2>1, Zenon DEF After
  <2>2. CASE save.st = "update"
    BY <2>2, Zenon DEF After
  <2>3. CASE save.st = "attach"
    BY <2>3, Zenon DEF After
  <2>4. CASE save.st = "detach"
    BY <2>4, Zenon DEF After
  <2>5. CASE save.st = "links"
    BY <2>5, Zenon DEF After
  <2> QED BY <1>1, <2>1, <2>2, <2>3, <2>4, <2>5, Zenon
<1> HIDE DEF st
<1>3. /\ Carries(r) /\ r.at = "sent" /\ r.st = st /\ r.id = save.id
      /\ r.alone = save.alone /\ r.had = save.had /\ r.made = save.made
  <2>1. st \in SaveSteps
    BY <1>2, Zenon DEF SaveSteps
  <2> QED BY <1>0, <2>1, StStep, Zenon
<1> HIDE DEF r
<1>4. FirstDone(save) /\ save.id \in Ids
  BY <1>0, Zenon DEF FirstDone, StagesOK, Stages
<1>5. ASSUME save.alone, save.made # "known"
      PROVE  StoredSoFar(r, server[save.id])
  <2> DEFINE c == server[save.id]
             p == save.payload
  <2>1. StoredSoFar(save, c)
    BY <1>0, <1>4, <1>5, Zenon DEF StagesOK, Stages
  <2> HIDE DEF c
  <2>2. /\ c # NoClient /\ c.email = p.email /\ c.adTag = p.adTag
        /\ save.made = "edit" => c.enable = p.enable
        /\ save.made = "new" => c.enable = TRUE
        /\ save.had # {} => c.sub = p.sub /\ c.data = p.data
        /\ save.had # {} /\ p.key # "none" /\ ~Misfit(p.key, save.had \cup save.attach) => c.key = p.key
        /\ save.had \cap FlowCapable # {} /\ c.inbounds \cap FlowCapable # {} => c.flow = p.flow
        /\ save.st = "update" => save.had \subseteq c.inbounds
        /\ save.st = "attach" \/ save.st = "detach" => save.attach \subseteq c.inbounds
        /\ save.st = "detach" => save.detach \cap c.inbounds = {}
    BY <1>0, <2>1, Zenon DEF StoredSoFar
  <2>3. st \in {"detach", "links"} => save.attach \subseteq c.inbounds
    BY <1>2, <2>2, Zenon
  <2>4. st = "links" => save.detach \cap c.inbounds = {}
    BY <1>2, <2>2, Zenon
  <2>5. /\ r.payload = save.payload /\ r.attach = save.attach /\ r.detach = save.detach
        /\ r.st # "create" /\ r.at # "ok" /\ r.had = save.had /\ r.made = save.made
    BY <1>2, <1>3, Zenon DEF Carries
  <2>6. /\ r.st = "attach" => r.had \subseteq c.inbounds
        /\ r.st \in {"detach", "links"} => r.attach \subseteq c.inbounds
        /\ r.st = "links" => r.detach \cap c.inbounds = {}
        /\ r.st # "update"
    BY <1>2, <1>3, <2>2, <2>3, <2>4, <2>5, Zenon
  <2>7. StoredSoFar(r, c)
    BY <1>3, <2>2, <2>5, <2>6, Zenon DEF StoredSoFar
  <2> QED BY <2>7, Zenon DEF c
<1>6. /\ r.attach \cap r.detach = {} /\ r.st # "create" /\ r.st # "none" /\ r.st # "update"
  BY <1>0, <1>2, <1>3, Zenon DEF StagesOK, Stages, Carries
<1>7. Stages(r, server')
  BY <1>0, <1>3, <1>4, <1>5, <1>6, Zenon DEF Stages
<1>8. SaveOK'
  BY <1>0, <1>3, <1>6, Carried, Zenon
<1> QED BY <1>0, <1>7, <1>8, Zenon DEF StagesOK

LEMMA SubmitSave ==
    ASSUME ClientsInv, Kin, OnSubmit
    PROVE  SaveOK' /\ StagesOK'
<1> DEFINE next == clientDialog.form.inbounds
           edit == clientDialog.mode = "edit" /\ clientDialog.client # NoClient
<1>0. DialogOK /\ clientDialog \in Forms /\ clientDialog.open
  BY Zenon DEF ClientsInv, DialogOK, OnSubmit
<1>1. /\ clientDialog.form \in Clients /\ next \in SUBSET Inbounds
      /\ clientDialog.form.email \in Emails /\ clientDialog.attached \in SUBSET Inbounds
      /\ clientDialog.seed \in IdOrNone /\ clientDialog.base \in ClientOrNone
      /\ clientDialog.changed \in SUBSET Fields
      /\ edit => clientDialog.client.email \in Emails
  BY <1>0, SMT DEF Forms, Clients, ClientOrNone
<1>2. /\ Payload(clientDialog.form) \in Clients
      /\ Payload(clientDialog.form).email = clientDialog.form.email
      /\ Payload(clientDialog.form).sub = clientDialog.form.sub
      /\ Payload(clientDialog.form).data = clientDialog.form.data
      /\ Payload(clientDialog.form).enable = clientDialog.form.enable
      /\ Payload(clientDialog.form).key = clientDialog.form.key
      /\ Payload(clientDialog.form).inbounds = clientDialog.form.inbounds
      /\ clientDialog.form.inbounds \cap FlowCapable # {} =>
           Payload(clientDialog.form).flow = clientDialog.form.flow
      /\ Payload(clientDialog.form).inbounds \cap Mtproto # {} =>
           Payload(clientDialog.form).adTag = clientDialog.form.adTag
  BY <1>1, PayloadRow, Zenon
<1> DEFINE payload == Payload(clientDialog.form)
           attach == IF edit THEN next \ clientDialog.attached ELSE {}
           detach == IF edit THEN clientDialog.attached \ next ELSE {}
           st == IF edit THEN "update" ELSE "create"
           email == IF edit THEN clientDialog.client.email ELSE clientDialog.form.email
           r == [st |-> st, at |-> "sent", email |-> email, payload |-> payload, attach |-> attach,
                 detach |-> detach, seed |-> clientDialog.seed, base |-> clientDialog.base,
                 changed |-> clientDialog.changed, id |-> NoClient, alone |-> TRUE, had |-> {},
                 made |-> "edit"]
<1>3. save' = r
  BY Zenon DEF OnSubmit
<1>4. /\ st \in {"update", "create"} /\ (st = "update" => edit)
      /\ email \in Emails \cup {NoClient} /\ attach \in SUBSET Inbounds /\ detach \in SUBSET Inbounds
      /\ attach \cap detach = {} /\ (st = "create" => attach = {} /\ detach = {})
  <2>1. CASE edit
    BY <1>1, <2>1, Zenon
  <2>2. CASE ~edit
    <3>1. st = "create" /\ email = clientDialog.form.email /\ attach = {} /\ detach = {}
      BY <2>2, Zenon
    <3> QED BY <1>1, <3>1, Zenon
  <2> QED BY <2>1, <2>2
<1>5. payload \in Clients
  BY <1>2, Zenon
<1> HIDE DEF payload, attach, detach, st, email
<1>6. /\ r \in Onsaves /\ r.st = st /\ r.at = "sent" /\ r.attach = attach /\ r.detach = detach
      /\ r.payload = payload /\ r.seed = clientDialog.seed /\ r.base = clientDialog.base
      /\ r.changed = clientDialog.changed /\ r.id = NoClient /\ r.made = "edit"
  BY <1>1, <1>4, <1>5, SMT DEF Onsaves, SaveSteps, IdOrNone
<1> HIDE DEF r
<1>7. Stages(r, server')
  BY <1>4, <1>6, Zenon DEF Stages, FirstDone
<1>8. SaveOK'
  <2>1. r.st = "update" => /\ r.seed \in Ids
                           /\ "sub" \notin r.changed => Same(r.seed, r.payload.sub)
    <3>1. st = "update" =>
            /\ clientDialog.seed \in Ids
            /\ "sub" \notin clientDialog.changed => Same(clientDialog.seed, payload.sub)
      BY <1>0, <1>2, <1>4, Zenon DEF DialogOK, payload
    <3> QED BY <1>6, <3>1, Zenon
  <2>2. /\ Kept(r.payload, r.base, r.changed)
        /\ r.base # NoClient /\ "adTag" \notin r.changed /\ r.payload.inbounds \cap Mtproto # {} =>
             r.payload.adTag = r.base.adTag
    <3>1. /\ Kept(payload, clientDialog.base, clientDialog.changed)
          /\ /\ clientDialog.base # NoClient /\ "adTag" \notin clientDialog.changed
             /\ payload.inbounds \cap Mtproto # {}
             => payload.adTag = clientDialog.base.adTag
      BY <1>0, <1>2, Zenon DEF DialogOK, Kept, payload
    <3> QED BY <1>6, <3>1, Zenon
  <2>3. Asked(r)
    BY <1>6, <2>1, <2>2, Zenon DEF Asked
  <2> QED BY <1>3, <2>3, SaveAsked, Zenon
<1> QED BY <1>3, <1>7, <1>8, Zenon DEF StagesOK

LEMMA NoSaveStays ==
    ASSUME Kin, save' = NotSaving
    PROVE  SaveOK' /\ StagesOK'
<1>1. Asked(NotSaving)
  BY NotSavingTyped, Zenon DEF Asked, Kept
<1>2. Stages(NotSaving, server')
  <2>1. ~FirstDone(NotSaving)
    BY NotSavingTyped, Zenon DEF FirstDone
  <2> QED BY <2>1, NotSavingTyped, Zenon DEF Stages
<1> QED BY <1>1, <1>2, SaveAsked, Zenon DEF StagesOK

\* Other writers, and the steps that write nothing.
LEMMA OthersSave ==
    ASSUME ClientsInv, Kin,
           \/ server' = server /\ save' = save
           \/ \E s \in Slots : ToggleUpdate(s)
           \/ ServerBulk
           \/ \E i \in Ids : OtherAdmin(i)
    PROVE  SaveOK' /\ StagesOK'
<1>0. SaveOK /\ StagesOK /\ server \in [Ids -> ClientOrNone]
  BY Zenon DEF ClientsInv, ServerOK
<1>1. CASE save' = [save EXCEPT !.alone = FALSE]
  <2> DEFINE r == [save EXCEPT !.alone = FALSE]
  <2>1. /\ Carries(r) /\ r.at = save.at /\ r.st = save.st /\ r.id = save.id /\ ~r.alone
        /\ r.had = save.had /\ r.made = save.made
    BY <1>0, AloneStep, Zenon
  <2>2. save' = r
    BY <1>1, Zenon
  <2> HIDE DEF r
  <2> QED BY <1>0, <2>1, <2>2, RowLeft, Zenon
<1>2. CASE save' = save /\ (save.id \in Ids => server'[save.id] = server[save.id])
  <2>1. Carries(save)
    BY <1>0, Zenon DEF Carries, SaveOK
  <2> QED BY <1>0, <1>2, <2>1, RowLeft, Zenon
<1> DEFINE Left == \/ save' = [save EXCEPT !.alone = FALSE]
                   \/ save' = save /\ (save.id \in Ids => server'[save.id] = server[save.id])
<1>3. ASSUME NEW i, NEW c, server' = [server EXCEPT ![i] = c],
             save' = IF save.id = i THEN [save EXCEPT !.alone = FALSE] ELSE save
      PROVE  Left
  <2>1. CASE save.id = i
    BY <1>3, <2>1, Zenon
  <2>2. CASE save.id # i
    BY <1>0, <1>3, <2>2, Zenon
  <2> QED BY <2>1, <2>2
<1>4. ASSUME NEW s \in Slots, ToggleUpdate(s)
      PROVE  Left
  <2> HIDE DEF Left
  <2>1. ASSUME NEW i, NEW c, WriteRow(i, c),
               save' = IF save.id = i THEN [save EXCEPT !.alone = FALSE] ELSE save
        PROVE  Left
    <3>1. server' = [server EXCEPT ![i] = c]
      BY <2>1, Zenon DEF WriteRow
    <3> QED BY <1>3, <2>1, <3>1, Zenon
  <2>2. CASE server' = server /\ save' = save
    BY <2>2, Zenon DEF Left
  <2> QED BY <1>4, <2>1, <2>2, Zenon DEF ToggleUpdate
<1>5. ASSUME ServerBulk
      PROVE  Left
  <2>1. PICK done \in SUBSET Ids :
           /\ server' = [i \in Ids |-> IF i \in done THEN BulkStored(server[i]) ELSE server[i]]
           /\ save' = IF save.id \in done THEN [save EXCEPT !.alone = FALSE] ELSE save
    BY <1>5, Zenon DEF ServerBulk
  <2>2. CASE save.id \in done
    BY <2>1, <2>2, Zenon
  <2>3. CASE save.id \notin done
    BY <2>1, <2>3, Zenon
  <2> QED BY <2>2, <2>3
<1>6. ASSUME NEW i \in Ids, OtherAdmin(i)
      PROVE  Left
  <2> HIDE DEF Left
  <2>1. \E c : server' = [server EXCEPT ![i] = c]
    <3>1. ASSUME NEW c, WriteRow(i, c)
          PROVE  \E d : server' = [server EXCEPT ![i] = d]
      BY <3>1, Zenon DEF WriteRow
    <3>2. CASE server' = [server EXCEPT ![i] = NoClient]
      BY <3>2, Zenon
    <3> QED BY <1>6, <3>1, <3>2, Zenon DEF OtherAdmin
  <2>2. save' = IF save.id = i THEN [save EXCEPT !.alone = FALSE] ELSE save
    BY <1>6, Zenon DEF OtherAdmin
  <2> QED BY <1>3, <2>1, <2>2, Zenon
<1>7. Left
  <2>1. CASE server' = server /\ save' = save
    BY <2>1, Zenon
  <2> QED BY <1>4, <1>5, <1>6, <2>1, Zenon
<1> QED BY <1>1, <1>2, <1>7, Zenon

LEMMA SaveStays ==
    ASSUME ClientsInv, Kin, [ClientsNext]_clientsVars
    PROVE  SaveOK' /\ StagesOK'
<1>1. CASE SaveGoesOn
  <2>1. CASE After(save.st) = "done"
    <3>1. save' = NotSaving
      BY <1>1, <2>1, Zenon DEF SaveGoesOn
    <3> QED BY <3>1, NoSaveStays, Zenon
  <2> QED BY <1>1, <2>1, GoesOnSave, Zenon
<1>2. CASE SaveFails
  <2>1. save' = NotSaving
    BY <1>2, Zenon DEF SaveFails
  <2> QED BY <2>1, NoSaveStays, Zenon
<1>3. CASE \/ server' = server /\ save' = save
           \/ \E s \in Slots : ToggleUpdate(s)
           \/ ServerBulk
           \/ \E i \in Ids : OtherAdmin(i)
  BY <1>3, OthersSave, Zenon
<1>4. \/ SaveGoesOn \/ SaveFails \/ OnSubmit \/ ServerUpdates \/ ServerCreates \/ ServerMoves \/ ServerSetsLinks
      \/ server' = server /\ save' = save
      \/ \E s \in Slots : ToggleUpdate(s)
      \/ ServerBulk
      \/ \E i \in Ids : OtherAdmin(i)
  BY Zenon DEF ClientsNext, clientsVars, RefetchList, OnEdit, OnToggleEnable, Hydrate, OpenEdit,
     Toggle, ToggleReturns, OnAdd, Change, CloseForm, OpenConfirm, AnswerConfirm
<1> QED BY <1>1, <1>2, <1>3, <1>4, SubmitSave, UpdateSave, CreateSave, MovesSave, LinksSave, Zenon

-----------------------------------------------------------------------------
(* The invariant, and the properties that follow from it.                  *)

LEMMA InitClients ==
    ClientsInit => ClientsInv
<1> SUFFICES ASSUME ClientsInit PROVE ClientsInv
  OBVIOUS
<1>0. server \in FirstClients
  BY DEF ClientsInit
<1>1. ServerOK
  <2>1. /\ server \in [Ids -> ClientOrNone] /\ used \in SUBSET Ids
        /\ \A i \in Ids : server[i] # NoClient => i \in used
    BY <1>0, ClientsAssumption, SMT DEF ClientsInit, ClientOrNone
  <2>2. \A i, j \in Ids : (server[i] # NoClient /\ server[j] # NoClient /\ server[i].email = server[j].email)
                            => i = j
    BY <1>0, ClientsAssumption, Zenon
  <2> QED BY <2>1, <2>2, Zenon DEF ServerOK
<1>2. RowsOK
  <2>1. \A i \in Ids : rows[i] = IF server[i] = NoClient THEN NoClient ELSE Slim(server[i])
    BY Zenon DEF Shown, ClientsInit
  <2>2. ASSUME NEW i \in Ids, server[i] # NoClient
        PROVE  Slim(server[i]) \in Clients /\ Slim(server[i]).sub = server[i].sub /\ i \in used
    <3>1. server[i] \in Clients /\ i \in used
      BY <1>1, <2>2, SMT DEF ServerOK, ClientOrNone
    <3> QED BY <3>1, SlimRow, Zenon
  <2>3. rows \in [Ids -> ClientOrNone]
    <3>1. \A i \in Ids : (IF server[i] = NoClient THEN NoClient ELSE Slim(server[i])) \in ClientOrNone
      BY <2>2, Zenon DEF ClientOrNone
    <3>2. rows = Shown(server)
      BY Zenon DEF ClientsInit
    <3> QED BY <3>1, <3>2, Zenon DEF Shown
  <2> QED BY <2>1, <2>2, <2>3, Zenon DEF RowsOK, Same
<1>3. FetchOK
  <2>1. fetch = [s \in Slots |-> NotFetching]
    BY Zenon DEF ClientsInit
  <2> QED BY <2>1, NotFetchingTyped, Zenon DEF FetchOK
<1>4. DialogOK
  <2>1. clientDialog = NoDialog
    BY Zenon DEF ClientsInit
  <2> QED BY <2>1, NoDialogTyped, Zenon DEF DialogOK, Kept
<1>5. SaveOK /\ StagesOK
  <2>1. save = NotSaving
    BY Zenon DEF ClientsInit
  <2>2. SaveOK
    BY <2>1, NotSavingTyped, Zenon DEF SaveOK, Kept
  <2> QED BY <2>1, <2>2, NotSavingTyped, Zenon DEF StagesOK, Stages, FirstDone
<1> QED BY <1>1, <1>2, <1>3, <1>4, <1>5, Zenon DEF ClientsInv

LEMMA StepClients ==
    ClientsInv /\ [ClientsNext]_clientsVars => ClientsInv'
<1> SUFFICES ASSUME ClientsInv, [ClientsNext]_clientsVars PROVE ClientsInv'
  OBVIOUS
<1>1. ServerOK' /\ Kin
  BY TableStays, Zenon
<1>2. RowsOK'
  BY <1>1, RowsStay, Zenon
<1>3. FetchOK'
  BY <1>1, FetchesStay, Zenon
<1>4. DialogOK'
  BY <1>1, DialogStays, Zenon
<1>5. SaveOK' /\ StagesOK'
  BY <1>1, SaveStays, Zenon
<1> QED BY <1>1, <1>2, <1>3, <1>4, <1>5, Zenon DEF ClientsInv

LEMMA ClientsHold ==
    ClientsSpec => []ClientsInv
BY InitClients, StepClients, PTL DEF ClientsSpec

\* Only the server's answer takes the first request of an edit further.
LEMMA UpdateAnswered ==
    ASSUME [ClientsNext]_clientsVars, ClientsInv, save.st = "update", save.at = "sent",
           save'.st = "update" \/ save'.at = "ok", save'.at # "sent"
    PROVE  ServerUpdates
<1>1. SaveOK
  BY Zenon DEF ClientsInv
<1>2. save' # save /\ save' # [save EXCEPT !.alone = FALSE] /\ save' # NotSaving
  <2>1. [save EXCEPT !.alone = FALSE].at = "sent"
    BY <1>1, AloneStep, Zenon
  <2> QED BY <2>1, NotSavingTyped, Zenon
<1>3. /\ ~SaveGoesOn /\ ~SaveFails /\ ~OnSubmit /\ ~ServerCreates /\ ~ServerMoves
      /\ ~ServerSetsLinks
  BY <1>2, Zenon DEF SaveGoesOn, SaveFails, OnSubmit, ServerCreates, ServerMoves, ServerSetsLinks
<1>4. /\ ~ServerBulk /\ ~(\E s \in Slots : ToggleUpdate(s)) /\ ~(\E i \in Ids : OtherAdmin(i))
  BY <1>2, Zenon DEF ServerBulk, ToggleUpdate, OtherAdmin
<1> QED BY <1>2, <1>3, <1>4, Zenon DEF ClientsNext, clientsVars, RefetchList, OnEdit, OnToggleEnable,
     Hydrate, OpenEdit, Toggle, ToggleReturns, OnAdd, Change, CloseForm, OpenConfirm, AnswerConfirm

LEMMA UpdateRow ==
    ASSUME ClientsInv, save.st = "update", save.at = "sent", save'.st = "update", save'.at # "sent",
           "sub" \notin save.changed, [ClientsNext]_clientsVars, NEW i \in Ids, server'[i] # server[i]
    PROVE  i = save.seed \/ server[save.seed] = NoClient \/ save.seed \in replaced
<1>1. ServerUpdates /\ server \in [Ids -> ClientOrNone] /\ SaveOK
  BY UpdateAnswered, Zenon DEF ClientsInv, ServerOK
<1>2. save.seed \in Ids /\ Same(save.seed, save.payload.sub)
  BY <1>1, Zenon DEF SaveOK
<1>3. PICK j \in Holders(save.email) :
         /\ ~Taken(j, save.payload)
         /\ \E c : server' = [server EXCEPT ![j] = c]
  <2>1. server' # server
    BY Zenon
  <2> QED BY <1>1, <2>1, Zenon DEF ServerUpdates, WriteRow
<1>4. i = j
  BY <1>1, <1>3, Zenon
<1>5. ASSUME save.seed # i, server[save.seed] # NoClient, save.seed \notin replaced
      PROVE  FALSE
  <2>1. server[save.seed].sub = save.payload.sub
    BY <1>2, <1>5, Zenon DEF Same
  <2>2. ~Taken(i, save.payload) /\ save.payload \in Clients
    BY <1>1, <1>3, <1>4, SMT DEF SaveOK, Onsaves
  <2>3. \A k \in Ids : (k # i /\ server[k] # NoClient) => server[k].sub # save.payload.sub
    BY <2>2, Zenon DEF Taken
  <2> QED BY <1>2, <1>5, <2>1, <2>3, Zenon
<1> QED BY <1>5, Zenon

\* The first request of an edit writes the row whose client the dialog shows
\* (ClientService.Update behind onSave).
THEOREM EditsFindTheRow == ClientsSpec => EditsRowShown
<1>1. ClientsInv /\ [ClientsNext]_(clientsVars) => EditsRowShown!1
  BY UpdateRow, Zenon
<1> QED BY <1>1, InitClients, StepClients, PTL DEF ClientsSpec, EditsRowShown

\* What the first request leaves of the record "was" when it makes it "is".
LeftAlone(was, is) ==
    LET left == Fields \ save.changed
    IN /\ "sub" \in left => is.sub = was.sub
       /\ "email" \in left => is.email = was.email
       /\ "data" \in left => is.data \in {was.data, Rounded(was.data)}
       /\ "enable" \in left => is.enable = was.enable
       /\ is.inbounds = was.inbounds /\ is.links = was.links
       /\ ({"key", "inbounds"} \subseteq left /\ ~Misfit(was.key, was.inbounds)) => is.key = was.key
       /\ ({"flow", "inbounds"} \subseteq left /\ was.inbounds \cap FlowCapable # {})
             => is.flow = was.flow
       /\ ("adTag" \in left /\ save.payload.inbounds \cap Mtproto # {}) => is.adTag = was.adTag

LEMMA UpdateKeeps ==
    ASSUME ClientsInv, save.st = "update", save.at = "sent", save'.at = "ok", [ClientsNext]_clientsVars,
           NEW i \in Ids, i = save.seed, server[i] = save.base, server'[i] # NoClient
    PROVE  LeftAlone(server[i], server'[i])
<1>1. ServerUpdates /\ server \in [Ids -> ClientOrNone] /\ SaveOK /\ ServerOK
  BY UpdateAnswered, Zenon DEF ClientsInv, ServerOK
<1>2. save.payload \in Clients
  BY <1>1, SMT DEF SaveOK, Onsaves
<1>3. PICK j \in Holders(save.email) : server' = [server EXCEPT ![j] = Written(server[j], save.payload)]
  <2>1. save' # [save EXCEPT !.at = "no"]
    BY <1>1, AtStep, Zenon
  <2> QED BY <1>1, <2>1, Zenon DEF ServerUpdates, WriteRow
<1>4. j \in Ids /\ server[j] # NoClient /\ server[j] \in Clients
  BY <1>1, HolderRow, Zenon
<1>5. CASE j # i
  <2>1. server'[i] = server[i]
    BY <1>1, <1>3, <1>5, Zenon
  <2> QED BY <2>1, Zenon DEF LeftAlone
<1>6. CASE j = i
  <2> DEFINE p == save.payload
             was == server[i]
             c == Written(was, p)
  <2>0. was \in Clients
    BY <1>4, <1>6
  <2>1. /\ c.email = p.email /\ c.enable = p.enable /\ c.adTag = p.adTag
        /\ c.links = was.links /\ c.inbounds = was.inbounds
        /\ was.inbounds = {} => /\ c.sub = was.sub /\ c.data = was.data /\ c.key = was.key
                                /\ c.flow = was.flow
        /\ was.inbounds # {} => /\ c.sub = p.sub /\ c.data = p.data
                                /\ c.key = Fitted(KeyOf(was, p), was.inbounds)
                                /\ c.flow = FlowIn(p.flow, was.inbounds)
    <3> HIDE DEF was
    <3> QED BY <1>2, <2>0, WrittenRow, Zenon
  <2>2. server'[i] = c
    <3>1. server' = [server EXCEPT ![i] = c]
      BY <1>3, <1>6, Zenon
    <3> HIDE DEF c
    <3> QED BY <1>1, <3>1, Zenon
  <2>3. /\ was.key \in Keys /\ p.flow \in Flows
        /\ p.key = was.key => KeyOf(was, p) = was.key
    BY <1>2, <1>4, <1>6, RowFields, KeySent, Zenon
  <2>4. /\ ~Misfit(was.key, was.inbounds) => Fitted(was.key, was.inbounds) = was.key
        /\ was.inbounds \cap FlowCapable # {} => FlowIn(p.flow, was.inbounds) = p.flow
    BY <2>3, KeyFits, FlowKept, Zenon
  <2> HIDE DEF c
  <2>5. /\ Kept(p, was, save.changed) /\ was # NoClient
        /\ "adTag" \notin save.changed /\ p.inbounds \cap Mtproto # {} => p.adTag = was.adTag
    <3>1. was = save.base /\ was # NoClient
      BY <1>4, <1>6, Zenon
    <3> QED BY <1>1, <3>1, Zenon DEF SaveOK
  <2> HIDE DEF was
  <2>6. \A n : n \in Fields \ save.changed => n \notin save.changed
    OBVIOUS
  <2>7. /\ "sub" \notin save.changed => c.sub = was.sub
        /\ "email" \notin save.changed => c.email = was.email
        /\ "data" \notin save.changed => c.data \in {was.data, Rounded(was.data)}
        /\ "enable" \notin save.changed => c.enable = was.enable
    BY <2>1, <2>5, Zenon DEF Kept
  <2>8. ASSUME "key" \notin save.changed, "inbounds" \notin save.changed, ~Misfit(was.key, was.inbounds)
        PROVE  c.key = was.key
    BY <2>1, <2>3, <2>4, <2>5, <2>8, Zenon DEF Kept
  <2>9. ASSUME "flow" \notin save.changed, "inbounds" \notin save.changed,
               was.inbounds \cap FlowCapable # {}
        PROVE  c.flow = was.flow
    <3>1. p.flow = was.flow /\ was.inbounds # {}
      BY <2>5, <2>9, Zenon DEF Kept
    <3> QED BY <2>1, <2>4, <2>9, <3>1, Zenon
  <2>10. LeftAlone(was, c)
    BY <2>1, <2>5, <2>6, <2>7, <2>8, <2>9, Zenon DEF LeftAlone
  <2> QED BY <2>2, <2>10, Zenon DEF was
<1> QED BY <1>5, <1>6

\* An edit of a full record nobody has changed leaves what the user did not
\* change as it was (the form, its payload and ClientService.Update together).
THEOREM EditsKeepTheRest == ClientsSpec => UntouchedKept
<1>1. ClientsInv /\ [ClientsNext]_(clientsVars) => UntouchedKept!1
  <2> SUFFICES ASSUME ClientsInv, [ClientsNext]_clientsVars
               PROVE  UntouchedKept!1
    OBVIOUS
  <2> QED BY UpdateKeeps, Zenon DEF LeftAlone
<1> QED BY <1>1, InitClients, StepClients, PTL DEF ClientsSpec, UntouchedKept

LEMMA SaveStored ==
    ASSUME ClientsInv, save.st # "none", save.at = "ok", After(save.st) = "done", save.alone,
           save.made # "known"
    PROVE  LET c == server[save.id]
               p == save.payload
           IN  /\ c # NoClient
               /\ c.email = p.email /\ c.adTag = p.adTag /\ c.links = p.links
               /\ c.enable = (p.enable \/ save.made = "new")
               /\ save.had # {} => c.sub = p.sub /\ c.data = p.data
               /\ (save.had # {} /\ p.key # "none" /\ ~Misfit(p.key, save.had \cup save.attach))
                     => c.key = p.key
               /\ (save.had \cap FlowCapable # {} /\ c.inbounds \cap FlowCapable # {})
                     => c.flow = p.flow
               /\ save.attach \subseteq c.inbounds /\ save.detach \cap c.inbounds = {}
<1> DEFINE c == server[save.id]
           p == save.payload
<1>1. StoredSoFar(save, c) /\ (save.st = "create" => save.attach = {} /\ save.detach = {})
  BY Zenon DEF ClientsInv, StagesOK, Stages, FirstDone
<1>2. save.made \in {"edit", "new"} /\ p.enable \in BOOLEAN
  <2>1. save \in Onsaves
    BY Zenon DEF ClientsInv, SaveOK
  <2>2. save.made \in {"edit", "new", "known"} /\ p \in Clients
    BY <2>1, SMT DEF Onsaves
  <2> QED BY <2>2, RowFields, Zenon
<1> HIDE DEF c
<1>3. c.links = p.links /\ save.attach \subseteq c.inbounds /\ save.detach \cap c.inbounds = {}
  <2>1. CASE save.st = "links"
    BY <1>1, <2>1, Zenon DEF StoredSoFar
  <2>2. CASE save.st # "links"
    <3>1. save.st = "create" /\ p.links = "none"
      <4>1. CASE save.st = "create"
        BY <4>1, Zenon DEF After
      <4>2. CASE save.st # "create"
        BY <2>2, <4>2, Zenon DEF After
      <4> QED BY <4>1, <4>2
    <3>2. c.links = "none" /\ save.attach = {} /\ save.detach = {}
      BY <1>1, <3>1, Zenon DEF StoredSoFar
    <3> QED BY <3>1, <3>2, Zenon
  <2> QED BY <2>1, <2>2
<1>4. c.enable = (p.enable \/ save.made = "new")
  <2>1. CASE save.made = "edit"
    BY <1>1, <1>2, <2>1, Zenon DEF StoredSoFar
  <2>2. CASE save.made = "new"
    BY <1>1, <2>2, Zenon DEF StoredSoFar
  <2> QED BY <1>2, <2>1, <2>2, Zenon
<1> QED BY <1>1, <1>3, <1>4, Zenon DEF StoredSoFar, c

\* A save that reports success and that nobody else touched has stored the
\* whole form, request by request (onSave's update, attach, detach and links).
THEOREM SavesStoreTheForm == ClientsSpec => SavedWhole
<1>1. ClientsInv => SavedWhole!1
  <2> SUFFICES ASSUME ClientsInv PROVE SavedWhole!1
    OBVIOUS
  <2> QED BY SaveStored, Zenon
<1> QED BY <1>1, InitClients, StepClients, PTL DEF ClientsSpec, SavedWhole
=============================================================================
