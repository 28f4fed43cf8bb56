------------------------------- MODULE WebSession -------------------------------
(***************************************************************************)
(* The session of one browser: the sealed cookie the web server hands it,  *)
(* and the rotating refresh token of the API behind it.  Tabs send         *)
(* requests side by side.  Each carries the cookie as the browser holds it *)
(* when it is sent; a request that may refresh the session exchanges the   *)
(* refresh token when the access token has run out, and the cookie changes *)
(* when the reply reaches the browser.                                     *)
(*                                                                         *)
(* The API keeps one refresh token per session.  It checks the token it is *)
(* given and then writes the next one; a second exchange of the same token *)
(* that comes later is refused, and a refusal deletes the cookie.          *)
(***************************************************************************)
EXTENDS Naturals

CONSTANTS
    Tabs,
    MaxLogins, MaxTokens    \* bounds: logins, refresh tokens issued

ASSUME WebSessionAssumption == MaxLogins \in Nat /\ MaxTokens \in Nat

VARIABLES
    jar,            \* the cookie of the browser
    kept,           \* kept[s]: the refresh token that opens session s at the API, or 0
    logins, tokens, \* how many sessions were opened, and tokens issued
    aged,           \* the cookies whose access token has run out
    tabs,           \* tabs[b]: the request of tab b, and how far it has come
    wish,           \* what the user asked for last, "in" or "out"
    spoiled         \* cookie-writing requests overlapped, a call failed, or the user was blocked

webVars == <<jar, kept, logins, tokens, aged, tabs, wish, spoiled>>

NoCookie == [session |-> 0, token |-> 0]
Cookies == [session : 1..MaxLogins, token : 1..MaxTokens]
Unused == [stage |-> "idle"]
Requests ==
    [stage : {"call"}, cookie : Cookies, may : BOOLEAN]
    \cup [stage : {"refresh", "rotate", "logout", "revoke"}, cookie : Cookies]
    \cup [stage : {"login"}]
    \cup [stage : {"reply"}, cookie : Cookies \cup {NoCookie}]

WebSessionTypeOK ==
    /\ jar \in Cookies \cup {NoCookie}
    /\ logins \in 0..MaxLogins /\ tokens \in 0..MaxTokens
    /\ kept \in [1..MaxLogins -> 0..MaxTokens]
    /\ aged \subseteq 1..MaxTokens
    /\ tabs \in [Tabs -> Requests \cup {Unused}]
    /\ wish \in {"in", "out"} /\ spoiled \in BOOLEAN

WebSessionInit ==
    /\ jar = NoCookie /\ kept = [s \in 1..MaxLogins |-> 0]
    /\ logins = 0 /\ tokens = 0 /\ aged = {}
    /\ tabs = [b \in Tabs |-> Unused]
    /\ wish = "out" /\ spoiled = FALSE

-------------------------------------------------------------------------------
HasRunOut(cookie) == cookie.token \in aged
Unlocks(cookie) == kept[cookie.session] = cookie.token

\* A request that writes the cookie, or may come to.
MayWrite(b) == tabs[b] # Unused /\ (tabs[b].stage = "call" => tabs[b].may)
Overlaps(b) == \E c \in Tabs \ {b} : MayWrite(c)

Move(b, request) == tabs' = [tabs EXCEPT ![b] = request]
Answer(b, cookie) == Move(b, [stage |-> "reply", cookie |-> cookie])
Keep(s, t) == kept' = [kept EXCEPT ![s] = t]

\* The cookie of a request is the one the browser had when it was sent.
SendRequest(b, may) ==
    /\ tabs[b] = Unused
    /\ jar # NoCookie
    /\ ~HasRunOut(jar) \/ may
    /\ IF HasRunOut(jar)
       THEN Move(b, [stage |-> "refresh", cookie |-> jar])
       ELSE Move(b, [stage |-> "call", cookie |-> jar, may |-> may])
    /\ spoiled' = (spoiled \/ (may /\ Overlaps(b)))
    /\ UNCHANGED <<jar, kept, logins, tokens, aged, wish>>

\* A definition whose name ends in X is a faulty variant of the one after it.
\* every request may refresh
MayRefreshX(request) == TRUE
MayRefresh(request) == request.may

\* The API answers; to an access token that has run out meanwhile, with 401.
Call(b) ==
    /\ tabs[b].stage = "call"
    /\ IF HasRunOut(tabs[b].cookie) /\ MayRefresh(tabs[b])
       THEN Move(b, [stage |-> "refresh", cookie |-> tabs[b].cookie])
       ELSE Move(b, Unused)
    /\ UNCHANGED <<jar, kept, logins, tokens, aged, wish, spoiled>>

\* POST /auth/refresh finds the session by the token ...
AskForToken(b) ==
    /\ tabs[b].stage = "refresh"
    /\ IF Unlocks(tabs[b].cookie)
       THEN Move(b, [stage |-> "rotate", cookie |-> tabs[b].cookie])
       ELSE Answer(b, NoCookie)
    /\ UNCHANGED <<jar, kept, logins, tokens, aged, wish, spoiled>>

NextCookie(cookie) == [cookie EXCEPT !.token = tokens + 1]

\* ... and writes its row back with the next one; the call that had failed is repeated.
Rotate(b) ==
    LET cookie == tabs[b].cookie IN
    /\ tabs[b].stage = "rotate"
    /\ tokens < MaxTokens
    /\ tokens' = tokens + 1
    /\ Keep(cookie.session, tokens + 1)
    /\ Answer(b, NextCookie(cookie))
    /\ UNCHANGED <<jar, logins, aged, wish, spoiled>>

\* The user is blocked, or the call fails before or after the API wrote: whatever the
\* reason, the cookie goes.
FailRefresh(b) ==
    LET cookie == tabs[b].cookie IN
    /\ tabs[b].stage \in {"refresh", "rotate"}
    /\ \/ UNCHANGED <<kept, tokens>>
       \/ /\ tabs[b].stage = "rotate" /\ tokens < MaxTokens
          /\ tokens' = tokens + 1
          /\ Keep(cookie.session, tokens + 1)
    /\ Answer(b, NoCookie)
    /\ spoiled' = TRUE
    /\ UNCHANGED <<jar, logins, aged, wish>>

\* The reply reaches the browser, with Set-Cookie.
ReceiveReply(b) ==
    /\ tabs[b].stage = "reply"
    /\ jar' = tabs[b].cookie
    /\ Move(b, Unused)
    /\ UNCHANGED <<kept, logins, tokens, aged, wish, spoiled>>

\* A call fails, or the browser has left the page by the time the reply comes.
LoseRequest(b) ==
    /\ tabs[b] # Unused
    /\ Move(b, Unused)
    /\ spoiled' = (spoiled \/ MayWrite(b))
    /\ UNCHANGED <<jar, kept, logins, tokens, aged, wish>>

-------------------------------------------------------------------------------
StartLogin(b) ==
    /\ tabs[b] = Unused
    /\ Move(b, [stage |-> "login"])
    /\ wish' = "in"
    /\ spoiled' = (spoiled \/ Overlaps(b))
    /\ UNCHANGED <<jar, kept, logins, tokens, aged>>

Login(b) ==
    /\ tabs[b].stage = "login"
    /\ logins < MaxLogins /\ tokens < MaxTokens
    /\ logins' = logins + 1 /\ tokens' = tokens + 1
    /\ Keep(logins + 1, tokens + 1)
    /\ Answer(b, [session |-> logins + 1, token |-> tokens + 1])
    /\ UNCHANGED <<jar, aged, wish, spoiled>>

StartLogout(b) ==
    /\ tabs[b] = Unused
    /\ jar # NoCookie
    /\ Move(b, [stage |-> "logout", cookie |-> jar])
    /\ wish' = "out"
    /\ spoiled' = (spoiled \/ Overlaps(b))
    /\ UNCHANGED <<jar, kept, logins, tokens, aged>>

AfterRefusedLogout(cookie) == NoCookie

\* POST /auth/logout finds the session by the token ...
AskToRevoke(b) ==
    /\ tabs[b].stage = "logout"
    /\ IF Unlocks(tabs[b].cookie)
       THEN Move(b, [stage |-> "revoke", cookie |-> tabs[b].cookie])
       ELSE Answer(b, AfterRefusedLogout(tabs[b].cookie))
    /\ UNCHANGED <<jar, kept, logins, tokens, aged, wish, spoiled>>

\* ... and revokes it; the cookie goes whatever the API says.
Revoke(b) ==
    /\ tabs[b].stage = "revoke"
    /\ Keep(tabs[b].cookie.session, 0)
    /\ Answer(b, NoCookie)
    /\ UNCHANGED <<jar, logins, tokens, aged, wish, spoiled>>

FailLogout(b) ==
    /\ tabs[b].stage \in {"logout", "revoke"}
    /\ Answer(b, NoCookie)
    /\ spoiled' = TRUE
    /\ UNCHANGED <<jar, kept, logins, tokens, aged, wish>>

-------------------------------------------------------------------------------
\* An access token runs out.
Age ==
    /\ \E t \in (1..tokens) \ aged : aged' = aged \cup {t}
    /\ UNCHANGED <<jar, kept, logins, tokens, tabs, wish, spoiled>>

\* An administrator changes the user: his sessions end.
Govern ==
    /\ \E s \in 1..logins : kept[s] # 0
    /\ kept' = [s \in 1..MaxLogins |-> 0]
    /\ UNCHANGED <<jar, logins, tokens, aged, tabs, wish, spoiled>>

WebSessionNext ==
    \/ \E b \in Tabs :
        \/ \E may \in BOOLEAN : SendRequest(b, may)
        \/ Call(b) \/ AskForToken(b) \/ Rotate(b) \/ FailRefresh(b)
        \/ ReceiveReply(b) \/ LoseRequest(b)
        \/ StartLogin(b) \/ Login(b) \/ StartLogout(b) \/ AskToRevoke(b) \/ Revoke(b) \/ FailLogout(b)
    \/ Age \/ Govern

-------------------------------------------------------------------------------
(* Whoever logged in stays logged in, with the token the API expects next, *)
(* until the API itself ends the session, and whoever logged out is logged *)
(* out here and there -- unless requests that write the cookie overlapped  *)
(* or one of them failed.  Requests that must not refresh (pages that      *)
(* load data) may overlap with anything.                                   *)
CookieFollowsTheSession ==
    ~spoiled /\ (\A b \in Tabs : ~MayWrite(b)) =>
        IF wish = "in"
        THEN IF jar = NoCookie THEN kept[logins] = 0
             ELSE jar.session = logins /\ kept[logins] \in {0, jar.token}
        ELSE jar = NoCookie /\ (logins = 0 \/ kept[logins] = 0)
================================================================================
