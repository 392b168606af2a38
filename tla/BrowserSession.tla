--------------------------- MODULE BrowserSession ---------------------------
(***************************************************************************)
(* The session of a browser: the token and the user that localStorage      *)
(* keeps for all tabs, the cookie that the route guard looks at, and what  *)
(* each tab holds of its own: the store, the page, the socket, the pill    *)
(* that shows the connection, the cache of queries and the requests it     *)
(* waits for. JavaScript handlers run to their end; the answers of the     *)
(* server come in any order, and another tab may act in between.           *)
(***************************************************************************)
EXTENDS Integers, Sequences, FiniteSets

CONSTANTS
  Tabs,
  Users,
  Admins,        \* the users with the role ADMIN
  NoUser,
  MaxLogins,     \* bounds the tokens issued
  MaxCalls,      \* bounds the requests of a tab in flight
  Unreliable     \* whether requests may fail: network, rate limit, server error

ASSUME NoUserAssumption == NoUser \notin Users

VARIABLES
  issued,        \* the user of each token the server has signed
  expired,       \* the tokens that are no longer valid
  suspended,     \* the suspended accounts
  stored,        \* localStorage: token and ah_user
  cookie,        \* ah_logged_in
  store,         \* the auth store of each tab
  page,          \* the page of each tab
  socket,        \* the token its socket was opened with
  pill,          \* what ConnectionStatus listens to
  cache,         \* the user whose private data its queries hold
  calls          \* requests in flight

server  == <<issued, expired, suspended>>
browser == <<stored, cookie>>
vars == <<server, browser, store, page, socket, pill, cache, calls>>

-----------------------------------------------------------------------------
(* Tokens, the store, the pages                                            *)

NoToken == 0
NoSocket == -1

Owner(token) == issued[token]

\* authenticate: 401 without a valid token, 403 for a suspended account.
Verified(token) == token # NoToken /\ token \notin expired
Accepted(token) == Verified(token) /\ Owner(token) \notin suspended

Session(token, user) == [token |-> token, user |-> user]
Nobody == Session(NoToken, NoUser)

Store(session, hydrated) == [token |-> session.token, user |-> session.user, hydrated |-> hydrated]
Fresh == Store(Nobody, FALSE)

\* The guarded pages: those of /admin wait for the store to be hydrated.
Private == {"private", "admin"}
Pages == Private \cup {"public", "auth"}

\* The route guard: it sees the cookie only.
Routed(p, logged) ==
  CASE p \in Private /\ ~logged -> "auth"
    [] p = "auth" /\ logged     -> "public"
    [] OTHER                    -> p

\* The effects of a guarded page: without a token it pushes /login.
Guarded(p, session, logged) ==
  CASE p \in Private /\ session.token = NoToken                            -> Routed("auth", logged)
    [] p = "admin" /\ session.user \notin Admins \cup {NoUser}             -> "public"
    [] OTHER                                                               -> p

-----------------------------------------------------------------------------
(* Requests. The interceptor sends the token of localStorage; "held" is    *)
(* the token and "shown" the user of the store when the request was made.  *)

Call(t, kind, user) ==
  [tab |-> t, kind |-> kind, as |-> stored.token, held |-> store[t].token, shown |-> user]

\* AuthProvider validates each new token of the store.
Validation(t, token) ==
  [tab |-> t, kind |-> "me", as |-> token, held |-> token, shown |-> NoUser]

Of(t) == {c \in calls : c.tab = t}

\* setAuth, and the validation if it changes the token of the store.
SetAuth(t, user, token, rest) ==
  /\ stored' = Session(token, user)
  /\ cookie' = TRUE
  /\ store'  = [store EXCEPT ![t] = Store(Session(token, user), @.hydrated)]
  /\ calls'  = IF token = store[t].token THEN rest ELSE rest \cup {Validation(t, token)}

\* logout of the store, and the effect of a guarded page.
SignOut(t, rest) ==
  /\ stored' = Nobody
  /\ cookie' = FALSE
  /\ store'  = [store EXCEPT ![t] = Store(Nobody, @.hydrated)]
  /\ page'   = [page EXCEPT ![t] = Guarded(@, Nobody, FALSE)]
  /\ calls'  = rest

\* A new document: the memory of the tab is lost, and with it what it waits for.
NewDocument(t, p) ==
  /\ store'  = [store EXCEPT ![t] = Fresh]
  /\ page'   = [page EXCEPT ![t] = p]
  /\ socket' = [socket EXCEPT ![t] = NoSocket]
  /\ pill'   = [pill EXCEPT ![t] = "none"]
  /\ cache'  = [cache EXCEPT ![t] = NoUser]
  /\ calls'  = calls \ Of(t)

-----------------------------------------------------------------------------
(* The user in a tab                                                       *)

\* Opening or reloading a page.
Load(t, p) ==
  /\ NewDocument(t, Routed(p, cookie))
  /\ UNCHANGED <<server, browser>>

\* The effects of the first render: that of the page, with the store still empty,
\* before that of AuthProvider, which hydrates and validates; the pill is shown then.
Mount(t) ==
  /\ page[t] \in Pages
  /\ ~store[t].hydrated
  /\ page'   = [page EXCEPT ![t] = LET early == IF @ = "private" THEN Guarded(@, Nobody, cookie) ELSE @
                                   IN  Guarded(early, stored, cookie)]
  /\ store'  = [store EXCEPT ![t] = Store(stored, TRUE)]
  /\ cookie' = (cookie \/ stored.token # NoToken)
  /\ calls'  = IF stored.token = NoToken THEN calls ELSE calls \cup {Validation(t, stored.token)}
  /\ socket' = [socket EXCEPT ![t] = stored.token]
  /\ pill'   = [pill EXCEPT ![t] = "follows"]
  /\ UNCHANGED <<server, stored, cache>>

\* A link: the guard of the routes, then the effects of the page.
Navigate(t, p) ==
  /\ store[t].hydrated
  /\ page' = [page EXCEPT ![t] = Guarded(Routed(p, cookie), store[t], cookie)]
  /\ UNCHANGED <<server, browser, store, socket, pill, cache, calls>>

\* A page that listens to the socket opens one if there is none.
OpenSocket(t) ==
  /\ store[t].hydrated
  /\ socket[t] = NoSocket
  /\ socket' = [socket EXCEPT ![t] = stored.token]
  /\ UNCHANGED <<server, browser, store, page, pill, cache, calls>>

\* The form of the login or of the register page.
SubmitLogin(t, user) ==
  /\ page[t] = "auth"
  /\ store[t].hydrated
  /\ \A c \in Of(t) : c.kind # "login"
  /\ calls' = calls \cup {Call(t, "login", user)}
  /\ UNCHANGED <<server, browser, store, page, socket, pill, cache>>

\* Mutation: the cookie is forgotten.
LogoutKeepsCookie(t) ==
  /\ store[t].hydrated
  /\ store[t].user # NoUser
  /\ stored' = Nobody
  /\ store'  = [store EXCEPT ![t] = Store(Nobody, TRUE)]
  /\ socket' = [socket EXCEPT ![t] = NoSocket]
  /\ pill'   = [pill EXCEPT ![t] = "deaf"]
  /\ page'   = [page EXCEPT ![t] = Routed("auth", cookie)]
  /\ UNCHANGED <<server, cookie, cache, calls>>

\* The Logout of the navigation bar.
Logout(t) ==
  /\ store[t].hydrated
  /\ store[t].user # NoUser
  /\ stored' = Nobody
  /\ cookie' = FALSE
  /\ store'  = [store EXCEPT ![t] = Store(Nobody, TRUE)]
  /\ socket' = [socket EXCEPT ![t] = NoSocket]
  /\ pill'   = [pill EXCEPT ![t] = "deaf"]
  /\ page'   = [page EXCEPT ![t] = Routed("auth", FALSE)]
  /\ UNCHANGED <<server, cache, calls>>

\* The Log out of the profile page, which leaves the socket open.
LogoutOnProfile(t) ==
  /\ page[t] = "private"
  /\ store[t].user # NoUser
  /\ SignOut(t, calls)
  /\ UNCHANGED <<server, socket, pill, cache>>

\* A query of a private page, and the save of the profile page.
Fetch(t) ==
  /\ page[t] \in Private
  /\ store[t].user # NoUser
  /\ calls' = calls \cup {Call(t, "data", store[t].user)}
  /\ UNCHANGED <<server, browser, store, page, socket, pill, cache>>

SaveProfile(t) ==
  /\ page[t] = "private"
  /\ store[t].user # NoUser
  /\ \A c \in Of(t) : c.kind # "profile"
  /\ calls' = calls \cup {Call(t, "profile", store[t].user)}
  /\ UNCHANGED <<server, browser, store, page, socket, pill, cache>>

-----------------------------------------------------------------------------
(* Answers                                                                 *)

\* login or register: the server signs a token; setAuth, reconnectSocket, /auctions.
LoggedIn(c) ==
  /\ c.kind = "login"
  /\ c.shown \notin suspended
  /\ Len(issued) < MaxLogins
  /\ issued' = Append(issued, c.shown)
  /\ SetAuth(c.tab, c.shown, Len(issued'), calls \ {c})
  /\ socket' = [socket EXCEPT ![c.tab] = Len(issued')]
  /\ pill'   = [pill EXCEPT ![c.tab] = "deaf"]
  /\ page'   = [page EXCEPT ![c.tab] = "public"]
  /\ UNCHANGED <<expired, suspended, cache>>

\* Mutation: the answer is stored with the token the store has by now.
ValidatedLate(c) ==
  /\ c.kind = "me"
  /\ Accepted(c.as)
  /\ SetAuth(c.tab, Owner(c.as), store[c.tab].token, calls \ {c})
  /\ UNCHANGED <<server, page, socket, pill, cache>>

\* getMe: the user of the token sent, stored with the token held when it was sent.
Validated(c) ==
  /\ c.kind = "me"
  /\ Accepted(c.as)
  /\ SetAuth(c.tab, Owner(c.as), c.held, calls \ {c})
  /\ UNCHANGED <<server, page, socket, pill, cache>>

\* A 401 on /auth/me: with a token in localStorage the interceptor empties it and loads
\* /login; the rejection reaches the catch of AuthProvider all the same.
Rejected(c) ==
  /\ c.kind = "me"
  /\ ~Verified(c.as)
  /\ IF stored.token # NoToken
     THEN /\ NewDocument(c.tab, "auth")
          /\ stored' = Nobody
          /\ cookie' = FALSE
     ELSE /\ SignOut(c.tab, calls \ {c})
          /\ UNCHANGED <<socket, pill, cache>>
  /\ UNCHANGED server

\* Any other failure of /auth/me: suspended, rate limited, out of reach.
ValidationFailed(c) ==
  /\ c.kind = "me"
  /\ Verified(c.as)
  /\ Unreliable \/ ~Accepted(c.as)
  /\ SignOut(c.tab, calls \ {c})
  /\ UNCHANGED <<server, socket, pill, cache>>

\* The user that the server changed, stored with the token held when the form was sent.
ProfileSaved(c) ==
  /\ c.kind = "profile"
  /\ Accepted(c.as)
  /\ SetAuth(c.tab, Owner(c.as), c.held, calls \ {c})
  /\ UNCHANGED <<server, page, socket, pill, cache>>

Fetched(c) ==
  /\ c.kind = "data"
  /\ Accepted(c.as)
  /\ cache' = [cache EXCEPT ![c.tab] = Owner(c.as)]
  /\ calls' = calls \ {c}
  /\ UNCHANGED <<server, browser, store, page, socket, pill>>

\* Any other call that fails shows an error at most.
Refused(c) ==
  /\ CASE c.kind = "login"             -> Unreliable \/ c.shown \in suspended
       [] c.kind \in {"profile", "data"} -> Unreliable \/ ~Accepted(c.as)
       [] OTHER                          -> FALSE
  /\ calls' = calls \ {c}
  /\ UNCHANGED <<server, browser, store, page, socket, pill, cache>>

Answer(c) ==
  LoggedIn(c) \/ Validated(c) \/ Rejected(c) \/ ValidationFailed(c) \/ ProfileSaved(c) \/ Fetched(c) \/ Refused(c)

-----------------------------------------------------------------------------
(* The server's side of a session                                          *)

Expire(token) ==
  /\ expired' = expired \cup {token}
  /\ UNCHANGED <<issued, suspended, browser, store, page, socket, pill, cache, calls>>

Suspend(user) ==
  /\ suspended' = suspended \cup {user}
  /\ UNCHANGED <<issued, expired, browser, store, page, socket, pill, cache, calls>>

Init ==
  /\ issued = <<>>
  /\ expired = {}
  /\ suspended = {}
  /\ stored = Nobody
  /\ cookie = FALSE
  /\ store  = [t \in Tabs |-> Fresh]
  /\ page   = [t \in Tabs |-> "closed"]
  /\ socket = [t \in Tabs |-> NoSocket]
  /\ pill   = [t \in Tabs |-> "none"]
  /\ cache  = [t \in Tabs |-> NoUser]
  /\ calls  = {}

Act(t) ==
  \/ \E p \in Pages : Load(t, p) \/ Navigate(t, p)
  \/ Mount(t)
  \/ OpenSocket(t)
  \/ Logout(t)
  \/ LogoutOnProfile(t)
  \/ Cardinality(Of(t)) < MaxCalls /\ (Fetch(t) \/ SaveProfile(t) \/ \E u \in Users : SubmitLogin(t, u))

Next ==
  \/ \E t \in Tabs : Act(t)
  \/ \E c \in calls : Answer(c)
  \/ \E token \in DOMAIN issued : Expire(token)
  \/ \E u \in Users : Suspend(u)

Spec == Init /\ [][Next]_vars

-----------------------------------------------------------------------------
(* Properties                                                              *)

Whole(session) == (session.token = NoToken) <=> (session.user = NoUser)

\* A session is kept or dropped as a whole, in localStorage, in the cookie and in every
\* store, whatever order setAuth, logout, hydrate and the interceptor run in and in
\* whatever tab: the routes let in exactly who has a token, and no page shows a user
\* without one.
SessionWhole ==
  /\ Whole(stored)
  /\ cookie <=> stored.token # NoToken
  /\ \A t \in Tabs : Whole(store[t])

\* Every request that a page makes for the user it shows is made in the name of that
\* user, although the interceptor takes the token from localStorage and answers to
\* older requests write what they held (one tab; with more it fails, session_tabs.cfg).
ActsAsShown ==
  \A c \in calls : c.kind \in {"profile", "data"} /\ c.as # NoToken => Owner(c.as) = c.shown

-----------------------------------------------------------------------------
(* What documents and comments say and the code does not do                *)

\* "Call this on logout so the next getSocket() creates a fresh connection": a socket
\* has the token that the store of its tab has.
SocketAsShown ==
  \A t \in Tabs : store[t].hydrated /\ socket[t] # NoSocket => socket[t] = store[t].token

\* The private data of a page are those of the user it shows.
CacheIsOwn ==
  \A t \in Tabs : page[t] \in Private /\ store[t].user # NoUser => cache[t] \in {NoUser, store[t].user}

\* A tab that is signed out is signed in again by a login alone.
LogoutLasts ==
  [][\A t \in Tabs : store[t].hydrated /\ store[t].token = NoToken /\ store'[t].token # NoToken
       => issued' # issued]_vars

\* "A 401 on these means the session is genuinely dead": validating a token ends no
\* session whose token is valid.
OnlyDeadEnd ==
  [][(\E c \in calls \ calls' : c.kind = "me") /\ stored.token # NoToken /\ Accepted(stored.token)
       => stored'.token # NoToken]_vars

\* "Components that should render differently based on auth state gate on isHydrated":
\* a guarded page that is loaded with a session stays.
ReloadStays ==
  [][\A t \in Tabs : ~store[t].hydrated /\ store'[t].hydrated /\ page[t] = "private" /\ stored.token # NoToken
       => page'[t] = page[t]]_vars

\* "The four listeners carry every transition afterwards": the pill listens to the
\* socket that the tab has open.
PillFollows == \A t \in Tabs : pill[t] = "deaf" => socket[t] = NoSocket
=============================================================================
