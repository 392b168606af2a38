--------------------------------- MODULE FrontEndProofs --------------------------------
(***************************************************************************)
(* Theorems about four components of the front end, for any instances.     *)
(*                                                                         *)
(* BrowserSession: whatever tabs, users and answers do, a session is kept  *)
(* or dropped as a whole, and with one tab every request is made for the   *)
(* user shown.  PricePanel: the panel of the auction page holds money once *)
(* for what its user entered, and its buttons come back.  AuctionNotices:  *)
(* the page shows the end that was announced, and toasts go in time.       *)
(* CreateForm: a Dutch auction lasts as long as its form said.             *)
(***************************************************************************)
EXTENDS BrowserSession, AuctionNotices,
        FiniteSetTheorems, NaturalsInduction, WellFoundedInduction, SequenceTheorems, TLAPS

Tokens    == 0 .. Len(issued)
UserOrNo  == Users \cup {NoUser}
CallKinds == {"login", "me", "profile", "data"}
Calls     == [tab : Tabs, kind : CallKinds, as : Tokens, held : Tokens, shown : UserOrNo]

\* The rows, the store and the requests are typed; tokens are among those issued.
SessionTypeOK ==
  /\ issued \in Seq(Users)
  /\ stored \in [token : Tokens, user : UserOrNo]
  /\ store \in [Tabs -> [token : Tokens, user : UserOrNo, hydrated : BOOLEAN]]
  /\ calls \subseteq Calls

\* A login names a user; an answer that will be stored has a token to be stored with.
Storable(c) ==
  /\ c.kind = "login" => c.shown \in Users
  /\ c.kind \in {"me", "profile"} => c.held # NoToken

Inv == SessionTypeOK /\ (\A c \in calls : Storable(c)) /\ SessionWhole

\* The server signs at most one more token.
Signs == issued' = issued \/ \E u \in Users : issued' = Append(issued, u)

-----------------------------------------------------------------------------
(* Steps that several actions share                                        *)

\* Tokens stay what they are.
LEMMA TokensStay ==
  ASSUME SessionTypeOK, Signs
  PROVE  /\ issued' \in Seq(Users)
         /\ Tokens \subseteq Tokens'
         /\ \A i \in 1 .. Len(issued) : issued'[i] = issued[i]
         /\ Len(issued') \in Nat
<1>1. CASE issued' = issued
  BY <1>1 DEF SessionTypeOK, Tokens
<1>2. CASE \E u \in Users : issued' = Append(issued, u)
  <2>1. PICK u \in Users : issued' = Append(issued, u)
    BY <1>2
  <2> QED
    BY <2>1 DEF SessionTypeOK, Tokens
<1> QED
  BY <1>1, <1>2 DEF Signs

\* What was typed stays typed.
LEMMA CallsStay ==
  ASSUME Inv, Signs
  PROVE  /\ calls \subseteq Calls'
         /\ \A c \in calls : Storable(c)
<1> USE DEF Inv, SessionTypeOK
<1>1. Tokens \subseteq Tokens'
  BY TokensStay
<1> QED
  BY <1>1 DEF Calls, UserOrNo

\* The user of an accepted token is a user.
LEMMA OwnersAreUsers ==
  ASSUME SessionTypeOK, NEW token \in Tokens, Accepted(token)
  PROVE  Owner(token) \in Users /\ token # NoToken
  BY DEF SessionTypeOK, Tokens, Accepted, Verified, Owner, NoToken

\* setAuth keeps a session whole.
LEMMA SetAuthKeeps ==
  ASSUME Inv, Signs, NEW t \in Tabs, NEW user \in Users, NEW token \in Tokens', token # NoToken,
         NEW rest \in SUBSET calls, SetAuth(t, user, token, rest)
  PROVE  Inv'
<1> USE DEF Inv
<1>1. /\ issued' \in Seq(Users) /\ Tokens \subseteq Tokens'
  BY TokensStay
<1>2. stored' = [token |-> token, user |-> user]
  BY DEF SetAuth, Session
<1>3. store' = [store EXCEPT ![t] = [token |-> token, user |-> user,
      hydrated |-> store[t].hydrated]]
  BY DEF SetAuth, Session, Store
<1>4. SessionTypeOK'
  <2>1. store' \in [Tabs -> [token : Tokens', user : UserOrNo, hydrated : BOOLEAN]]
    BY <1>1, <1>3 DEF SessionTypeOK, UserOrNo
  <2>2. Validation(t, token) \in Calls'
    BY DEF Validation, Calls, CallKinds, UserOrNo
  <2>3. calls' \subseteq Calls'
    BY <2>2, CallsStay DEF SetAuth
  <2> QED
    BY <1>1, <1>2, <2>1, <2>3 DEF SessionTypeOK, UserOrNo
<1>5. \A c \in calls' : Storable(c)
  <2>1. Storable(Validation(t, token))
    BY DEF Validation, Storable
  <2> QED
    BY <2>1, CallsStay DEF SetAuth
<1>6. SessionWhole'
  <2>1. user # NoUser
    BY NoUserAssumption
  <2>2. cookie' = TRUE
    BY DEF SetAuth
  <2>3. ASSUME NEW s \in Tabs PROVE Whole(store'[s])
    <3>1. CASE s = t
      BY <3>1, <1>3, <2>1 DEF Whole, SessionTypeOK
    <3>2. CASE s # t
      BY <3>2, <1>3 DEF SessionWhole, SessionTypeOK
    <3> QED
      BY <3>1, <3>2
  <2> QED
    BY <1>2, <2>1, <2>2, <2>3 DEF SessionWhole, Whole
<1> QED
  BY <1>4, <1>5, <1>6

\* A store that is emptied, hydrated or not.
LEMMA EmptiedKeeps ==
  ASSUME Inv, NEW t \in Tabs, NEW h \in BOOLEAN,
         store' = [store EXCEPT ![t] = Store(Nobody, h)],
         \/ stored' = stored /\ cookie' = cookie
         \/ stored' = Nobody /\ cookie' = FALSE,
         UNCHANGED issued, calls' \subseteq calls
  PROVE  Inv'
<1> USE DEF Inv
<1>1. Store(Nobody, h) = [token |-> 0, user |-> NoUser, hydrated |-> h]
  BY DEF Store, Nobody, Session, NoToken
<1>2. Nobody = [token |-> 0, user |-> NoUser]
  BY DEF Nobody, Session, NoToken
<1>3. 0 \in Tokens /\ Tokens' = Tokens
  BY DEF Tokens, SessionTypeOK
<1>4. SessionTypeOK'
  BY <1>1, <1>2, <1>3 DEF SessionTypeOK, UserOrNo, Calls
<1>5. ASSUME NEW s \in Tabs PROVE Whole(store'[s])
  <2>1. CASE s = t
    BY <2>1, <1>1 DEF Whole, SessionTypeOK, NoToken
  <2>2. CASE s # t
    BY <2>2 DEF SessionWhole, SessionTypeOK
  <2> QED
    BY <2>1, <2>2
<1>6. SessionWhole'
  BY <1>2, <1>5 DEF SessionWhole, Whole, NoToken
<1> QED
  BY <1>4, <1>6 DEF Storable

\* A step that leaves sessions alone, and adds a request at most.
LEMMA RequestKeeps ==
  ASSUME Inv, UNCHANGED <<issued, browser, store>>,
         \A c \in calls' \ calls : c \in Calls /\ Storable(c)
  PROVE  Inv'
<1>1. Calls' = Calls /\ Tokens' = Tokens
  BY DEF Calls, Tokens
<1> QED
  BY <1>1 DEF Inv, SessionTypeOK, SessionWhole, Storable, browser

-----------------------------------------------------------------------------
(* The actions                                                             *)

LEMMA UserKeeps ==
  ASSUME Inv, NEW t \in Tabs, Act(t)
  PROVE  Inv'
<1>1. ASSUME NEW p \in Pages, Load(t, p) PROVE Inv'
  BY <1>1, EmptiedKeeps DEF Load, NewDocument, Fresh, server, browser
<1>2. ASSUME NEW p \in Pages, Navigate(t, p) PROVE Inv'
  BY <1>2, RequestKeeps DEF Navigate, server
<1>3. CASE Mount(t)
  <2> USE DEF Inv
  <2>1. store' = [store EXCEPT ![t] = [token |-> stored.token, user |-> stored.user,
        hydrated |-> TRUE]]
    BY <1>3 DEF Mount, Store
  <2>2. UNCHANGED <<issued, stored>> /\ Tokens' = Tokens /\ Calls' = Calls
    BY <1>3 DEF Mount, server, Tokens, Calls
  <2>3. \A c \in calls' : c \in Calls /\ Storable(c)
    BY <1>3 DEF Mount, Validation, SessionTypeOK, Calls, CallKinds, Storable, UserOrNo
  <2>4. SessionTypeOK'
    BY <2>1, <2>2, <2>3 DEF SessionTypeOK
  <2>5. ASSUME NEW s \in Tabs PROVE Whole(store'[s])
    <3>1. CASE s = t
      BY <3>1, <2>1 DEF Whole, SessionTypeOK, SessionWhole
    <3>2. CASE s # t
      BY <3>2, <2>1 DEF SessionWhole, SessionTypeOK
    <3> QED
      BY <3>1, <3>2
  <2>6. cookie' <=> stored'.token # NoToken
    BY <1>3, <2>2 DEF Mount, SessionWhole
  <2> QED
    BY <2>2, <2>3, <2>4, <2>5, <2>6 DEF SessionWhole
<1>4. CASE OpenSocket(t)
  BY <1>4, RequestKeeps DEF OpenSocket, server
<1>5. CASE Logout(t) \/ LogoutOnProfile(t)
  <2>1. store[t].hydrated \in BOOLEAN
    BY DEF Inv, SessionTypeOK
  <2> QED
    BY <1>5, <2>1, EmptiedKeeps DEF Logout, LogoutOnProfile, SignOut, server
<1>6. CASE Fetch(t) \/ SaveProfile(t)
  <2>1. store[t].token # NoToken /\ store[t].token \in Tokens /\ stored.token \in Tokens
    BY <1>6 DEF Fetch, SaveProfile, Inv, SessionWhole, Whole, SessionTypeOK
  <2>2. \A k \in {"data", "profile"} : Call(t, k, store[t].user) \in Calls /\ Storable(Call(t,
        k, store[t].user))
    BY <2>1 DEF Call, Calls, CallKinds, Storable, Inv, SessionTypeOK
  <2> QED
    BY <1>6, <2>2, RequestKeeps DEF Fetch, SaveProfile, server
<1>7. ASSUME NEW u \in Users, SubmitLogin(t, u) PROVE Inv'
  <2>1. Call(t, "login", u) \in Calls /\ Storable(Call(t, "login", u))
    BY DEF Call, Calls, CallKinds, Storable, Inv, SessionTypeOK, UserOrNo
  <2> QED
    BY <1>7, <2>1, RequestKeeps DEF SubmitLogin, server
<1> QED
  BY <1>1, <1>2, <1>3, <1>4, <1>5, <1>6, <1>7 DEF Act

LEMMA AnswerKeeps ==
  ASSUME Inv, NEW c \in calls, Answer(c)
  PROVE  Inv'
<1>1. c \in Calls /\ Storable(c) /\ c.tab \in Tabs /\ c.as \in Tokens /\ c.held \in Tokens
  BY DEF Inv, SessionTypeOK, Calls
<1>2. CASE LoggedIn(c)
  <2>1. c.shown \in Users
    BY <1>1, <1>2 DEF LoggedIn, Storable
  <2>2. Signs /\ issued' = Append(issued, c.shown)
    BY <1>2, <2>1 DEF LoggedIn, Signs
  <2>3. Len(issued') \in Tokens' /\ Len(issued') # NoToken
    BY <2>1, <2>2 DEF Inv, SessionTypeOK, Tokens, NoToken
  <2> QED
    BY <1>1, <1>2, <2>1, <2>2, <2>3, SetAuthKeeps DEF LoggedIn
<1>3. CASE Validated(c) \/ ProfileSaved(c)
  <2>1. Owner(c.as) \in Users
    BY <1>1, <1>3, OwnersAreUsers DEF Validated, ProfileSaved, Inv
  <2>2. issued' = issued /\ Signs /\ c.held \in Tokens' /\ c.held # NoToken
    BY <1>1, <1>3 DEF Validated, ProfileSaved, server, Signs, Tokens, Storable
  <2> QED
    BY <1>1, <1>3, <2>1, <2>2, SetAuthKeeps DEF Validated, ProfileSaved
<1>4. CASE Rejected(c) \/ ValidationFailed(c)
  <2>1. store[c.tab].hydrated \in BOOLEAN
    BY <1>1 DEF Inv, SessionTypeOK
  <2>2. CASE Rejected(c) /\ stored.token # NoToken
    BY <1>1, <2>2, EmptiedKeeps DEF Rejected, NewDocument, Fresh, server
  <2>3. CASE Rejected(c) /\ ~(stored.token # NoToken)
    BY <1>1, <2>1, <2>3, EmptiedKeeps DEF Rejected, SignOut, server
  <2>4. CASE ValidationFailed(c)
    BY <1>1, <2>1, <2>4, EmptiedKeeps DEF ValidationFailed, SignOut, server
  <2> QED
    BY <1>4, <2>2, <2>3, <2>4
<1>5. CASE Fetched(c) \/ Refused(c)
  BY <1>5, RequestKeeps DEF Fetched, Refused, server
<1> QED
  BY <1>2, <1>3, <1>4, <1>5 DEF Answer

LEMMA NextKeeps ==
  ASSUME Inv, [Next]_vars
  PROVE  Inv'
<1>1. ASSUME NEW token \in DOMAIN issued, Expire(token) PROVE Inv'
  BY <1>1, RequestKeeps DEF Expire
<1>2. ASSUME NEW u \in Users, Suspend(u) PROVE Inv'
  BY <1>2, RequestKeeps DEF Suspend
<1>3. CASE UNCHANGED vars
  BY <1>3, RequestKeeps DEF vars, server
<1> QED
  BY <1>1, <1>2, <1>3, UserKeeps, AnswerKeeps DEF Next

LEMMA InitSound == Init => Inv
<1> SUFFICES ASSUME Init PROVE Inv
  OBVIOUS
<1>1. Fresh = [token |-> 0, user |-> NoUser, hydrated |-> FALSE] /\ Nobody = [token |-> 0,
      user |-> NoUser]
  BY DEF Fresh, Store, Nobody, Session, NoToken
<1> QED
  BY <1>1 DEF Init, Inv, SessionTypeOK, SessionWhole, Whole, Tokens, UserOrNo, NoToken

\* A session is whole in every reachable state, for all tabs, users and orders of answers.
THEOREM SessionsAreWhole == Spec => []SessionWhole
<1>1. Inv => SessionWhole
  BY DEF Inv
<1> QED
  BY <1>1, InitSound, NextKeeps, PTL DEF Spec

-----------------------------------------------------------------------------
(* One tab                                                                 *)

OneTab == \A t, u \in Tabs : t = u

\* localStorage holds a token with its owner; the store of the tab is a copy of it from
\* its hydration on, and before that the tab waits for nothing.
StoredIsOwn == stored.token # NoToken => Owner(stored.token) = stored.user
Copied(t) ==
  IF store[t].hydrated THEN store[t].token = stored.token /\ store[t].user = stored.user
                       ELSE store[t].token = NoToken /\ Of(t) = {}

\* A request for the user shown was sent with the token of that user, which was held.
SentAsShown(c) ==
  /\ c.kind \in {"me", "profile", "data"} => c.as = c.held
  /\ c.kind \in {"profile", "data"} => c.as # NoToken /\ Owner(c.as) = c.shown

Own == StoredIsOwn /\ (\A t \in Tabs : Copied(t)) /\ \A c \in calls : SentAsShown(c)

\* What was sent as shown stays so: tokens keep their owners.
LEMMA SentStays ==
  ASSUME Inv, Own, Signs, NEW c \in calls
  PROVE  SentAsShown(c)'
<1>1. c.as \in Tokens
  BY DEF Inv, SessionTypeOK, Calls
<1>2. c.as # NoToken => issued'[c.as] = issued[c.as]
  BY <1>1, TokensStay DEF Inv, SessionTypeOK, Tokens, NoToken
<1>3. c.kind \in {"profile", "data"} => c.as # NoToken
  BY DEF Own, SentAsShown
<1> QED
  BY <1>2, <1>3 DEF Own, SentAsShown, Owner

\* setAuth with a token and its owner, in a tab that is hydrated.
LEMMA SetAuthKeepsOwn ==
  ASSUME OneTab, Inv, Own, Signs, NEW t \in Tabs, store[t].hydrated, NEW user \in Users,
    NEW token \in Tokens',
         token # NoToken, Owner(token)' = user, NEW rest \in SUBSET calls, SetAuth(t, user,
           token, rest)
  PROVE  Own'
<1>1. stored' = [token |-> token, user |-> user]
  BY DEF SetAuth, Session
<1>2. store' = [store EXCEPT ![t] = [token |-> token, user |-> user,
      hydrated |-> store[t].hydrated]]
  BY DEF SetAuth, Session, Store
<1>3. store'[t] = [token |-> token, user |-> user, hydrated |-> TRUE]
  BY <1>2 DEF Inv, SessionTypeOK
<1>4. \A s \in Tabs : Copied(s)'
  BY <1>1, <1>3 DEF OneTab, Copied
<1>5. SentAsShown(Validation(t, token))'
  BY DEF Validation, SentAsShown
<1>6. \A c \in calls' : SentAsShown(c)'
  BY <1>5, SentStays DEF SetAuth
<1> QED
  BY <1>1, <1>4, <1>6 DEF Own, StoredIsOwn

\* A new document, with which a session may end.
LEMMA NewDocumentKeepsOwn ==
  ASSUME OneTab, Inv, Own, UNCHANGED issued, NEW t \in Tabs,
         store' = [store EXCEPT ![t] = Fresh], stored' = Nobody \/ stored' = stored,
         calls' \subseteq calls, Of(t)' = {}
  PROVE  Own'
<1>1. store'[t] = [token |-> NoToken, user |-> NoUser, hydrated |-> FALSE]
  BY DEF Inv, SessionTypeOK, Fresh, Store, Nobody, Session
<1>2. Nobody = [token |-> NoToken, user |-> NoUser]
  BY DEF Nobody, Session
<1>3. \A s \in Tabs : Copied(s)'
  <2>1. ~store'[t].hydrated /\ store'[t].token = NoToken
    BY <1>1
  <2>2. Copied(t)'
    BY <2>1 DEF Copied
  <2> QED
    BY <2>2 DEF OneTab
<1>4. \A c \in calls' : SentAsShown(c)'
  BY SentStays DEF Signs
<1> QED
  BY <1>2, <1>3, <1>4 DEF Own, StoredIsOwn, Owner

\* logout in a tab that is hydrated.
LEMMA SignOutKeepsOwn ==
  ASSUME OneTab, Inv, Own, UNCHANGED issued, NEW t \in Tabs,
         store'[t] = [token |-> NoToken, user |-> NoUser, hydrated |-> TRUE], stored' = Nobody,
         calls' \subseteq calls
  PROVE  Own'
<1>1. Nobody = [token |-> NoToken, user |-> NoUser]
  BY DEF Nobody, Session
<1>2. \A s \in Tabs : Copied(s)'
  BY <1>1 DEF OneTab, Copied
<1>3. \A c \in calls' : SentAsShown(c)'
  BY SentStays DEF Signs
<1> QED
  BY <1>1, <1>2, <1>3 DEF Own, StoredIsOwn, Owner

\* A step that leaves the session alone, and adds a request of a hydrated tab at most.
LEMMA RequestKeepsOwn ==
  ASSUME Inv, Own, UNCHANGED <<issued, browser, store>>,
         \A c \in calls' \ calls : SentAsShown(c) /\ store[c.tab].hydrated
  PROVE  Own'
<1>1. \A c \in calls' : SentAsShown(c)'
  BY SentStays DEF Signs, SentAsShown, Owner
<1>2. \A t \in Tabs : Copied(t)'
  BY DEF Own, Copied, browser, Of
<1> QED
  BY <1>1, <1>2 DEF Own, StoredIsOwn, Owner, browser

LEMMA UserKeepsOwn ==
  ASSUME OneTab, Inv, Own, NEW t \in Tabs, Act(t)
  PROVE  Own'
<1>1. ASSUME NEW p \in Pages, Load(t, p) PROVE Own'
  <2>1. Of(t)' = {} /\ calls' \subseteq calls
    BY <1>1 DEF Load, NewDocument, Of
  <2> QED
    BY <1>1, <2>1, NewDocumentKeepsOwn DEF Load, NewDocument, server, browser
<1>2. ASSUME NEW p \in Pages, Navigate(t, p) PROVE Own'
  BY <1>2, RequestKeepsOwn DEF Navigate, server
<1>3. CASE Mount(t)
  <2>1. store'[t] = [token |-> stored.token, user |-> stored.user, hydrated |-> TRUE]
    BY <1>3 DEF Mount, Store, Inv, SessionTypeOK
  <2>2. UNCHANGED <<issued, stored>>
    BY <1>3 DEF Mount, server
  <2>3. \A s \in Tabs : Copied(s)'
    BY <2>1, <2>2 DEF OneTab, Copied
  <2>4. \A c \in calls' : SentAsShown(c)'
    BY <1>3, <2>2, SentStays DEF Mount, Signs, Validation, SentAsShown
  <2> QED
    BY <2>2, <2>3, <2>4 DEF Own, StoredIsOwn, Owner
<1>4. CASE OpenSocket(t)
  BY <1>4, RequestKeepsOwn DEF OpenSocket, server
<1>5. CASE Logout(t) \/ LogoutOnProfile(t)
  <2>1. store[t].hydrated
    BY <1>5 DEF Logout, LogoutOnProfile, Own, Copied, Inv, SessionWhole, Whole
  <2>2. store'[t] = [token |-> NoToken, user |-> NoUser, hydrated |-> TRUE]
    BY <1>5, <2>1 DEF Logout, LogoutOnProfile, SignOut, Store, Nobody, Session, Inv,
       SessionTypeOK
  <2> QED
    BY <1>5, <2>2, SignOutKeepsOwn DEF Logout, LogoutOnProfile, SignOut, server
<1>6. CASE Fetch(t) \/ SaveProfile(t)
  <2>1. store[t].token # NoToken
    BY <1>6 DEF Fetch, SaveProfile, Inv, SessionWhole, Whole
  <2>2. store[t].hydrated /\ store[t].token = stored.token /\ store[t].user = stored.user
    BY <2>1 DEF Own, Copied
  <2>3. \A k \in {"data", "profile"} : SentAsShown(Call(t, k, store[t].user)) /\ Call(t, k,
        store[t].user).tab = t
    BY <2>1, <2>2 DEF Call, SentAsShown, Own, StoredIsOwn
  <2> QED
    BY <1>6, <2>2, <2>3, RequestKeepsOwn DEF Fetch, SaveProfile, server
<1>7. ASSUME NEW u \in Users, SubmitLogin(t, u) PROVE Own'
  <2>1. SentAsShown(Call(t, "login", u)) /\ Call(t, "login", u).tab = t
    BY DEF Call, SentAsShown
  <2> QED
    BY <1>7, <2>1, RequestKeepsOwn DEF SubmitLogin, server
<1> QED
  BY <1>1, <1>2, <1>3, <1>4, <1>5, <1>6, <1>7 DEF Act

LEMMA AnswerKeepsOwn ==
  ASSUME OneTab, Inv, Own, NEW c \in calls, Answer(c)
  PROVE  Own'
<1>1. c \in Calls /\ Storable(c) /\ c.tab \in Tabs /\ c.as \in Tokens /\ c.held \in Tokens
      /\ SentAsShown(c)
  BY DEF Inv, SessionTypeOK, Calls, Own
<1>2. store[c.tab].hydrated
  BY <1>1 DEF Own, Copied, Of
<1>3. CASE LoggedIn(c)
  <2>1. c.shown \in Users
    BY <1>1, <1>3 DEF LoggedIn, Storable
  <2>2. Signs /\ issued' = Append(issued, c.shown)
    BY <1>3, <2>1 DEF LoggedIn, Signs
  <2>3. Len(issued') \in Tokens' /\ Len(issued') # NoToken /\ issued'[Len(issued')] = c.shown
    BY <2>1, <2>2 DEF Inv, SessionTypeOK, Tokens, NoToken
  <2>4. SetAuth(c.tab, c.shown, Len(issued'), calls \ {c})
    BY <1>3 DEF LoggedIn
  <2> QED
    BY <1>1, <1>2, <2>1, <2>2, <2>3, <2>4, SetAuthKeepsOwn DEF Owner
<1>4. CASE Validated(c) \/ ProfileSaved(c)
  <2>1. Owner(c.as) \in Users
    BY <1>1, <1>4, OwnersAreUsers DEF Validated, ProfileSaved, Inv
  <2>2. issued' = issued /\ Signs /\ c.held \in Tokens' /\ c.held # NoToken
    BY <1>1, <1>4 DEF Validated, ProfileSaved, server, Signs, Tokens, Storable
  <2>3. Owner(c.held)' = Owner(c.as)
    BY <1>1, <1>4, <2>2 DEF Validated, ProfileSaved, SentAsShown, Owner
  <2>4. SetAuth(c.tab, Owner(c.as), c.held, calls \ {c})
    BY <1>4 DEF Validated, ProfileSaved
  <2> QED
    BY <1>1, <1>2, <2>1, <2>2, <2>3, <2>4, SetAuthKeepsOwn
<1>5. CASE Rejected(c) /\ stored.token # NoToken
  <2>1. Of(c.tab)' = {} /\ calls' \subseteq calls
    BY <1>5 DEF Rejected, NewDocument, Of
  <2> QED
    BY <1>1, <1>5, <2>1, NewDocumentKeepsOwn DEF Rejected, NewDocument, server
<1>6. CASE (Rejected(c) /\ stored.token = NoToken) \/ ValidationFailed(c)
  <2>1. SignOut(c.tab, calls \ {c}) /\ UNCHANGED issued
    BY <1>6 DEF Rejected, ValidationFailed, server
  <2>2. store'[c.tab] = [token |-> NoToken, user |-> NoUser, hydrated |-> TRUE]
    BY <1>1, <1>2, <2>1 DEF SignOut, Store, Nobody, Session, Inv, SessionTypeOK
  <2> QED
    BY <1>1, <2>1, <2>2, SignOutKeepsOwn DEF SignOut
<1>7. CASE Fetched(c) \/ Refused(c)
  BY <1>7, RequestKeepsOwn DEF Fetched, Refused, server
<1> QED
  BY <1>3, <1>4, <1>5, <1>6, <1>7 DEF Answer

LEMMA NextKeepsOwn ==
  ASSUME OneTab, Inv, Own, [Next]_vars
  PROVE  Own'
<1>1. ASSUME NEW token \in DOMAIN issued, Expire(token) PROVE Own'
  BY <1>1, RequestKeepsOwn DEF Expire
<1>2. ASSUME NEW u \in Users, Suspend(u) PROVE Own'
  BY <1>2, RequestKeepsOwn DEF Suspend
<1>3. CASE UNCHANGED vars
  BY <1>3, RequestKeepsOwn DEF vars, server
<1> QED
  BY <1>1, <1>2, <1>3, UserKeepsOwn, AnswerKeepsOwn DEF Next

LEMMA InitOwn == Init => Own
  BY DEF Init, Own, StoredIsOwn, Copied, Of, Fresh, Store, Nobody, Session

\* With one tab, whatever answers arrive late, every request that a page makes for the
\* user it shows carries a token of that user.
THEOREM OneTabActsAsShown ==
  ASSUME OneTab
  PROVE  Spec => []ActsAsShown
<1>1. Init => Inv /\ Own
  BY InitSound, InitOwn
<1>2. Inv /\ Own /\ [Next]_vars => (Inv /\ Own)'
  BY NextKeeps, NextKeepsOwn
<1>3. Inv /\ Own => ActsAsShown
  BY DEF Own, SentAsShown, ActsAsShown
<1> QED
  BY <1>1, <1>2, <1>3, PTL DEF Spec

-----------------------------------------------------------------------------
(* The panel of the auction page: PricePanel                               *)

CONSTANTS Types, Amounts, Start, Inc, Top, MaxTyped, MaxSent, Losses
VARIABLES type, auction, placed, seen, typed, field, limit, busy, messages, sent, posts

Panel == INSTANCE PricePanel WITH server <- auction, calls <- posts, shown <- seen

\* What the results need to know of the constants.
Sensible ==
  /\ Inc \in Nat \ {0}
  /\ Start \in Nat /\ Top \in Nat
  /\ Amounts \subseteq Nat
  /\ Types \subseteq {"ENGLISH", "DUTCH", "SEALED_BID"}

Posts == [id : Nat, kind : Panel!Kinds, entry : Nat, amount : Nat, step : {"sent", "ok",
  "refused"}]

PanelTypeOK ==
  /\ type \in {"ENGLISH", "DUTCH", "SEALED_BID"}
  /\ auction \in Panel!Row /\ seen \in Panel!Row
  /\ typed \in Seq(Nat)
  /\ field \in 0 .. Len(typed)
  /\ limit \in Nat
  /\ sent \in Nat
  /\ busy \in [Panel!Kinds -> BOOLEAN]
  /\ posts \subseteq Posts
  /\ placed \in Seq(Nat)

\* A bid under way is for an entry and its amount; what holds money was typed.
Genuine(c) == c.kind = "bid" => c.entry \in 1 .. Len(typed) /\ c.amount = typed[c.entry]
AllTyped ==
  /\ \A c \in posts : Genuine(c)
  /\ \A i \in DOMAIN placed : placed[i] \in 1 .. Len(typed)

\* What holds money is no longer a good bid: the price has reached it, or the auction
\* is over.
PriceCovers ==
  /\ type = "ENGLISH" => \A i \in DOMAIN placed : typed[placed[i]] <= auction.price
  /\ type = "DUTCH" /\ auction.open => placed = <<>>

PanelInv == PanelTypeOK /\ AllTyped /\ PriceCovers /\ Panel!HeldOnce

-----------------------------------------------------------------------------
(* Steps of the viewer                                                     *)

LEMMA RequestTyped ==
  ASSUME PanelTypeOK, NEW k \in Panel!Kinds, NEW e \in Nat, NEW a \in Nat, Panel!Send(k, e, a)
  PROVE  /\ posts' \subseteq Posts /\ sent' \in Nat /\ busy' \in [Panel!Kinds -> BOOLEAN]
         /\ \A c \in posts' \ posts : c.kind = k /\ c.entry = e /\ c.amount = a
  BY DEF Panel!Send, Panel!Request, Posts, PanelTypeOK

LEMMA SubmitTyped ==
  ASSUME PanelInv, NEW e \in 1 .. Len(typed), Panel!Submit(e)
  PROVE  /\ posts' \subseteq Posts /\ sent' \in Nat /\ busy' \in [Panel!Kinds -> BOOLEAN]
         /\ \A c \in posts' : Genuine(c)
<1>1. typed[e] \in Nat /\ e \in Nat
  BY DEF PanelInv, PanelTypeOK
<1>2. CASE Panel!Postable(typed[e])
  <2>1. Panel!Send("bid", e, typed[e])
    BY <1>2 DEF Panel!Submit
  <2>2. "bid" \in Panel!Kinds
    BY DEF Panel!Kinds
  <2> QED
    BY <1>1, <2>1, <2>2, RequestTyped DEF PanelInv, AllTyped, Genuine
<1>3. CASE ~Panel!Postable(typed[e])
  BY <1>3 DEF Panel!Submit, PanelInv, PanelTypeOK, AllTyped
<1> QED
  BY <1>2, <1>3

\* A step of the panel that types nothing.
LEMMA PanelKeeps ==
  ASSUME PanelInv, UNCHANGED <<type, auction, placed, typed>>,
         seen' \in Panel!Row, field' \in 0 .. Len(typed), limit' \in Nat, sent' \in Nat,
         busy' \in [Panel!Kinds -> BOOLEAN], posts' \subseteq Posts,
           \A c \in posts' : Genuine(c)
  PROVE  PanelInv'
  BY DEF PanelInv, PanelTypeOK, AllTyped, Genuine, PriceCovers, Panel!HeldOnce

\* One more entry.
LEMMA TypingKeeps ==
  ASSUME PanelInv, UNCHANGED <<type, auction, placed, seen, limit>>, NEW a \in Nat,
    typed' = Append(typed, a),
         field' = Len(typed) + 1, sent' \in Nat, busy' \in [Panel!Kinds -> BOOLEAN],
         posts' \subseteq Posts, \A c \in posts' : Genuine(c)
  PROVE  PanelInv'
<1>1. /\ typed' \in Seq(Nat) /\ Len(typed') = Len(typed) + 1
      /\ \A i \in 1 .. Len(typed) : typed'[i] = typed[i]
  BY DEF PanelInv, PanelTypeOK
<1>2. PanelTypeOK'
  BY <1>1 DEF PanelInv, PanelTypeOK
<1>3. AllTyped'
  BY <1>1 DEF PanelInv, PanelTypeOK, AllTyped, Genuine
<1>4. PriceCovers'
  BY <1>1 DEF PanelInv, PanelTypeOK, AllTyped, PriceCovers
<1> QED
  BY <1>2, <1>3, <1>4 DEF PanelInv, Panel!HeldOnce

LEMMA ViewerKeeps ==
  ASSUME Sensible, PanelInv,
         \/ \E a \in Amounts : Panel!Type(a) \/ Panel!TypeLimit(a)
         \/ Panel!Place("click") \/ Panel!Place("enter") \/ Panel!AcceptPrice
         \/ Panel!SetAutoBid \/ Panel!CancelAutoBid \/ Panel!SubmitRating
  PROVE  PanelInv'
<1> USE DEF PanelInv
<1>1. ASSUME NEW a \in Amounts, Panel!Type(a) PROVE PanelInv'
  BY <1>1, TypingKeeps DEF Panel!Type, Sensible, PanelTypeOK, AllTyped
<1>2. ASSUME NEW a \in Amounts, Panel!TypeLimit(a) PROVE PanelInv'
  BY <1>2, PanelKeeps DEF Panel!TypeLimit, Sensible, PanelTypeOK, AllTyped
<1>3. CASE Panel!Place("click") \/ Panel!Place("enter")
  <2>1. field \in 1 .. Len(typed) /\ Panel!Submit(field) /\ UNCHANGED <<type, auction, placed,
        seen, typed, field, limit>>
    BY <1>3 DEF Panel!Place, PanelTypeOK
  <2> QED
    BY <2>1, SubmitTyped, PanelKeeps DEF PanelTypeOK
<1>4. CASE Panel!AcceptPrice
  <2>1. seen.price \in Nat
    BY DEF PanelTypeOK, Panel!Row
  <2>2. /\ posts' \subseteq Posts /\ sent' \in Nat /\ busy' \in [Panel!Kinds -> BOOLEAN]
        /\ \A c \in posts' : Genuine(c)
    <3>1. CASE field = 0
      BY <1>4, <3>1 DEF Panel!AcceptPrice, PanelTypeOK, AllTyped
    <3>2. CASE field # 0
      <4>1. field \in 1 .. Len(typed) /\ Panel!Submit(field)
        BY <1>4, <3>2 DEF Panel!AcceptPrice, PanelTypeOK
      <4> QED
        BY <4>1, SubmitTyped
    <3> QED
      BY <3>1, <3>2
  <2> QED
    BY <1>4, <2>1, <2>2, TypingKeeps DEF Panel!AcceptPrice
<1>5. CASE Panel!SetAutoBid \/ Panel!CancelAutoBid \/ Panel!SubmitRating
  <2>1. PICK k \in {"arm", "disarm", "rate"}, a \in {0, limit} : Panel!Send(k, 0, a)
    BY <1>5 DEF Panel!SetAutoBid, Panel!CancelAutoBid, Panel!SubmitRating
  <2>2. k \in Panel!Kinds /\ a \in Nat /\ k # "bid"
    BY DEF Panel!Kinds, PanelTypeOK
  <2>3. \A c \in posts' : Genuine(c)
    BY <2>1, <2>2, RequestTyped DEF AllTyped, Genuine
  <2> QED
    BY <1>5, <2>1, <2>2, <2>3, RequestTyped, PanelKeeps DEF Panel!SetAutoBid,
       Panel!CancelAutoBid, Panel!SubmitRating, PanelTypeOK
<1> QED
  BY <1>1, <1>2, <1>3, <1>4, <1>5

-----------------------------------------------------------------------------
(* Steps of the auction and answers                                         *)

\* The price of an English auction never falls, and a Dutch auction that is over stays so.
MovesOn ==
  /\ auction' \in Panel!Row
  /\ type = "ENGLISH" => auction'.price >= auction.price
  /\ type = "DUTCH" /\ auction'.open => auction.open

LEMMA ServerKeeps ==
  ASSUME PanelInv, MovesOn, UNCHANGED <<type, placed, Panel!page, sent>>,
         posts' \subseteq Posts, \A c \in posts' : Genuine(c)
  PROVE  PanelInv'
<1>1. PriceCovers'
  BY DEF PanelInv, PanelTypeOK, Panel!Row, AllTyped, PriceCovers, MovesOn, Panel!page
<1> QED
  BY <1>1 DEF PanelInv, PanelTypeOK, AllTyped, Genuine, Panel!HeldOnce, MovesOn, Panel!page

LEMMA OthersMoveOn ==
  ASSUME Sensible, PanelInv, Panel!Others
  PROVE  MovesOn
<1>1. /\ auction \in Panel!Row /\ auction.price \in Nat /\ Inc \in Nat /\ Inc > 0 /\ Top \in Nat
      /\ type \in {"ENGLISH", "DUTCH", "SEALED_BID"}
  BY DEF PanelInv, PanelTypeOK, Panel!Row, Sensible
<1>2. CASE Panel!OthersBid
  <2>1. PICK a \in Panel!NextMin(auction) .. Top : auction' = [auction EXCEPT !.price = a,
             !.leader = "other"]
    BY <1>2 DEF Panel!OthersBid
  <2>2. a \in Nat /\ a >= auction.price
    BY <1>1 DEF Panel!NextMin
  <2>3. auction' \in Panel!Row /\ auction'.price = a
    BY <1>1, <2>1, <2>2 DEF Panel!Row
  <2> QED
    BY <1>2, <2>2, <2>3 DEF MovesOn, Panel!OthersBid
<1>3. CASE Panel!Ladder
  <2>1. auction' = [auction EXCEPT !.price = Panel!NextMin(auction),
        !.leader = "me"] /\ type = "ENGLISH"
    BY <1>3 DEF Panel!Ladder
  <2>2. Panel!NextMin(auction) \in Nat /\ Panel!NextMin(auction) >= auction.price
    BY <1>1 DEF Panel!NextMin
  <2>3. auction' \in Panel!Row /\ auction'.price = Panel!NextMin(auction)
    BY <1>1, <2>1, <2>2 DEF Panel!Row
  <2> QED
    BY <2>1, <2>2, <2>3 DEF MovesOn
<1>4. CASE Panel!TargetReached
  <2>1. auction' = [auction EXCEPT !.open = FALSE,
        !.leader = "me"] /\ type = "DUTCH" /\ auction.open
    BY <1>4 DEF Panel!TargetReached
  <2>2. auction' \in Panel!Row
    BY <1>1, <2>1 DEF Panel!Row
  <2> QED
    BY <2>1, <2>2 DEF MovesOn
<1>5. CASE Panel!Drop
  <2>1. auction' = [auction EXCEPT !.price = auction.price - Inc] /\ type = "DUTCH"
        /\ auction.open /\ auction.price > Inc
    BY <1>5 DEF Panel!Drop
  <2>2. auction.price - Inc \in Nat
    BY <1>1, <2>1
  <2>3. auction' \in Panel!Row
    BY <1>1, <2>1, <2>2 DEF Panel!Row
  <2> QED
    BY <2>1, <2>3 DEF MovesOn
<1>6. CASE Panel!OtherAccepts
  <2>1. auction' = [auction EXCEPT !.open = FALSE,
        !.leader = "other"] /\ type = "DUTCH" /\ auction.open
    BY <1>6 DEF Panel!OtherAccepts
  <2>2. auction' \in Panel!Row
    BY <1>1, <2>1 DEF Panel!Row
  <2> QED
    BY <2>1, <2>2 DEF MovesOn
<1>7. CASE Panel!End
  <2>1. PICK who \in {"none", "me", "other"} : auction' = [auction EXCEPT !.open = FALSE,
             !.leader = who] /\ auction.open
    <3>1. auction.leader \in {"none", "me", "other"}
      BY <1>1 DEF Panel!Row
    <3> QED
      BY <1>7, <3>1 DEF Panel!End
  <2>2. auction' \in Panel!Row /\ auction'.price = auction.price
    BY <1>1, <2>1 DEF Panel!Row
  <2> QED
    BY <1>1, <2>1, <2>2 DEF MovesOn
<1> QED
  BY <1>2, <1>3, <1>4, <1>5, <1>6, <1>7 DEF Panel!Others

LEMMA DoneTyped ==
  ASSUME PanelInv, NEW c \in posts, NEW r \in {"ok", "refused"}, Panel!Done(c, r)
  PROVE  posts' \subseteq Posts /\ \A d \in posts' : Genuine(d)
  BY DEF PanelInv, PanelTypeOK, AllTyped, Genuine, Posts, Panel!Done

LEMMA ServeKeeps ==
  ASSUME Sensible, PanelInv, NEW c \in posts, Panel!Serve(c)
  PROVE  PanelInv'
<1> USE DEF PanelInv
<1>1. c \in Posts /\ UNCHANGED <<type, Panel!page, sent>>
  BY DEF PanelTypeOK, Panel!Serve
<1>2. CASE Panel!ServeBid(c)
  <2>1. posts' \subseteq Posts /\ \A d \in posts' : Genuine(d)
    BY <1>2, DoneTyped DEF Panel!ServeBid
  <2>2. c.entry \in 1 .. Len(typed) /\ c.amount = typed[c.entry] /\ c.amount \in Nat
    BY <1>1, <1>2 DEF Panel!ServeBid, AllTyped, Genuine, Posts
  <2>3. UNCHANGED <<type, typed>>
    BY <1>1 DEF Panel!page
  <2>4. auction' \in Panel!Row
    BY <1>2, <2>2 DEF Panel!ServeBid, Panel!AfterBid, PanelTypeOK, Panel!Row
  <2>5. /\ placed' = Append(placed, c.entry) /\ placed' \in Seq(Nat)
        /\ DOMAIN placed' = 1 .. Len(placed) + 1 /\ DOMAIN placed = 1 .. Len(placed)
        /\ placed'[Len(placed) + 1] = c.entry
        /\ \A i \in 1 .. Len(placed) : placed'[i] = placed[i]
    BY <1>2, <2>2 DEF Panel!ServeBid, PanelTypeOK
  <2>6. \A i \in DOMAIN placed : type # "SEALED_BID" => placed[i] # c.entry
    <3>1. CASE type = "ENGLISH"
      <4>1. c.amount >= auction.price + Inc
        BY <1>2, <3>1 DEF Panel!ServeBid, Panel!Acceptable, Panel!NextMin
      <4>2. c.amount > auction.price
        BY <2>2, <4>1 DEF Sensible, PanelTypeOK, Panel!Row
      <4>3. ASSUME NEW i \in DOMAIN placed PROVE placed[i] # c.entry
        <5>1. typed[placed[i]] <= auction.price
          BY <3>1 DEF PriceCovers
        <5>2. CASE placed[i] = c.entry
          BY <2>2, <4>2, <5>1, <5>2 DEF PanelTypeOK, Panel!Row
        <5> QED
          BY <5>2
      <4> QED
        BY <4>3
    <3>2. CASE type = "DUTCH"
      <4>1. auction.open
        BY <1>2 DEF Panel!ServeBid, Panel!Acceptable
      <4> QED
        BY <3>2, <4>1 DEF PriceCovers
    <3> QED
      BY <3>1, <3>2 DEF PanelTypeOK
  <2>7. Panel!HeldOnce'
    BY <2>3, <2>5, <2>6 DEF Panel!HeldOnce
  <2>8. PriceCovers'
    <3>1. CASE type = "ENGLISH"
      <4>1. auction'.price = c.amount
        BY <1>2, <3>1 DEF Panel!ServeBid, Panel!AfterBid, PanelTypeOK, Panel!Row
      <4>2. c.amount > auction.price
        <5>1. c.amount >= auction.price + Inc
          BY <1>2, <3>1 DEF Panel!ServeBid, Panel!Acceptable, Panel!NextMin
        <5> QED
          BY <2>2, <5>1 DEF Sensible, PanelTypeOK, Panel!Row
      <4>3. ASSUME NEW i \in DOMAIN placed' PROVE typed[placed'[i]] <= c.amount
        <5>1. CASE i = Len(placed) + 1
          BY <2>2, <2>5, <5>1
        <5>2. CASE i \in 1 .. Len(placed)
          <6>1. typed[placed[i]] <= auction.price /\ typed[placed[i]] \in Nat
                /\ placed'[i] = placed[i]
            BY <2>5, <3>1, <5>2 DEF PriceCovers, AllTyped, PanelTypeOK
          <6> QED
            BY <2>2, <4>2, <6>1 DEF PanelTypeOK, Panel!Row
        <5> QED
          BY <2>5, <5>1, <5>2
      <4> QED
        BY <2>3, <3>1, <4>1, <4>3 DEF PriceCovers
    <3>2. CASE type = "DUTCH"
      BY <1>2, <2>3, <3>2 DEF Panel!ServeBid, Panel!AfterBid, PanelTypeOK, Panel!Row,
         PriceCovers
    <3>3. CASE type = "SEALED_BID"
      BY <2>3, <3>3 DEF PriceCovers
    <3> QED
      BY <3>1, <3>2, <3>3 DEF PanelTypeOK
  <2>9. AllTyped'
    BY <2>1, <2>2, <2>3, <2>5 DEF AllTyped, Genuine
  <2>10. PanelTypeOK'
    BY <1>1, <2>1, <2>4, <2>5 DEF PanelTypeOK, Panel!page
  <2> QED
    BY <2>7, <2>8, <2>9, <2>10
<1>3. CASE Panel!ServeOther(c)
  <2>1. UNCHANGED placed /\ Panel!Done(c, "ok")
    BY <1>3 DEF Panel!ServeOther
  <2>2. /\ auction \in Panel!Row /\ auction.price \in Nat /\ c.amount \in Nat
    BY <1>1 DEF PanelTypeOK, Panel!Row, Posts
  <2>3. \/ auction' = [auction EXCEPT !.auto = c.amount]
        \/ auction' = [auction EXCEPT !.auto = 0]
        \/ auction' = [auction EXCEPT !.rated = TRUE]
    BY <1>1, <1>3 DEF Panel!ServeOther, Posts, Panel!Kinds
  <2>4. auction' \in Panel!Row /\ auction'.price = auction.price
    <3>1. CASE auction' = [auction EXCEPT !.auto = c.amount]
      BY <2>2, <3>1 DEF Panel!Row
    <3>2. CASE auction' = [auction EXCEPT !.auto = 0]
      BY <2>2, <3>2 DEF Panel!Row
    <3>3. CASE auction' = [auction EXCEPT !.rated = TRUE]
      BY <2>2, <3>3 DEF Panel!Row
    <3> QED
      BY <2>3, <3>1, <3>2, <3>3
  <2>5. auction'.open => auction.open
    BY <2>2, <2>3 DEF Panel!Row
  <2>6. MovesOn
    BY <2>2, <2>4, <2>5 DEF MovesOn
  <2> QED
    BY <1>1, <2>1, <2>6, DoneTyped, ServerKeeps
<1>4. CASE Panel!Refuse(c)
  <2>1. UNCHANGED <<auction, placed>> /\ Panel!Done(c, "refused")
    BY <1>4 DEF Panel!Refuse
  <2>2. MovesOn
    BY <2>1 DEF MovesOn, PanelTypeOK, Panel!Row
  <2> QED
    BY <1>1, <2>1, <2>2, DoneTyped, ServerKeeps
<1> QED
  BY <1>2, <1>3, <1>4 DEF Panel!Serve

LEMMA PostAnswered ==
  ASSUME PanelInv, NEW c \in posts, Panel!Answer(c)
  PROVE  PanelInv'
<1>1. field' \in 0 .. Len(typed) /\ limit' \in Nat
  BY DEF Panel!Answer, Panel!Succeed, Panel!Fail, PanelInv, PanelTypeOK
<1>2. posts' \subseteq posts /\ UNCHANGED <<type, auction, placed, seen, typed, sent>>
  BY DEF Panel!Answer
<1>3. busy' \in [Panel!Kinds -> BOOLEAN]
  BY DEF Panel!Answer, PanelInv, PanelTypeOK
<1> QED
  BY <1>1, <1>2, <1>3, PanelKeeps DEF PanelInv, PanelTypeOK, AllTyped

LEMMA PanelStarts == Sensible /\ Panel!Init => PanelInv
BY DEF Sensible, Panel!Init, PanelInv, PanelTypeOK, AllTyped, PriceCovers, Panel!HeldOnce,
       Panel!Row, Panel!Quiet, Panel!Kinds, Posts

LEMMA PanelNextKeeps ==
  ASSUME Sensible, PanelInv, [Panel!Next]_(Panel!vars)
  PROVE  PanelInv'
<1>1. CASE Panel!Others
  <2>1. UNCHANGED <<type, placed, Panel!page, sent, posts>>
    BY <1>1 DEF Panel!Others
  <2> QED
    BY <1>1, <2>1, OthersMoveOn, ServerKeeps DEF PanelInv, PanelTypeOK, AllTyped
<1>2. CASE Panel!Refetch
  BY <1>2, PanelKeeps DEF Panel!Refetch, PanelInv, PanelTypeOK, AllTyped
<1>3. CASE UNCHANGED Panel!vars
  BY <1>3, PanelKeeps DEF Panel!vars, Panel!page, PanelInv, PanelTypeOK, AllTyped
<1> QED
  BY <1>1, <1>2, <1>3, ViewerKeeps, ServeKeeps, PostAnswered DEF Panel!Next

\* Whatever is pressed, lost and tried again, what a viewer typed once into the field of
\* an English auction, or one acceptance of a Dutch price, holds money at most once.
THEOREM TypedOnceHeldOnce ==
  ASSUME Sensible
  PROVE  Panel!Spec => []Panel!HeldOnce
<1>1. Panel!Init => PanelInv
  BY PanelStarts
<1>2. PanelInv /\ [Panel!Next]_(Panel!vars) => PanelInv'
  BY PanelNextKeeps
<1>3. PanelInv => Panel!HeldOnce
  BY DEF PanelInv
<1> QED
  BY <1>1, <1>2, <1>3, PTL DEF Panel!Spec

-----------------------------------------------------------------------------
(* The disabled buttons of the panel                                       *)

\* What a step may do to the flags and the requests: one more, one served, one answered.
Asks(k) == \E c : c.kind = k /\ posts' = posts \cup {c} /\ busy' = [busy EXCEPT ![k] = TRUE]
Serves  == \E c, d : c.kind = d.kind /\ posts' = (posts \ {c}) \cup {d} /\ busy' = busy
Answers == \E c \in posts : posts' = posts \ {c} /\ busy' = [busy EXCEPT ![c.kind] = FALSE]

LEMMA ViewerAsks ==
  ASSUME \/ \E a \in Amounts : Panel!Type(a) \/ Panel!TypeLimit(a)
         \/ Panel!Place("click") \/ Panel!Place("enter") \/ Panel!AcceptPrice
         \/ Panel!SetAutoBid \/ Panel!CancelAutoBid \/ Panel!SubmitRating
  PROVE  (\E k \in Panel!Kinds : Asks(k)) \/ UNCHANGED <<busy, posts>>
<1>1. ASSUME NEW k \in Panel!Kinds, NEW e, NEW a, Panel!Send(k, e, a) PROVE Asks(k)
  BY <1>1 DEF Asks, Panel!Send, Panel!Request
<1>2. ASSUME NEW e, Panel!Submit(e)
      PROVE  (\E k \in Panel!Kinds : Asks(k)) \/ UNCHANGED <<busy, posts>>
  <2>1. CASE Panel!Postable(typed[e])
    BY <1>1, <1>2, <2>1 DEF Panel!Submit, Panel!Kinds
  <2>2. CASE ~Panel!Postable(typed[e])
    BY <1>2, <2>2 DEF Panel!Submit
  <2> QED BY <2>1, <2>2
<1>3. CASE \E a \in Amounts : Panel!Type(a) \/ Panel!TypeLimit(a)
  BY <1>3 DEF Panel!Type, Panel!TypeLimit
<1>4. CASE Panel!Place("click") \/ Panel!Place("enter")
  BY <1>2, <1>4 DEF Panel!Place
<1>5. CASE Panel!AcceptPrice
  BY <1>2, <1>5 DEF Panel!AcceptPrice
<1>6. CASE Panel!SetAutoBid
  BY <1>1, <1>6 DEF Panel!SetAutoBid, Panel!Kinds
<1>7. CASE Panel!CancelAutoBid
  BY <1>1, <1>7 DEF Panel!CancelAutoBid, Panel!Kinds
<1>8. CASE Panel!SubmitRating
  BY <1>1, <1>8 DEF Panel!SubmitRating, Panel!Kinds
<1> QED
  BY <1>3, <1>4, <1>5, <1>6, <1>7, <1>8

LEMMA ServerServes ==
  ASSUME PanelTypeOK, NEW c \in posts, Panel!Serve(c)
  PROVE  Serves
<1>1. /\ UNCHANGED busy
      /\ \E result \in {"ok", "refused"} : Panel!Done(c, result)
  BY DEF Panel!Serve, Panel!ServeBid, Panel!ServeOther, Panel!Refuse, Panel!page
<1>2. PICK result \in {"ok", "refused"} : Panel!Done(c, result)
  BY <1>1
<1>3. [c EXCEPT !.step = result].kind = c.kind
  BY DEF PanelTypeOK, Posts
<1> QED
  BY <1>1, <1>2, <1>3 DEF Serves, Panel!Done

\* A flag that is set has a request of its kind, which only its answer takes away, with
\* the flag; there may be two of them, and then the first answer resets it.
LEMMA ButtonsKept ==
  ASSUME PanelTypeOK, Panel!NoDeadButton, [Panel!Next]_(Panel!vars)
  PROVE  Panel!NoDeadButton'
<1> USE DEF Panel!NoDeadButton
<1>1. busy \in [Panel!Kinds -> BOOLEAN]
  BY DEF PanelTypeOK
<1>2. CASE \E k \in Panel!Kinds : Asks(k)
  BY <1>1, <1>2 DEF Asks
<1>3. CASE Serves
  BY <1>3 DEF Serves
<1>4. CASE Answers
  BY <1>1, <1>4 DEF Answers
<1>5. CASE UNCHANGED <<busy, posts>>
  BY <1>5
<1>6. ASSUME NEW c \in posts, Panel!Serve(c) PROVE Serves
  BY <1>6, ServerServes
<1>7. ASSUME NEW c \in posts, Panel!Answer(c) PROVE Answers
  BY <1>7 DEF Panel!Answer, Answers
<1>8. Panel!Others \/ Panel!Refetch \/ UNCHANGED Panel!vars => UNCHANGED <<busy, posts>>
  BY DEF Panel!Others, Panel!Refetch, Panel!vars, Panel!page
<1> QED
  BY <1>2, <1>3, <1>4, <1>5, <1>6, <1>7, <1>8, ViewerAsks DEF Panel!Next

\* However requests are sent, refused and lost, a button that is disabled waits for an
\* answer that will enable it (page.tsx:268-306, 349-362).
THEOREM ButtonsComeBack ==
  ASSUME Sensible
  PROVE  Panel!Spec => []Panel!NoDeadButton
<1> DEFINE Both == PanelInv /\ Panel!NoDeadButton
<1>1. Panel!Init => Both
  <2>1. Panel!Init => PanelInv
    BY PanelStarts
  <2> QED
    BY <2>1 DEF Panel!Init, Panel!Quiet, Panel!NoDeadButton
<1>2. Both /\ [Panel!Next]_(Panel!vars) => Both'
  BY PanelNextKeeps, ButtonsKept DEF PanelInv
<1>3. Both => Panel!NoDeadButton
  OBVIOUS
<1> QED
  BY <1>1, <1>2, <1>3, PTL DEF Panel!Spec

-----------------------------------------------------------------------------
(* The end that the auction page announces: AuctionNotices                 *)

\* Times are numbers.
Timed == EndTime \in Int /\ Snipe \in Int

\* What the page will have heard of the end once everything on its way has arrived.
Extends(i) == wire[i].kind = "extended"
WillHear(n) ==
  \/ \E i \in DOMAIN wire :
       /\ Extends(i) /\ wire[i].number = n
       /\ \A j \in DOMAIN wire : Extends(j) => j <= i
  \/ newEnd = n /\ \A i \in DOMAIN wire : ~Extends(i)

\* That is the end of the bid that is still to commit, then that of the row.
HeardInOrder ==
  IF open # 0 THEN WillHear(open)
  ELSE WillHear(row.end) \/ (WillHear(0) /\ row.end = EndTime)

Messages == [kind : {"new", "ladder", "extended", "ended", "backpressure"}, bid : Nat,
             number : Nat, mine : BOOLEAN]

NoticesTypeOK ==
  /\ now \in Nat \ {0} /\ open \in Nat /\ drops \in Nat /\ done \in Nat
  /\ DOMAIN row = {"end", "ended"} /\ row.end \in Int /\ row.ended \in BOOLEAN
  /\ row.end # EndTime => row.end # 0
  /\ bids \in Seq([mine : BOOLEAN, ladder : Nat, at : Nat])
  /\ wire \in Seq(Messages)
  /\ due \subseteq Messages /\ \A e \in due : e.kind # "extended"

Announced == NoticesTypeOK /\ (drops = 0 => connected /\ HeardInOrder)

-----------------------------------------------------------------------------
(* Messages come and are handled                                           *)

\* A message about something else changes nothing, one about the end comes last.
LEMMA SendTells ==
  ASSUME wire \in Seq(Messages), NEW e \in Messages, connected, Send(e),
         newEnd' = newEnd
  PROVE  /\ e.kind = "extended" => \A n : n = e.number => WillHear(n)'
         /\ e.kind # "extended" => \A n : WillHear(n) => WillHear(n)'
<1>1. wire' = Append(wire, e)
  BY DEF Send
<1>2. /\ wire' \in Seq(Messages) /\ Len(wire') = Len(wire) + 1
      /\ wire'[Len(wire) + 1] = e
      /\ \A i \in 1 .. Len(wire) : wire'[i] = wire[i]
  BY <1>1
<1>3. DOMAIN wire = 1 .. Len(wire) /\ DOMAIN wire' = 1 .. (Len(wire) + 1) /\ Len(wire) \in Nat
  BY <1>2
<1>4. ASSUME e.kind = "extended", NEW n, n = e.number PROVE WillHear(n)'
  BY <1>2, <1>3, <1>4 DEF WillHear, Extends
<1>5. ASSUME e.kind # "extended", NEW n, WillHear(n) PROVE WillHear(n)'
  <2>1. \A j \in DOMAIN wire' : Extends(j)' => j \in DOMAIN wire /\ Extends(j)
    BY <1>2, <1>3, <1>5 DEF Extends
  <2>2. CASE newEnd = n /\ \A i \in DOMAIN wire : ~Extends(i)
    BY <2>1, <2>2 DEF WillHear
  <2>3. CASE \E i \in DOMAIN wire : /\ Extends(i) /\ wire[i].number = n
                                    /\ \A j \in DOMAIN wire : Extends(j) => j <= i
    <3>1. PICK i \in DOMAIN wire : /\ Extends(i) /\ wire[i].number = n
                                   /\ \A j \in DOMAIN wire : Extends(j) => j <= i
      BY <2>3
    <3>2. i \in DOMAIN wire' /\ Extends(i)' /\ wire'[i].number = n
      BY <1>2, <1>3, <3>1 DEF Extends
    <3>3. \A j \in DOMAIN wire' : Extends(j)' => j <= i
      BY <2>1, <3>1
    <3> QED BY <3>2, <3>3 DEF WillHear
  <2> QED BY <1>5, <2>2, <2>3 DEF WillHear
<1> QED BY <1>4, <1>5

\* What is handled was heard: it is kept, if it is about the end.
LEMMA HandleKeepsEnd ==
  ASSUME wire \in Seq(Messages), Handle
  PROVE  wire' \in Seq(Messages) /\ \A n : WillHear(n) => WillHear(n)'
<1>1. wire # <<>> /\ wire' = Tail(wire)
  BY DEF Handle
<1>2. /\ wire' \in Seq(Messages) /\ Len(wire') = Len(wire) - 1
      /\ \A i \in 1 .. Len(wire') : wire'[i] = wire[i + 1]
  BY <1>1
<1>3. /\ DOMAIN wire = 1 .. Len(wire) /\ DOMAIN wire' = 1 .. (Len(wire) - 1)
      /\ Len(wire) \in Nat \ {0}
  BY <1>1, <1>2
<1>4. newEnd' = IF Extends(1) THEN wire[1].number ELSE newEnd
  BY DEF Handle, HandleNew, HandleLadder, HandleExtended,
         HandleEnded, HandleLoad, data, Extends
<1>5. \A j \in DOMAIN wire' : j + 1 \in DOMAIN wire /\ (Extends(j)' <=> Extends(j + 1))
  BY <1>2, <1>3 DEF Extends
<1>6. ASSUME NEW n, WillHear(n) PROVE WillHear(n)'
  <2>1. CASE newEnd = n /\ \A i \in DOMAIN wire : ~Extends(i)
    BY <1>3, <1>4, <1>5, <2>1 DEF WillHear
  <2>2. CASE \E i \in DOMAIN wire : /\ Extends(i) /\ wire[i].number = n
                                    /\ \A j \in DOMAIN wire : Extends(j) => j <= i
    <3>1. PICK i \in DOMAIN wire : /\ Extends(i) /\ wire[i].number = n
                                   /\ \A j \in DOMAIN wire : Extends(j) => j <= i
      BY <2>2
    <3>2. CASE i = 1
      <4>1. \A j \in DOMAIN wire' : ~Extends(j)'
        BY <1>3, <1>5, <3>1, <3>2
      <4> QED BY <1>4, <3>1, <3>2, <4>1 DEF WillHear
    <3>3. CASE i # 1
      <4>1. i - 1 \in DOMAIN wire' /\ (i - 1) + 1 = i
        BY <1>3, <3>1, <3>3
      <4>2. Extends(i - 1)' /\ wire'[i - 1].number = n
        BY <1>2, <1>5, <3>1, <4>1 DEF Extends
      <4>3. \A j \in DOMAIN wire' : Extends(j)' => j <= i - 1
        BY <1>3, <1>5, <3>1
      <4> QED BY <4>1, <4>2, <4>3 DEF WillHear
    <3> QED BY <3>2, <3>3
  <2> QED BY <1>6, <2>1, <2>2 DEF WillHear
<1> QED BY <1>2, <1>6

-----------------------------------------------------------------------------
(* Steps of the server                                                     *)

LEMMA BidsTyped ==
  ASSUME NoticesTypeOK, NEW mine \in BOOLEAN
  PROVE  /\ Append(bids, Manual(mine)) \in Seq([mine : BOOLEAN, ladder : Nat, at : Nat])
         /\ New(mine) \in Messages /\ New(mine).kind = "new"
  BY DEF NoticesTypeOK, Manual, New, Event, Messages

\* Nothing is said of the end, and it stays as it is.
LEMMA EndStays ==
  ASSUME Announced, NoticesTypeOK', UNCHANGED <<open, wire, connected, drops, newEnd>>,
         row'.end = row.end
  PROVE  Announced'
  BY DEF Announced, HeardInOrder, WillHear, Extends

LEMMA ServerAnnounces ==
  ASSUME Timed, Announced,
         \/ \E mine \in BOOLEAN : PlaceBid(mine)
         \/ Climb(1) \/ Climb(2) \/ End \/ Saturate
  PROVE  Announced'
<1> USE DEF Announced
<1>1. UNCHANGED <<now, open, wire, connected, drops, newEnd>> /\ done' = done + 1
  BY DEF PlaceBid, Climb, End, Saturate, Operate,
         network, data
<1>2. CASE \E mine \in BOOLEAN : PlaceBid(mine)
  <2>1. PICK mine \in BOOLEAN : PlaceBid(mine)
    BY <1>2
  <2>2. /\ row' = row /\ bids' = Append(bids, Manual(mine))
        /\ due' = due \cup {New(mine)}
    BY <2>1 DEF PlaceBid
  <2>3. NoticesTypeOK'
    BY <1>1, <2>2, BidsTyped DEF NoticesTypeOK
  <2> QED BY <1>1, <2>2, <2>3, EndStays
<1>3. ASSUME NEW rungs \in {1, 2}, Climb(rungs)
      PROVE  Announced'
  <2> DEFINE new == [i \in 1 .. rungs |-> Rung]
             e == Event("ladder", Len(bids) + rungs, rungs, FALSE)
  <2>1. Rung \in [mine : BOOLEAN, ladder : Nat, at : Nat]
    BY DEF Rung, NoticesTypeOK
  <2>2. new \in Seq([mine : BOOLEAN, ladder : Nat, at : Nat])
    BY <2>1
  <2>3. e \in Messages /\ e.kind = "ladder"
    BY DEF Event, Messages, NoticesTypeOK
  <2>4. bids' = bids \o new /\ due' = due \cup {e} /\ row' = row
    BY <1>3 DEF Climb
  <2> HIDE DEF new, e
  <2>5. NoticesTypeOK'
    BY <1>1, <2>2, <2>3, <2>4 DEF NoticesTypeOK
  <2> QED BY <1>1, <2>4, <2>5, EndStays
<1>4. CASE End \/ Saturate
  <2> DEFINE over == Event("ended", 0, 0, FALSE)
             load == Event("backpressure", 0, done + 1, FALSE)
  <2>1. /\ over \in Messages /\ over.kind = "ended"
        /\ load \in Messages /\ load.kind = "backpressure"
    BY DEF Event, Messages, NoticesTypeOK
  <2>2. /\ due' \in {due \cup {over}, due \cup {load}} /\ bids' = bids
        /\ row' \in {row, [row EXCEPT !.ended = TRUE]}
    BY <1>4 DEF End, Saturate
  <2> HIDE DEF over, load
  <2>3. row'.end = row.end /\ row'.ended \in BOOLEAN /\ DOMAIN row' = DOMAIN row
    BY <2>2 DEF NoticesTypeOK
  <2>4. NoticesTypeOK'
    BY <1>1, <2>1, <2>2, <2>3 DEF NoticesTypeOK
  <2> QED BY <1>1, <2>3, <2>4, EndStays
<1> QED BY <1>2, <1>3, <1>4

\* The extension is announced, then committed.
LEMMA ExtensionAnnounced ==
  ASSUME Timed, Announced,
         \/ Extend \/ AbortBid
         \/ \E mine \in BOOLEAN : CommitBid(mine)
  PROVE  Announced'
<1> USE DEF Announced
<1>1. CASE Extend
  <2> DEFINE e == Event("extended", 0, now + Snipe, FALSE)
  <2>1. /\ e \in Messages /\ e.kind = "extended" /\ e.number = now + Snipe
        /\ now + Snipe \in Nat \ {0}
    BY <1>1 DEF Extend, Sniping, Event, Messages, NoticesTypeOK, Timed
  <2>2. /\ Send(e) /\ open' = now + Snipe /\ done' = done + 1
        /\ UNCHANGED <<now, row, bids, due, connected, drops, newEnd>>
    BY <1>1 DEF Extend, data
  <2> HIDE DEF e
  <2>3. NoticesTypeOK'
    BY <2>1, <2>2 DEF NoticesTypeOK, Send
  <2>4. ASSUME drops' = 0 PROVE connected' /\ HeardInOrder'
    <3>1. connected /\ wire \in Seq(Messages)
      BY <2>2, <2>4 DEF NoticesTypeOK
    <3>2. PICK n : n = e.number
      OBVIOUS
    <3>3. WillHear(n)'
      BY <2>1, <2>2, <3>1, <3>2, SendTells
    <3>4. WillHear(open)'
      BY <2>1, <2>2, <3>2, <3>3 DEF WillHear, Extends
    <3> QED BY <2>1, <2>2, <3>1, <3>4 DEF HeardInOrder
  <2> QED BY <2>3, <2>4
<1>2. CASE AbortBid
  BY <1>2 DEF AbortBid, NoticesTypeOK
<1>3. CASE \E mine \in BOOLEAN : CommitBid(mine)
  <2>1. PICK mine \in BOOLEAN : CommitBid(mine)
    BY <1>3
  <2>2. /\ open # 0 /\ open' = 0 /\ row' = [row EXCEPT !.end = open]
        /\ bids' = Append(bids, Manual(mine)) /\ due' = due \cup {New(mine)}
        /\ UNCHANGED <<now, done, wire, connected, drops, newEnd>>
    BY <2>1 DEF CommitBid, network, data
  <2>3. row'.end = open /\ row'.ended = row.ended /\ DOMAIN row' = DOMAIN row
    BY <2>2 DEF NoticesTypeOK
  <2>4. WillHear(open) => WillHear(row.end)'
    BY <2>2, <2>3 DEF WillHear, Extends
  <2>5. NoticesTypeOK'
    BY <2>2, <2>3, BidsTyped DEF NoticesTypeOK
  <2> QED BY <2>2, <2>3, <2>4, <2>5 DEF HeardInOrder
<1> QED BY <1>1, <1>2, <1>3

-----------------------------------------------------------------------------
(* Steps of the network and the page                                       *)

LEMMA NetworkAnnounces ==
  ASSUME Announced,
         \/ \E e \in due : Emit(e)
         \/ Disconnect \/ Reconnect
  PROVE  Announced'
<1> USE DEF Announced
<1>1. CASE \E e \in due : Emit(e)
  <2>1. PICK e \in due : Emit(e)
    BY <1>1
  <2>2. /\ e \in Messages /\ e.kind # "extended" /\ Send(e) /\ due' = due \ {e}
        /\ UNCHANGED <<now, row, bids, open, done, connected, drops, newEnd>>
    BY <2>1 DEF NoticesTypeOK, Emit, data
  <2>3. NoticesTypeOK'
    BY <2>2 DEF NoticesTypeOK, Send
  <2>4. ASSUME drops' = 0 PROVE connected' /\ HeardInOrder'
    <3>1. connected /\ wire \in Seq(Messages) /\ HeardInOrder
      BY <2>2, <2>4 DEF NoticesTypeOK
    <3>2. \A n : WillHear(n) => WillHear(n)'
      BY <2>2, <3>1, SendTells
    <3>3. /\ WillHear(open) => WillHear(open)'
          /\ WillHear(row.end) => WillHear(row.end)'
          /\ WillHear(0) => WillHear(0)'
      BY <2>2, <3>2 DEF WillHear, Extends
    <3> QED BY <2>2, <3>1, <3>3 DEF HeardInOrder
  <2> QED BY <2>3, <2>4
<1>2. CASE Disconnect
  BY <1>2 DEF Disconnect, house, NoticesTypeOK
<1>3. CASE Reconnect
  <2>1. UNCHANGED <<now, row, bids, open, due, done, wire, drops, newEnd>> /\ connected'
    BY <1>3 DEF Reconnect, house, data
  <2> QED BY <2>1 DEF NoticesTypeOK, HeardInOrder, WillHear, Extends
<1> QED BY <1>1, <1>2, <1>3

LEMMA PageAnnounces ==
  ASSUME Announced,
         \/ Handle \/ Refetch \/ Typing \/ Dismiss
         \/ CountDown \/ Tick \/ Pass
         \/ \E t \in toasts : Enter(t) \/ Leave(t)
         \/ UNCHANGED noticeVars
  PROVE  Announced'
<1> USE DEF Announced
<1>1. CASE Handle
  <2>1. /\ UNCHANGED <<now, row, bids, open, due, done, connected, drops>>
        /\ wire' \in Seq(Messages) /\ \A n : WillHear(n) => WillHear(n)'
    BY <1>1, HandleKeepsEnd DEF Handle, house, NoticesTypeOK
  <2>2. NoticesTypeOK'
    BY <2>1 DEF NoticesTypeOK
  <2>3. /\ WillHear(open) => WillHear(open)'
        /\ WillHear(row.end) => WillHear(row.end)'
        /\ WillHear(0) => WillHear(0)'
    BY <2>1 DEF WillHear, Extends
  <2> QED BY <2>1, <2>2, <2>3 DEF HeardInOrder
<1>2. ASSUME ~Handle PROVE Announced'
  <2>1. /\ UNCHANGED <<row, bids, open, due, done, wire, connected, drops, newEnd>>
        /\ now' \in {now, now + 1}
    BY <1>2 DEF Refetch, Typing, Dismiss, CountDown,
      Tick, Pass, Enter, Leave, house,
      network, data, noticeVars
  <2>2. NoticesTypeOK'
    BY <2>1 DEF NoticesTypeOK
  <2> QED BY <2>1, <2>2, EndStays
<1> QED BY <1>1, <1>2

\* Without losses and aborted bids a page that has handled what was emitted shows the end
\* of the auction, although the row is written after the event was sent and its queries
\* are answered in any order (page.tsx:95, 148-152, 271).
THEOREM EndShownAsAnnounced ==
  ASSUME Timed
  PROVE  NoticesSpec => []EndAsAnnounced
<1>1. NoticesInit => Announced
  BY DEF Timed, NoticesInit, Announced, NoticesTypeOK, HeardInOrder, WillHear, Extends
<1>2. Announced /\ [NoticesNext]_noticeVars => Announced'
  BY ServerAnnounces, ExtensionAnnounced, NetworkAnnounces, PageAnnounces DEF NoticesNext
<1>3. Announced => EndAsAnnounced
  BY DEF Announced, NoticesTypeOK, HeardInOrder, WillHear, Extends, EndAsAnnounced,
         Effective
<1> QED
  BY <1>1, <1>2, <1>3, PTL DEF NoticesSpec
-----------------------------------------------------------------------------
(* The ticker: AuctionNotices                                              *)

\* The stack holds a toast or more, and toasts live for some time.
Lively == Stack \in Nat \ {0} /\ Life \in Nat \ {0} /\ Period \in Nat

ToastKinds == {"manual", "ladder", "extended", "backpressure"}
Toast == [id : Nat, kind : ToastKinds, at : Nat, closing : BOOLEAN]

\* How late the interval of a stack of n toasts can still fire for one of them.
Delay(n) == Life - 1 + Period * n

Waiting(t) == t.id # hovered /\ ~t.closing

StackSound ==
  /\ toasts \subseteq Toast /\ IsFiniteSet(toasts) /\ Cardinality(toasts) <= Stack
  /\ \A t \in toasts : t.id <= pushed
  /\ \A s, t \in toasts : s.id = t.id => s = t

\* Each toast that comes puts the interval off by a period, until the stack is full.
TickerInv ==
  /\ now \in Nat /\ tick \in Nat /\ pushed \in Nat
  /\ StackSound
  /\ toasts # {} => now <= tick /\ tick <= now + Period
  /\ \A t \in toasts : Waiting(t) => tick - t.at <= Delay(Cardinality(toasts))

LEMMA Delays ==
  ASSUME Lively, NEW m \in Nat
  PROVE  /\ Delay(m) \in Int
         /\ Delay(m + 1) = Delay(m) + Period
         /\ \A n \in Nat : m <= n => Delay(m) <= Delay(n)
<1>1. Delay(m) \in Int /\ Delay(m + 1) = Delay(m) + Period
  <2>1. Period * (m + 1) = Period * m + Period /\ Period * m \in Int
    BY DEF Lively
  <2> QED BY <2>1 DEF Lively, Delay
<1>2. ASSUME NEW n \in Nat, m <= n PROVE Delay(m) <= Delay(n)
  <2>1. Period * m <= Period * n /\ Period * m \in Int /\ Period * n \in Int
    BY <1>2 DEF Lively
  <2> QED BY <2>1 DEF Lively, Delay
<1> QED BY <1>1, <1>2

LEMMA OneMore ==
  ASSUME NEW a \in Nat, NEW b \in Nat, NEW c \in Nat, a <= b, b <= a + c, a # b
  PROVE  a + 1 <= b /\ b <= a + 1 + c
OBVIOUS

\* There is an oldest toast of a full stack.
LEMMA OldestIn ==
  ASSUME toasts \subseteq Toast, toasts # {}
  PROVE  Oldest \in toasts
<1> DEFINE Ids == {t.id : t \in toasts}
<1>1. Ids \subseteq Nat /\ Ids # {}
  BY DEF Toast
<1>2. PICK x \in Ids : \A y \in Ids : ~ (<<y, x>> \in OpToRel(<, Nat))
  <2> HIDE DEF Ids
  <2> QED BY <1>1, NatLessThanWellFounded, WFMin
<1>3. \A y \in Ids : x <= y
  <2> HIDE DEF Ids
  <2> SUFFICES ASSUME NEW y \in Ids PROVE x <= y
    OBVIOUS
  <2>1. x \in Nat /\ y \in Nat
    BY <1>1, <1>2
  <2>2. ~(y < x)
    BY <1>2, <2>1 DEF OpToRel
  <2> QED BY <2>1, <2>2
<1>4. \E t \in toasts : \A s \in toasts : t.id <= s.id
  BY <1>3
<1> QED BY <1>4 DEF Oldest

LEMMA PushDelays ==
  ASSUME Lively, TickerInv, NEW kind \in ToastKinds, Push(kind), now' = now
  PROVE  TickerInv'
<1> USE DEF TickerInv
<1> DEFINE new  == [id |-> pushed + 1, kind |-> kind, at |-> now, closing |-> FALSE]
           rest == IF Cardinality(toasts) >= Stack THEN toasts \ {Oldest} ELSE toasts
           n    == Cardinality(toasts)
<1>1. /\ toasts' = rest \cup {new} /\ pushed' = pushed + 1 /\ hovered' = hovered
      /\ tick' = IF n >= Stack THEN tick ELSE now + Period
  <2> HIDE DEF TickerInv
  <2>1. toasts' = rest \cup {new}
    BY Zenon DEF Push
  <2>2. tick' = IF n >= Stack THEN tick ELSE now + Period
    BY Zenon DEF Push
  <2>3. pushed' = pushed + 1 /\ hovered' = hovered
    BY Zenon DEF Push
  <2> QED BY <2>1, <2>2, <2>3
<1>2. /\ toasts \subseteq Toast /\ IsFiniteSet(toasts) /\ n <= Stack /\ n \in Nat
      /\ Stack \in Nat \ {0} /\ Period \in Nat /\ Life \in Nat \ {0}
  BY FS_CardinalityType DEF StackSound, Lively
<1>3. new \in Toast /\ new.id = pushed + 1 /\ new.at = now /\ ~new.closing
  BY DEF Toast
<1>4. rest \subseteq toasts /\ IsFiniteSet(rest)
      /\ Cardinality(rest) = IF n >= Stack THEN n - 1 ELSE n
  <2>1. CASE n >= Stack
    <3>1. toasts # {}
      BY <1>2, <2>1, FS_EmptySet
    <3>2. Oldest \in toasts
      BY <1>2, <3>1, OldestIn
    <3> QED BY <1>2, <2>1, <3>2, FS_RemoveElement
  <2>2. CASE ~(n >= Stack)
    BY <1>2, <2>2
  <2> QED BY <2>1, <2>2
<1> HIDE DEF new, rest
<1>5. \A t \in rest : t \in toasts /\ t.id \in Nat /\ t.id <= pushed /\ t.at \in Nat
  BY <1>2, <1>4 DEF StackSound, Toast
<1>6. new \notin rest
  BY <1>3, <1>5
<1>7. /\ IsFiniteSet(toasts')
      /\ Cardinality(toasts') = IF n >= Stack THEN n ELSE n + 1
  BY <1>1, <1>2, <1>4, <1>6, FS_AddElement
<1>8. StackSound'
  <2>1. toasts' \subseteq Toast /\ Cardinality(toasts') <= Stack
    BY <1>1, <1>2, <1>3, <1>4, <1>7
  <2>2. \A t \in toasts' : t.id <= pushed'
    BY <1>1, <1>3, <1>5
  <2>3. \A s, t \in toasts' : s.id = t.id => s = t
    BY <1>1, <1>3, <1>5 DEF StackSound
  <2> QED BY <1>7, <2>1, <2>2, <2>3 DEF StackSound
<1>9. now <= tick' /\ tick' <= now + Period /\ tick' \in Nat
  <2>1. CASE n >= Stack
    <3>1. toasts # {}
      BY <1>2, <2>1, FS_EmptySet
    <3> QED BY <1>1, <2>1, <3>1
  <2>2. CASE ~(n >= Stack)
    BY <1>1, <1>2, <2>2
  <2> QED BY <2>1, <2>2
<1>10. ASSUME NEW t \in toasts', Waiting(t)'
       PROVE  tick' - t.at <= Delay(Cardinality(toasts'))
  <2> DEFINE m == Cardinality(toasts')
  <2>1. m \in Nat /\ 1 <= m
    BY <1>2, <1>7
  <2>2. CASE t = new
    <3>1. Delay(1) = Life - 1 + Period /\ Delay(1) <= Delay(m) /\ Delay(m) \in Int
      <4>1. Period * 1 = Period /\ 1 \in Nat
        BY <1>2
      <4> HIDE DEF m
      <4> QED BY <2>1, <4>1, Delays DEF Delay
    <3>2. now \in Nat /\ tick' \in Nat /\ tick' <= now + Period
      BY <1>9
    <3> HIDE DEF m
    <3>3. tick' - now <= Delay(m)
      BY <1>2, <3>1, <3>2
    <3> QED BY <1>3, <2>2, <3>3 DEF m
  <2>3. CASE t # new
    <3>1. t \in toasts /\ t.at \in Nat /\ Waiting(t)
      BY <1>1, <1>5, <1>10, <2>3 DEF Waiting
    <3>2. tick - t.at <= Delay(n) /\ now <= tick
      BY <3>1
    <3>3. Delay(n) \in Int /\ Delay(n + 1) = Delay(n) + Period
      BY <1>2, Delays
    <3>4. CASE n >= Stack
      <4>1. tick' = tick /\ m = n
        BY <1>1, <1>7, <3>4
      <4> HIDE DEF m, n, TickerInv
      <4>2. tick' - t.at <= Delay(m)
        BY <3>2, <4>1
      <4> QED BY <4>2 DEF m
    <3>5. CASE ~(n >= Stack)
      <4>1. tick' = now + Period /\ m = n + 1
        BY <1>1, <1>7, <3>5
      <4>2. now + Period - t.at <= Delay(n) + Period
        BY <1>2, <3>1, <3>2, <3>3
      <4> HIDE DEF m, n, TickerInv
      <4>3. Delay(m) = Delay(n) + Period
        BY <3>3, <4>1
      <4>4. tick' - t.at <= Delay(m)
        <5>1. now \in Nat /\ tick' \in Nat
          BY <1>9 DEF TickerInv
        <5> QED BY <1>2, <3>1, <3>3, <4>1, <4>2, <4>3, <5>1
      <4> QED BY <4>4 DEF m
    <3> QED BY <3>4, <3>5
  <2> QED BY <2>2, <2>3
<1>11. pushed' \in Nat
  BY <1>1
<1> QED BY <1>8, <1>9, <1>10, <1>11

LEMMA TickDelays ==
  ASSUME Lively, TickerInv, Tick
  PROVE  TickerInv'
<1> USE DEF TickerInv
<1> DEFINE f == [t \in Left |-> Aged(t)]
<1>1. /\ now' = now /\ hovered' = hovered /\ pushed' = pushed
      /\ toasts' = {Aged(t) : t \in Left}
      /\ tick' = IF Left = {} THEN 0 ELSE now + Period
  BY DEF Tick
<1>2. /\ toasts \subseteq Toast /\ IsFiniteSet(toasts) /\ Cardinality(toasts) <= Stack
      /\ Cardinality(toasts) \in Nat
      /\ Stack \in Nat \ {0} /\ Period \in Nat /\ Life \in Nat \ {0}
  BY FS_CardinalityType DEF StackSound, Lively
<1>3. Left \subseteq toasts
  BY DEF Left
<1>4. ASSUME NEW t \in Left
      PROVE  /\ Aged(t) \in Toast /\ Aged(t).id = t.id
             /\ Waiting(Aged(t)) => Aged(t) = t /\ now - t.at < Life
  <2>1. t \in Toast
    BY <1>2, <1>3
  <2>2. CASE Waiting(t) /\ now - t.at >= Life
    <3> DEFINE s == [t EXCEPT !.closing = TRUE, !.at = now]
    <3>1. s \in Toast /\ s.id = t.id /\ s.closing
      BY <2>1 DEF Toast
    <3>2. Aged(t) = s
      BY <2>2 DEF Aged, Waiting
    <3> HIDE DEF s
    <3> QED BY <3>1, <3>2 DEF Waiting
  <2>3. CASE ~(Waiting(t) /\ now - t.at >= Life)
    <3>1. Aged(t) = t
      BY <2>3 DEF Aged, Waiting
    <3>2. t.at \in Nat
      BY <2>1 DEF Toast
    <3> QED BY <1>2, <2>1, <2>3, <3>1, <3>2
  <2> QED BY <2>2, <2>3
<1>5. IsFiniteSet(Left) /\ Cardinality(Left) <= Cardinality(toasts) /\ Cardinality(Left) \in Nat
  BY <1>2, <1>3, FS_Subset, FS_CardinalityType
<1>6. /\ IsFiniteSet(toasts') /\ Cardinality(toasts') <= Cardinality(Left)
      /\ Cardinality(toasts') \in Nat
  <2>1. f \in Surjection(Left, toasts')
    BY <1>1 DEF Surjection
  <2> HIDE DEF f
  <2> QED BY <1>5, <2>1, FS_Surjection, FS_CardinalityType
<1>7. StackSound'
  <2>1. toasts' \subseteq Toast
    BY <1>1, <1>4
  <2>2. Cardinality(toasts') <= Stack
    BY <1>2, <1>5, <1>6
  <2>3. \A t \in toasts' : t.id <= pushed'
    BY <1>1, <1>3, <1>4 DEF StackSound
  <2>4. \A s, t \in toasts' : s.id = t.id => s = t
    BY <1>1, <1>3, <1>4 DEF StackSound
  <2> QED BY <1>6, <2>1, <2>2, <2>3, <2>4 DEF StackSound
<1>8. tick' \in Nat /\ (toasts' # {} => now <= tick' /\ tick' <= now + Period)
  BY <1>1, <1>2
<1>9. ASSUME NEW s \in toasts', Waiting(s)'
      PROVE  tick' - s.at <= Delay(Cardinality(toasts'))
  <2> DEFINE m == Cardinality(toasts')
  <2>1. PICK t \in Left : s = Aged(t)
    BY <1>1
  <2>2. s = t /\ now - t.at < Life
    BY <1>1, <1>4, <1>9, <2>1 DEF Waiting
  <2>3. tick' = now + Period /\ s.at \in Nat
    BY <1>1, <1>2, <1>3, <2>1, <2>2 DEF Toast
  <2>4. m \in Nat /\ 1 <= m
    BY <1>6, FS_EmptySet
  <2>5. Delay(1) = Life - 1 + Period /\ Delay(1) <= Delay(m) /\ Delay(m) \in Int
    <3>1. Period * 1 = Period /\ 1 \in Nat
      BY <1>2
    <3> HIDE DEF m
    <3> QED BY <2>4, <3>1, Delays DEF Delay
  <2>6. now + Period - s.at <= Life - 1 + Period
    BY <1>2, <2>2, <2>3
  <2> HIDE DEF m
  <2>7. tick' - s.at <= Delay(m)
    BY <1>2, <2>3, <2>5, <2>6
  <2> QED BY <2>7 DEF m
<1> QED BY <1>1, <1>7, <1>8, <1>9

LEMMA PointerDelays ==
  ASSUME Lively, TickerInv, NEW t \in toasts, Enter(t) \/ Leave(t)
  PROVE  TickerInv'
<1> USE DEF TickerInv
<1>1. now' = now /\ tick' = tick /\ pushed' = pushed
  BY DEF Enter, Leave
<1>2. /\ toasts \subseteq Toast /\ IsFiniteSet(toasts) /\ Cardinality(toasts) \in Nat
      /\ Stack \in Nat \ {0} /\ Period \in Nat /\ Life \in Nat \ {0}
  BY FS_CardinalityType DEF StackSound, Lively
<1>3. CASE Enter(t)
  <2>1. toasts' = toasts /\ \A s \in toasts : s.id # hovered
    BY <1>3 DEF Enter
  <2>2. StackSound'
    BY <1>1, <2>1 DEF StackSound
  <2>3. \A s \in toasts : Waiting(s)' => Waiting(s)
    BY <2>1 DEF Waiting
  <2> QED BY <1>1, <2>1, <2>2, <2>3
<1>4. CASE Leave(t)
  <2> DEFINE r    == [t EXCEPT !.at = now]
             rest == toasts \ {t}
  <2>1. toasts' = rest \cup {r} /\ hovered = t.id
    BY <1>4 DEF Leave
  <2>2. r \in Toast /\ r.id = t.id /\ r.at = now
    BY <1>2 DEF Toast
  <2>3. \A s \in rest : s \in toasts /\ s.id # t.id
    BY DEF StackSound
  <2>4. IsFiniteSet(rest) /\ Cardinality(rest) = Cardinality(toasts) - 1
    BY <1>2, FS_RemoveElement
  <2> HIDE DEF r, rest
  <2>5. IsFiniteSet(toasts') /\ Cardinality(toasts') = Cardinality(toasts)
    <3>1. r \notin rest
      BY <2>2, <2>3
    <3>2. IsFiniteSet(rest \cup {r}) /\ Cardinality(rest \cup {r}) = Cardinality(rest) + 1
      BY <2>4, <3>1, FS_AddElement
    <3> QED BY <1>2, <2>1, <2>4, <3>2
  <2>6. StackSound'
    <3>1. toasts' \subseteq Toast
      BY <1>2, <2>1, <2>2, <2>3
    <3>2. \A s \in toasts' : s.id <= pushed'
      BY <1>1, <2>1, <2>2, <2>3 DEF StackSound
    <3>3. \A s, q \in toasts' : s.id = q.id => s = q
      BY <2>1, <2>2, <2>3 DEF StackSound
    <3> QED BY <2>5, <3>1, <3>2, <3>3 DEF StackSound
  <2>7. toasts # {} /\ 1 <= Cardinality(toasts)
    BY <1>2, FS_EmptySet
  <2>8. ASSUME NEW s \in toasts', Waiting(s)'
        PROVE  tick' - s.at <= Delay(Cardinality(toasts'))
    <3>1. CASE s = r
      <4>1. Period * 1 = Period /\ 1 \in Nat
        BY <1>2
      <4>2. Delay(1) = Life - 1 + Period
        BY <4>1 DEF Delay
      <4>3. Delay(1) <= Delay(Cardinality(toasts)) /\ Delay(Cardinality(toasts)) \in Int
        BY <1>2, <2>7, <4>1, Delays
      <4>4. now \in Nat /\ tick \in Nat /\ tick <= now + Period
        BY <2>7
      <4>5. tick - now <= Delay(Cardinality(toasts))
        BY <1>2, <4>2, <4>3, <4>4
      <4> QED BY <1>1, <2>2, <2>5, <3>1, <4>5
    <3>2. CASE s # r
      <4>1. s \in toasts /\ Waiting(s)
        BY <2>1, <2>3, <2>8, <3>2 DEF Waiting
      <4> QED BY <1>1, <2>5, <4>1
    <3> QED BY <3>1, <3>2
  <2> QED BY <1>1, <2>5, <2>6, <2>7, <2>8
<1> QED BY <1>3, <1>4

\* Toasts are as they were, and time has not passed a tick.
LEMMA TickerStays ==
  ASSUME TickerInv, UNCHANGED <<toasts, pushed, hovered, tick>>, now' \in Nat,
         now' = now \/ (now' = now + 1 /\ now # tick), Lively
  PROVE  TickerInv'
<1> USE DEF TickerInv
<1>1. StackSound'
  BY DEF StackSound
<1>2. toasts' # {} => now' <= tick' /\ tick' <= now' + Period
  <2> SUFFICES ASSUME toasts' # {} PROVE now' <= tick' /\ tick' <= now' + Period
    OBVIOUS
  <2>1. /\ now <= tick /\ tick <= now + Period /\ now \in Nat /\ tick \in Nat
        /\ Period \in Nat /\ tick' = tick
    BY DEF Lively
  <2>2. now' = now \/ (now' = now + 1 /\ now # tick)
    OBVIOUS
  <2>3. CASE now' = now + 1 /\ now # tick
    BY <2>1, <2>3, OneMore
  <2> QED BY <2>1, <2>2, <2>3
<1>3. \A t \in toasts' : Waiting(t)' => tick' - t.at <= Delay(Cardinality(toasts'))
  BY DEF Waiting
<1>4. now' \in Nat /\ tick' \in Nat /\ pushed' \in Nat
  OBVIOUS
<1> QED BY <1>1, <1>2, <1>3, <1>4

LEMMA HandleDelays ==
  ASSUME Lively, TickerInv, Handle
  PROVE  TickerInv'
<1>1. now' = now
  BY DEF Handle
<1>2. \/ \E kind \in {"manual", "ladder", "extended", "backpressure"} : Push(kind)
      \/ Clear \/ UNCHANGED <<toasts, pushed, hovered, tick>>
  BY DEF Handle, HandleNew, HandleLadder, HandleExtended,
         HandleEnded, HandleLoad, ticker
<1>3. CASE \E kind \in {"manual", "ladder", "extended", "backpressure"} : Push(kind)
  <2>1. PICK kind \in {"manual", "ladder", "extended", "backpressure"} : Push(kind)
    BY <1>3
  <2> QED BY <1>1, <2>1, PushDelays DEF ToastKinds
<1>4. CASE Clear
  BY <1>1, <1>4, FS_EmptySet DEF Clear, TickerInv, StackSound, Lively
<1>5. CASE UNCHANGED <<toasts, pushed, hovered, tick>>
  BY <1>1, <1>5, TickerStays DEF TickerInv
<1> QED BY <1>2, <1>3, <1>4, <1>5

LEMMA OthersDelay ==
  ASSUME Lively, TickerInv, [NoticesNext]_noticeVars, ~Handle, ~Tick,
         ~(\E t \in toasts : Enter(t) \/ Leave(t))
  PROVE  TickerInv'
<1>1. /\ UNCHANGED <<toasts, pushed, hovered, tick>>
      /\ now' = now \/ (now' = now + 1 /\ now # tick)
  <2>1. CASE Refetch \/ Typing \/ Dismiss \/ CountDown
    BY <2>1 DEF Refetch, Typing, Dismiss, CountDown,
      ticker
  <2>2. CASE Disconnect \/ Reconnect \/ Pass
    BY <2>2 DEF Disconnect, Reconnect, Pass, ticker
  <2>3. CASE \E e \in due : Emit(e)
    BY <2>3 DEF Emit, ticker
  <2>4. CASE \E mine \in BOOLEAN : PlaceBid(mine) \/ CommitBid(mine)
    BY <2>4 DEF PlaceBid, CommitBid, Operate, ticker
  <2>5. CASE Extend \/ AbortBid
    BY <2>5 DEF Extend, AbortBid, ticker
  <2>6. CASE Climb(1) \/ Climb(2) \/ End \/ Saturate
    BY <2>6 DEF Climb, End, Saturate, Operate, ticker
  <2>7. CASE UNCHANGED noticeVars
    BY <2>7 DEF noticeVars, ticker
  <2> QED BY <2>1, <2>2, <2>3, <2>4, <2>5, <2>6, <2>7 DEF NoticesNext
<1> QED BY <1>1, TickerStays DEF TickerInv

\* Although the timer is set up anew with each toast that comes or goes, a toast that the
\* pointer is not on begins to go in time (LiveTicker.tsx:103-126).
THEOREM ToastsBeginToGo ==
  ASSUME Lively
  PROVE  NoticesSpec => []ToastsLeave
<1>1. Lively
  OBVIOUS
<1>2. NoticesInit => TickerInv
  BY FS_EmptySet DEF Lively, NoticesInit, TickerInv, StackSound
<1>3. TickerInv /\ [NoticesNext]_noticeVars => TickerInv'
  BY <1>1, HandleDelays, TickDelays, PointerDelays, OthersDelay
<1>4. TickerInv => ToastsLeave
  <2> SUFFICES ASSUME TickerInv, NEW t \in toasts, Waiting(t)
               PROVE  now - t.at < Life + Stack * Period
    BY DEF ToastsLeave, Waiting
  <2>1. tick - t.at <= Delay(Cardinality(toasts)) /\ now <= tick
    BY DEF TickerInv
  <2>2. t.at \in Nat /\ now \in Nat /\ tick \in Nat
    BY DEF TickerInv, StackSound, Toast
  <2>3. Cardinality(toasts) \in Nat /\ Cardinality(toasts) <= Stack /\ Stack \in Nat
    BY FS_CardinalityType DEF TickerInv, StackSound, Lively
  <2>4. Delay(Cardinality(toasts)) <= Delay(Stack) /\ Delay(Stack) \in Int
        /\ Delay(Cardinality(toasts)) \in Int
    BY <1>1, <2>3, Delays
  <2>5. now - t.at <= Delay(Stack)
    BY <2>1, <2>2, <2>4
  <2>6. Delay(Stack) = Life - 1 + Stack * Period /\ Stack * Period \in Int
    BY <2>3 DEF Delay, Lively
  <2> QED BY <1>1, <2>2, <2>5, <2>6 DEF Lively
<1> QED BY <1>2, <1>3, <1>4, PTL DEF NoticesSpec

-----------------------------------------------------------------------------
(* How long a Dutch auction lasts: CreateForm                              *)

CONSTANTS Entries, Skew, MaxEdits, MaxSubmits, MaxFaults, LastHour
VARIABLES hour, form, errors, notice, loading, upload, requests, rows, view, edits, faults

Form == INSTANCE CreateForm WITH now <- hour, page <- view, MaxTime <- LastHour

FormTypes == {"ENGLISH", "DUTCH", "SEALED_BID"}
Numbers   == Form!Field \ {"type"}

\* What may be typed: one of the three types, and numbers in the other fields.
Typable ==
  /\ Skew \in Int
  /\ \A e \in Entries : /\ e[1] \in Form!Field
                        /\ e[1] = "type" => e[2] \in FormTypes
                        /\ e[1] # "type" => e[2] \in Int

\* A form with all of its fields, each of its kind.
FormOK(f) == DOMAIN f = Form!Field /\ f["type"] \in FormTypes /\ \A k \in Numbers : f[k] \in Int

\* How long a Dutch auction takes to come down to its reserve.
Length(b) ==
  Form!CeilDiv(b.startingPrice - Form!Positive(b.reservePrice), b.dutchPriceStep) * b.dutchInterval

Sequence(s) == \E S : s \in Seq(S)

\* A request for a Dutch auction carries the length that its body has.
RequestKept(q) ==
  /\ {"body", "hint"} \subseteq DOMAIN q
  /\ q.body.type = "DUTCH" =>
       /\ q.hint = Length(q.body) /\ q.hint \in Int
       /\ q.body.endTime = Form!Blank /\ q.body.startTime \in Int

\* A Dutch auction lasts as long as was said.
RowKept(r) ==
  /\ {"type", "start", "end", "hint"} \subseteq DOMAIN r
  /\ r.type = "DUTCH" => r.end - r.start = r.hint

HintInv ==
  /\ hour \in Int /\ FormOK(form)
  /\ Sequence(requests)
  /\ \A i \in DOMAIN requests : RequestKept(requests[i])
  /\ Sequence(rows)
  /\ \A i \in DOMAIN rows : RowKept(rows[i])


-----------------------------------------------------------------------------
(* What the form holds, says and sends                                     *)

LEMMA Fields ==
  /\ Form!Field = {"title", "description", "imageUrl", "type", "startingPrice", "reservePrice",
              "buyNowPrice", "minIncrement", "antiSnipingMins", "startTime", "endTime",
              "dutchPriceStep", "dutchInterval"}
  /\ FormOK(Form!Empty)
<1>1. Form!Field = {"title", "description", "imageUrl", "type", "startingPrice", "reservePrice",
              "buyNowPrice", "minIncrement", "antiSnipingMins", "startTime", "endTime",
              "dutchPriceStep", "dutchInterval"}
  BY DEF Form!Field, Form!Empty
<1>2. FormOK(Form!Empty)
  BY <1>1 DEF FormOK, Form!Empty, Numbers, Form!Blank, FormTypes, Form!Field
<1> QED BY <1>1, <1>2

\* What the request for a Dutch auction takes from the form: no end, and its own prices.
LEMMA BodyOf ==
  ASSUME FormOK(form), Form!Client \in Int
  PROVE  LET b == Form!Body(form)
         IN  /\ b.type = form.type
             /\ b.startTime \in Int
             /\ form.type = "DUTCH" =>
                  /\ b.endTime = Form!Blank
                  /\ b.startingPrice = form.startingPrice
                  /\ Form!Positive(b.reservePrice) = Form!Positive(form.reservePrice)
                  /\ b.dutchPriceStep = form.dutchPriceStep
                  /\ b.dutchInterval = form.dutchInterval
BY Fields DEF Form!Body, FormOK, Numbers, Form!Rendered, Form!NeverDutch, Form!OnlyDutch, Form!Positive, Form!Blank

\* set keeps a form a form.
LEMMA ChangedOK ==
  ASSUME NEW f, FormOK(f), NEW k \in Form!Field, NEW v,
         k = "type" => v \in FormTypes, k # "type" => v \in Int
  PROVE  FormOK(Form!Changed(f, k, v))
<1> DEFINE g == [f EXCEPT ![k] = v]
           h(m, a) == [g EXCEPT !["dutchPriceStep"] = Form!Blank, !["dutchInterval"] = Form!Blank,
                                !["minIncrement"] = m, !["antiSnipingMins"] = a]
<1>1. FormOK(g)
  BY DEF FormOK, Numbers
<1>2. CASE k # "type"
  BY <1>1, <1>2 DEF Form!Changed
<1>3. CASE k = "type" /\ v = "DUTCH"
  BY <1>1, <1>3, Fields DEF Form!Changed, FormOK, Numbers, Form!NeverDutch, Form!Blank
<1>4. CASE k = "type" /\ v # "DUTCH"
  <2>1. PICK m, a : Form!Changed(f, k, v) = h(m, a) /\ m \in Int /\ a \in Int
    <3> DEFINE m == IF g["minIncrement"] = Form!Blank THEN 100 ELSE g["minIncrement"]
               a == IF g["antiSnipingMins"] = Form!Blank THEN 5 ELSE g["antiSnipingMins"]
    <3>1. m \in Int /\ a \in Int
      BY <1>1, Fields DEF FormOK, Numbers
    <3>2. Form!Changed(f, k, v) = h(m, a)
      BY <1>1, <1>4, Fields DEF Form!Changed, FormOK
    <3> QED BY <3>1, <3>2
  <2>2. FormOK(h(m, a))
    <3> HIDE DEF g
    <3> QED BY <1>1, <2>1, Fields DEF FormOK, Numbers, Form!Blank
  <2> QED BY <2>1, <2>2
<1> QED BY <1>2, <1>3, <1>4

LEMMA LengthInt ==
  ASSUME NEW x \in Int, NEW y \in Int, NEW s \in Nat \ {0}, NEW d \in Int
  PROVE  Form!CeilDiv(x - Form!Positive(y), s) * d \in Int
<1>1. x - Form!Positive(y) \in Int
  BY DEF Form!Positive
<1>2. -((-(x - Form!Positive(y))) \div s) \in Int
  <2> DEFINE z == -(x - Form!Positive(y))
  <2>1. z \in Int
    BY <1>1
  <2> HIDE DEF z
  <2>2. z \div s \in Int
    BY <2>1
  <2> QED BY <2>2 DEF z
<1> QED BY <1>2 DEF Form!CeilDiv

\* What the hint said is the length of the body, once the form has been accepted.
LEMMA HintIs ==
  ASSUME FormOK(form), Form!Client \in Int, Form!validate(form) = {}
  PROVE  /\ Form!Hint(form) \in Int
         /\ Form!Body(form).type = "DUTCH" =>
              /\ Form!Hint(form) = Length(Form!Body(form))
              /\ Form!Body(form).endTime = Form!Blank /\ Form!Body(form).startTime \in Int
<1>1. form.type # "DUTCH" => Form!Hint(form) = 0 /\ Form!Body(form).type # "DUTCH"
  BY BodyOf DEF Form!Hint
<1>2. ASSUME form.type = "DUTCH"
      PROVE  /\ Form!Hint(form) \in Int /\ Form!Hint(form) = Length(Form!Body(form))
             /\ Form!Body(form).endTime = Form!Blank /\ Form!Body(form).startTime \in Int
  <2>1. PICK x, y, s, d : x = form.startingPrice /\ y = form.reservePrice
                          /\ s = form.dutchPriceStep /\ d = form.dutchInterval
    OBVIOUS
  <2>2. x \in Int /\ y \in Int /\ s \in Int /\ d \in Int
    BY <2>1, Fields DEF FormOK, Numbers
  <2>3. x > 0 /\ s > 0 /\ d >= 60
    BY <1>2, <2>1, <2>2, Fields DEF Form!validate, Form!Unacceptable
  <2>4. Form!CeilDiv(x - Form!Positive(y), s) * d \in Int
    BY <2>2, <2>3, LengthInt
  <2>5. Form!Hint(form) = Form!CeilDiv(x - Form!Positive(y), s) * d
    BY <1>2, <2>1, <2>2, <2>3 DEF Form!Hint, Form!Blank
  <2>6. Length(Form!Body(form)) = Form!CeilDiv(x - Form!Positive(y), s) * d
    BY <1>2, <2>1, BodyOf DEF Length
  <2> QED BY <1>2, <2>4, <2>5, <2>6, BodyOf
<1> QED BY <1>1, <1>2

-----------------------------------------------------------------------------
(* Requests, rows, and what a step does to them                            *)

\* What holds of all members of a sequence holds after one more, or one changed.
LEMMA OneAppended ==
  ASSUME NEW s, Sequence(s), NEW e
  PROVE  LET t == Append(s, e)
         IN  Sequence(t) /\ \A i \in DOMAIN t : t[i] = e \/ (i \in DOMAIN s /\ t[i] = s[i])
<1>1. PICK S : s \in Seq(S)
  BY DEF Sequence
<1>2. s \in Seq(S \cup {e})
  BY <1>1
<1>3. Append(s, e) \in Seq(S \cup {e})
  BY <1>2
<1>4. \A i \in DOMAIN Append(s, e) : Append(s, e)[i] = e \/ (i \in DOMAIN s /\ Append(s, e)[i] = s[i])
  BY <1>2, AppendProperties
<1> QED BY <1>3, <1>4 DEF Sequence

LEMMA OneChanged ==
  ASSUME NEW s, Sequence(s), NEW k, NEW e
  PROVE  LET t == [s EXCEPT ![k] = e]
         IN  /\ Sequence(t) /\ DOMAIN t = DOMAIN s
             /\ \A i \in DOMAIN t : t[i] = s[i] \/ (i = k /\ t[i] = e)
<1> DEFINE t == [s EXCEPT ![k] = e]
<1>1. PICK S : s \in Seq(S)
  BY DEF Sequence
<1>2. s \in Seq(S \cup {e})
  BY <1>1
<1>3. t \in Seq(S \cup {e})
  <2>1. CASE k \in 1 .. Len(s)
    BY <1>2, <2>1, ExceptSeq
  <2>2. CASE k \notin 1 .. Len(s)
    <3>1. DOMAIN s = 1 .. Len(s)
      BY <1>2
    <3>2. t = s
      <4>1. s = [i \in DOMAIN s |-> s[i]]
        BY <1>2
      <4> QED BY <2>2, <3>1, <4>1
    <3> QED BY <1>2, <3>2
  <2> QED BY <2>1, <2>2
<1> QED BY <1>3 DEF Sequence

LEMMA HintInit == ASSUME Typable, Form!Init PROVE HintInv
<1>1. DOMAIN requests = {} /\ DOMAIN rows = {}
  BY DEF Form!Init
<1>2. rows \in Seq({}) /\ requests \in Seq({})
  BY DEF Form!Init
<1>3. hour \in Int /\ FormOK(form)
  BY Fields DEF Form!Init
<1> QED BY <1>1, <1>2, <1>3 DEF HintInv, Sequence

LEMMA SubmitKeeps == ASSUME Typable, HintInv, Form!onSubmit PROVE HintInv'
<1>1. Form!Client \in Int
  BY DEF Typable, HintInv, Form!Client
<1>2. CASE Form!validate(form) # {}
  BY <1>2 DEF Form!onSubmit, HintInv
<1>3. CASE Form!validate(form) = {}
  <2> DEFINE q == [body |-> Form!Body(form), blank |-> form.startTime = Form!Blank, hint |-> Form!Hint(form),
                   at |-> "sent", row |-> 0, awaited |-> TRUE, refused |-> {}]
  <2>1. /\ {"body", "hint"} \subseteq DOMAIN q
        /\ q.body = Form!Body(form) /\ q.hint = Form!Hint(form)
    OBVIOUS
  <2>2. requests' = Append(requests, q)
    BY <1>3 DEF Form!onSubmit
  <2> HIDE DEF q
  <2>3. RequestKept(q)
    BY <1>1, <1>3, <2>1, HintIs DEF HintInv, RequestKept
  <2>4. Sequence(requests') /\ \A i \in DOMAIN requests' : RequestKept(requests'[i])
    BY <2>2, <2>3, OneAppended DEF HintInv
  <2> QED BY <2>4 DEF Form!onSubmit, HintInv
<1> QED BY <1>2, <1>3

\* What is stored lasts as long as the request says.
LEMMA StoredAsHinted ==
  ASSUME NEW q, RequestKept(q)
  PROVE  RowKept(Form!Stored(q.body, q.blank, q.hint))
<1> DEFINE b == q.body
           r == Form!Stored(q.body, q.blank, q.hint)
<1>1. /\ {"type", "start", "end", "hint"} \subseteq DOMAIN r
      /\ r.type = b.type /\ r.start = b.startTime /\ r.end = Form!Ends(b) /\ r.hint = q.hint
  BY DEF Form!Stored
<1>2. ASSUME b.type = "DUTCH" PROVE Form!Ends(b) - b.startTime = q.hint
  <2>1. q.hint = Length(b) /\ b.endTime = Form!Blank /\ b.startTime \in Int /\ q.hint \in Int
    BY <1>2 DEF RequestKept
  <2>2. Form!Ends(b) = b.startTime + q.hint
    BY <2>1 DEF Form!Ends, Length
  <2> QED BY <2>1, <2>2
<1> HIDE DEF r, b
<1>3. RowKept(r)
  BY <1>1, <1>2 DEF RowKept
<1> QED BY <1>3 DEF r

\* A request moves on, and keeps what it carries.
LEMMA MovedOn ==
  ASSUME HintInv, NEW i \in DOMAIN requests, NEW q,
         DOMAIN q = DOMAIN requests[i], q.body = requests[i].body, q.hint = requests[i].hint,
         requests' = [requests EXCEPT ![i] = q]
  PROVE  Sequence(requests') /\ \A j \in DOMAIN requests' : RequestKept(requests'[j])
<1>1. RequestKept(q)
  BY DEF HintInv, RequestKept
<1> QED BY <1>1, OneChanged DEF HintInv

LEMMA ServeKeepsHints == ASSUME HintInv, NEW i \in DOMAIN requests, Form!Serve(i) PROVE HintInv'
<1> DEFINE q == requests[i]
<1>1. RequestKept(q)
  BY DEF HintInv
<1>2. Sequence(requests') /\ \A j \in DOMAIN requests' : RequestKept(requests'[j])
  <2>1. PICK p : /\ requests' = [requests EXCEPT ![i] = p]
                 /\ DOMAIN p = DOMAIN q /\ p.body = q.body /\ p.hint = q.hint
    <3>1. CASE Form!Invalid(q.body) = {} /\ Form!Storable(q.body)
      <4> DEFINE p == [q EXCEPT !.at = "stored", !.row = Len(rows) + 1]
      <4>1. requests' = [requests EXCEPT ![i] = p]
        BY <3>1 DEF Form!Serve
      <4>2. DOMAIN p = DOMAIN q /\ p.body = q.body /\ p.hint = q.hint
        BY <1>1 DEF RequestKept
      <4> QED BY <4>1, <4>2
    <3>2. CASE ~(Form!Invalid(q.body) = {} /\ Form!Storable(q.body))
      <4> DEFINE p == [q EXCEPT !.at = "refused", !.refused = Form!Invalid(q.body)]
      <4>1. requests' = [requests EXCEPT ![i] = p]
        BY <3>2 DEF Form!Serve
      <4>2. DOMAIN p = DOMAIN q /\ p.body = q.body /\ p.hint = q.hint
        BY <1>1 DEF RequestKept
      <4> QED BY <4>1, <4>2
    <3> QED BY <3>1, <3>2
  <2> QED BY <2>1, MovedOn
<1>3. Sequence(rows') /\ \A j \in DOMAIN rows' : RowKept(rows'[j])
  <2>1. CASE rows' = Append(rows, Form!Stored(q.body, q.blank, q.hint))
    <3>1. RowKept(Form!Stored(q.body, q.blank, q.hint))
      BY <1>1, StoredAsHinted
    <3> QED BY <2>1, <3>1, OneAppended DEF HintInv
  <2>2. CASE rows' = rows
    BY <2>2 DEF HintInv
  <2> QED BY <2>1, <2>2 DEF Form!Serve
<1> QED BY <1>2, <1>3 DEF HintInv, Form!Serve

\* A row is changed.
LEMMA RowChanged ==
  ASSUME HintInv, NEW k, NEW r, k \in DOMAIN rows => RowKept(r), rows' = [rows EXCEPT ![k] = r]
  PROVE  Sequence(rows') /\ \A j \in DOMAIN rows' : RowKept(rows'[j])
BY OneChanged DEF HintInv

\* Its jobs are queued: the times of the row stay.
LEMMA JobsQueued ==
  ASSUME HintInv, NEW i \in DOMAIN requests, NEW jobs, NEW at,
         rows' = [rows EXCEPT ![requests[i].row].jobs = jobs],
         requests' = [requests EXCEPT ![i].at = at],
         UNCHANGED <<hour, form>>
  PROVE  HintInv'
<1>1. Sequence(rows') /\ \A j \in DOMAIN rows' : RowKept(rows'[j])
  <2>1. PICK k, r : /\ rows' = [rows EXCEPT ![k] = r]
                    /\ r = [rows[k] EXCEPT !.jobs = jobs]
    OBVIOUS
  <2>2. k \in DOMAIN rows => RowKept(r)
    BY <2>1 DEF HintInv, RowKept
  <2> QED BY <2>1, <2>2, RowChanged
<1>2. Sequence(requests') /\ \A j \in DOMAIN requests' : RequestKept(requests'[j])
  <2> DEFINE q == [requests[i] EXCEPT !.at = at]
  <2>1. /\ DOMAIN q = DOMAIN requests[i]
        /\ q.body = requests[i].body /\ q.hint = requests[i].hint
    BY DEF HintInv, RequestKept
  <2>2. requests' = [requests EXCEPT ![i] = q]
    OBVIOUS
  <2> HIDE DEF q
  <2> QED BY <2>1, <2>2, MovedOn
<1> QED BY <1>1, <1>2 DEF HintInv

LEMMA AnsweredKeeps == ASSUME HintInv, NEW i \in DOMAIN requests, Form!Answered(i) PROVE HintInv'
<1>1. Sequence(requests') /\ \A j \in DOMAIN requests' : RequestKept(requests'[j])
  <2> DEFINE q == [requests[i] EXCEPT !.awaited = FALSE]
  <2>1. /\ DOMAIN q = DOMAIN requests[i]
        /\ q.body = requests[i].body /\ q.hint = requests[i].hint
    BY DEF HintInv, RequestKept
  <2>2. requests' = [requests EXCEPT ![i] = q]
    BY DEF Form!Answered
  <2> HIDE DEF q
  <2> QED BY <2>1, <2>2, MovedOn
<1> QED BY <1>1 DEF HintInv, Form!Answered

LEMMA HintNext == ASSUME Typable, HintInv, [Form!Next]_Form!vars PROVE HintInv'
<1>1. ASSUME NEW e \in Entries, Form!Edit(e[1], e[2]) PROVE HintInv'
  <2>1. FormOK(form')
    BY <1>1, ChangedOK DEF Form!Edit, Typable, HintInv
  <2> QED BY <1>1, <2>1 DEF Form!Edit, HintInv
<1>2. CASE Form!Uploaded
  <2>1. FormOK(form')
    BY <1>2, Fields DEF Form!Uploaded, HintInv, FormOK, Numbers
  <2> QED BY <1>2, <2>1 DEF Form!Uploaded, HintInv
<1>3. CASE Form!onSubmit
  BY <1>3, SubmitKeeps
<1>4. ASSUME NEW i \in DOMAIN requests, Form!Serve(i) PROVE HintInv'
  BY <1>4, ServeKeepsHints
<1>5. ASSUME NEW i \in DOMAIN requests, Form!Queue(i) PROVE HintInv'
  <2>1. PICK jobs : rows' = [rows EXCEPT ![requests[i].row].jobs = jobs]
    BY <1>5 DEF Form!Queue
  <2> QED BY <1>5, <2>1, JobsQueued DEF Form!Queue
<1>6. ASSUME NEW i \in DOMAIN requests, NEW taken, Form!QueueFails(i, taken) PROVE HintInv'
  <2>1. /\ rows' = [rows EXCEPT ![requests[i].row].jobs = taken]
        /\ requests' = [requests EXCEPT ![i].at = "failed"] /\ UNCHANGED <<hour, form>>
    BY <1>6 DEF Form!QueueFails
  <2> QED BY <2>1, JobsQueued
<1>7. ASSUME NEW i \in DOMAIN requests, Form!Created(i) \/ Form!Refused(i) \/ Form!Lose(i) PROVE HintInv'
  BY <1>7, AnsweredKeeps DEF Form!Created, Form!Refused, Form!Lose
<1>8. CASE Form!ChooseFile \/ Form!UploadFailed \/ Form!Leave \/ UNCHANGED Form!vars
  BY <1>8 DEF Form!ChooseFile, Form!UploadFailed, Form!Leave, Form!vars, HintInv
<1>9. CASE Form!Pass
  BY <1>9 DEF Form!Pass, HintInv
<1> QED BY <1>1, <1>2, <1>3, <1>4, <1>5, <1>6, <1>7, <1>8, <1>9 DEF Form!Next

\* However the form was filled in before, whether a reserve was left out, and whatever is typed
\* or lost while a request is under way, a Dutch auction that createAuction stores lasts as long
\* as DutchDurationHint said when it was submitted: the two computations agree for all numbers.
THEOREM DutchLastsAsHinted == ASSUME Typable PROVE Form!Spec => []Form!LastsAsHinted
<1>1. HintInv => Form!LastsAsHinted
  BY DEF HintInv, Form!LastsAsHinted, RowKept
<1>2. Form!Init => HintInv
  BY HintInit
<1>3. HintInv /\ [Form!Next]_Form!vars => HintInv'
  BY HintNext
<1> QED BY <1>1, <1>2, <1>3, PTL DEF Form!Spec
=============================================================================
