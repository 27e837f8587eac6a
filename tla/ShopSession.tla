------------------------------ MODULE ShopSession ------------------------------
(***************************************************************************)
(* The session of a customer in the web shop (useAuth, auth-storage and    *)
(* clientFetch): a token and a user in localStorage, which all tabs share, *)
(* and the user each tab shows.  Requests take the token that is stored    *)
(* when they are sent; their answers come later and in any order, and act  *)
(* on whatever is stored by then.                                          *)
(*                                                                         *)
(* A token is the number of the login that minted it.  Of a user only the  *)
(* identity is kept.  The two keys of localStorage are written at once.    *)
(* crossed is history: an answer to a request of one session has changed   *)
(* the store while another one, or none, was there.  wish is history too:  *)
(* the session of the last login that arrived, none after a logout.        *)
(***************************************************************************)
EXTENDS Naturals, Sequences

CONSTANTS
    ShopTab, Fetch, Customer,
    NoCustomer,
    MaxLogins,          \* bound: tokens minted
    MaxReloads          \* bound: pages loaded

ASSUME SessionAssumption == NoCustomer \notin Customer /\ MaxLogins \in Nat /\ MaxReloads \in Nat

VARIABLES
    session,            \* localStorage: token and user
    userOf,             \* userOf[t]: user state of the tab
    fetch,              \* fetch[c]: a request and its answer
    minted,             \* minted[n]: the user of token n
    ended,              \* tokens past their exp
    reloads, wish, crossed

sessionVars == <<session, userOf, fetch, minted, ended, reloads, wish, crossed>>

NoLogin == [token |-> 0, user |-> NoCustomer]
NoFetch == [kind |-> "none", tab |-> CHOOSE t \in ShopTab : TRUE, token |-> 0,
           status |-> "none", user |-> NoCustomer]

SessionTypeOK ==
    /\ minted \in Seq(Customer) /\ Len(minted) <= MaxLogins
    /\ session \in [token : 0..Len(minted), user : Customer \cup {NoCustomer}]
    /\ userOf \in [ShopTab -> Customer \cup {NoCustomer}]
    /\ fetch \in [Fetch -> [kind : {"none", "login", "me", "profile", "other"},
                          tab : ShopTab, token : 0..Len(minted),
                          status : {"none", "ok", "unauthorized"},
                          user : Customer \cup {NoCustomer}]]
    /\ ended \subseteq 1..Len(minted)
    /\ reloads \in 0..MaxReloads /\ wish \in 0..Len(minted) /\ crossed \in BOOLEAN

SessionInit ==
    /\ session = NoLogin
    /\ userOf = [t \in ShopTab |-> NoCustomer]
    /\ fetch = [c \in Fetch |-> NoFetch]
    /\ minted = <<>> /\ ended = {}
    /\ reloads = 0 /\ wish = 0 /\ crossed = FALSE

-----------------------------------------------------------------------------
(* Requests.  clientFetch reads the token when it is called.               *)
Send(c, t, kind, user) ==
    /\ fetch[c] = NoFetch
    /\ fetch' = [fetch EXCEPT ![c] = [kind |-> kind, tab |-> t, token |-> session.token,
                                    status |-> "none", user |-> user]]

(* The login and registration forms; nothing keeps them from a customer    *)
(* whose session is still being looked up, or who has one.                 *)
LogIn(c, t, u) ==
    /\ Send(c, t, "login", u)
    /\ UNCHANGED <<session, userOf, minted, ended, reloads, wish, crossed>>

(* updateProfile, and the other requests of pages for customers. *)
SaveProfile(c, t) ==
    /\ userOf[t] # NoCustomer /\ session.token # 0
    /\ Send(c, t, "profile", NoCustomer)
    /\ UNCHANGED <<session, userOf, minted, ended, reloads, wish, crossed>>

CallApi(c, t) ==
    /\ userOf[t] # NoCustomer
    /\ Send(c, t, "other", NoCustomer)
    /\ UNCHANGED <<session, userOf, minted, ended, reloads, wish, crossed>>

(* A page is loaded: the tab's requests are forgotten, its user unknown    *)
(* until getMe answers, if there is a token to ask with.                   *)
LoadPage(c, t) ==
    /\ reloads < MaxReloads /\ reloads' = reloads + 1
    /\ userOf' = [userOf EXCEPT ![t] = NoCustomer]
    /\ LET kept == [d \in Fetch |-> IF fetch[d].tab = t THEN NoFetch ELSE fetch[d]]
       IN  /\ kept[c] = NoFetch
           /\ fetch' = IF session.token = 0 THEN kept
                      ELSE [kept EXCEPT ![c] = [NoFetch EXCEPT !.kind = "me",
                                                  !.tab = t, !.token = session.token]]
    /\ UNCHANGED <<session, minted, ended, wish, crossed>>

LogOut(t) ==
    /\ userOf[t] # NoCustomer
    /\ session' = NoLogin /\ wish' = 0
    /\ userOf' = [userOf EXCEPT ![t] = NoCustomer]
    /\ UNCHANGED <<fetch, minted, ended, reloads, crossed>>

-----------------------------------------------------------------------------
(* The backend.  AuthGuard wants a token that has not ended. *)
Accepted(token) == token # 0 /\ token \notin ended

MintToken(c) ==
    /\ fetch[c].kind = "login" /\ fetch[c].status = "none"
    /\ Len(minted) < MaxLogins
    /\ minted' = Append(minted, fetch[c].user)
    /\ fetch' = [fetch EXCEPT ![c].status = "ok", ![c].token = Len(minted')]
    /\ UNCHANGED <<session, userOf, ended, reloads, wish, crossed>>

Answer(c) ==
    /\ fetch[c].kind \notin {"none", "login"} /\ fetch[c].status = "none"
    /\ fetch' = [fetch EXCEPT ![c] =
         IF ~Accepted(@.token) THEN [@ EXCEPT !.status = "unauthorized"]
         ELSE IF fetch[c].kind = "other" THEN NoFetch
         ELSE [@ EXCEPT !.status = "ok", !.user = minted[fetch[c].token]]]
    /\ UNCHANGED <<session, userOf, ended, minted, reloads, wish, crossed>>

TokenEnds(n) ==
    /\ n \in 1..Len(minted) \ ended
    /\ ended' = ended \cup {n}
    /\ UNCHANGED <<session, userOf, fetch, minted, reloads, wish, crossed>>

-----------------------------------------------------------------------------
(* Mutant of Stored: the token is read when the answer is there. *)
StoredNow(r) == [token |-> IF r.kind = "login" THEN r.token ELSE session.token,
                 user |-> r.user]

(* Answers.  What they store is the token the request was sent with and    *)
(* the user it was answered for.                                           *)
Stored(r) == [token |-> r.token, user |-> r.user]

OfOther(r) == r.token # session.token

LoginArrives(c) ==
    /\ fetch[c].kind = "login" /\ fetch[c].status = "ok"
    /\ session' = Stored(fetch[c]) /\ wish' = fetch[c].token
    /\ userOf' = [userOf EXCEPT ![fetch[c].tab] = fetch[c].user]
    /\ fetch' = [fetch EXCEPT ![c] = NoFetch]
    /\ UNCHANGED <<minted, ended, reloads, crossed>>

UserArrives(c) ==
    /\ fetch[c].kind \in {"me", "profile"} /\ fetch[c].status = "ok"
    /\ session' = Stored(fetch[c])
    /\ userOf' = [userOf EXCEPT ![fetch[c].tab] = fetch[c].user]
    /\ crossed' = (crossed \/ OfOther(fetch[c]))
    /\ fetch' = [fetch EXCEPT ![c] = NoFetch]
    /\ UNCHANGED <<minted, ended, reloads, wish>>

(* A 401 logs the tab out if a token is stored, whichever it is; the page  *)
(* that has just loaded logs out in any case.                              *)
LogsOut(r) == r.kind # "login" /\ (session.token # 0 \/ r.kind = "me")

UnauthorizedArrives(c) ==
    /\ fetch[c].status = "unauthorized"
    /\ IF LogsOut(fetch[c])
       THEN /\ session' = NoLogin
            /\ userOf' = [userOf EXCEPT ![fetch[c].tab] = NoCustomer]
            /\ crossed' = (crossed \/ OfOther(fetch[c]))
       ELSE UNCHANGED <<session, userOf, crossed>>
    /\ fetch' = [fetch EXCEPT ![c] = NoFetch]
    /\ UNCHANGED <<minted, ended, reloads, wish>>

(* Other answers: a wrong password, a broken network, a server in trouble, *)
(* data of a page.  A loading page without answer shows the stored user.   *)
OtherArrives(c) ==
    /\ fetch[c].kind # "none" /\ fetch[c].status = "none"
    /\ userOf' = IF fetch[c].kind = "me" /\ session.user # NoCustomer
                THEN [userOf EXCEPT ![fetch[c].tab] = session.user] ELSE userOf
    /\ fetch' = [fetch EXCEPT ![c] = NoFetch]
    /\ UNCHANGED <<session, minted, ended, reloads, wish, crossed>>

SessionNext ==
    \/ \E c \in Fetch, t \in ShopTab :
          \/ \E u \in Customer : LogIn(c, t, u)
          \/ SaveProfile(c, t) \/ CallApi(c, t) \/ LoadPage(c, t)
    \/ \E t \in ShopTab : LogOut(t)
    \/ \E c \in Fetch : \/ MintToken(c) \/ Answer(c)
                       \/ LoginArrives(c) \/ UserArrives(c)
                       \/ UnauthorizedArrives(c) \/ OtherArrives(c)
    \/ \E n \in 1..MaxLogins : TokenEnds(n)

SessionSpec == SessionInit /\ [][SessionNext]_sessionVars

-----------------------------------------------------------------------------
(* The stored user is the one the stored token speaks for, whatever        *)
(* requests of whatever sessions are under way (useAuth takes the token    *)
(* before its await).  And the session is the one of the customer's last   *)
(* login, none after a logout or an ended token, unless an answer to a     *)
(* request of another session came in (a logout undone by a profile on its *)
(* way, a new login ended by the 401 of an old token).                     *)
SessionUnlessCrossed ==
    /\ IF session.token = 0 THEN session.user = NoCustomer
       ELSE session.user = minted[session.token]
    /\ \/ crossed
       \/ session.token = wish
       \/ session.token = 0 /\ wish \in ended
=============================================================================
