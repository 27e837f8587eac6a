----------------------------- MODULE WaitingRoom -----------------------------
(***************************************************************************)
(* The waiting room of one concert: the web server's session map           *)
(* (mock-waiting-room.ts behind the waiting-room route) and the browser    *)
(* tabs that queue, choose seats and order (useWaitingRoom,                *)
(* usePurchaseAccess, CheckoutPage), with what each keeps in its           *)
(* sessionStorage.  A session is numbered by its join; its token has the   *)
(* same number.  An answer that does not arrive leaves the server's half   *)
(* of a step.                                                              *)
(***************************************************************************)
EXTENDS Naturals, FiniteSets

CONSTANTS
    Tab,            \* browser tabs, of one customer each
    Threshold,      \* WAITING_ROOM_JOIN_THRESHOLD
    MaxJoins,       \* bound: sessions
    MaxRestarts     \* bound: restarts of the web server

ASSUME RoomAssumption ==
    Threshold \in Nat \ {0} /\ MaxJoins \in Nat /\ MaxRestarts \in Nat

VARIABLES
    turn,           \* turn[s]: "none", "waiting", "due", "admitted" or "over"
    known,          \* the sessions in the server's map
    window,         \* joins of the last five minutes, on this server
    joins, restarts,
    tab             \* tab[c]: see RoomTypeOK

roomVars == <<turn, known, window, joins, restarts, tab>>

Session == 1..MaxJoins
NoSession == 0

Away == [page |-> "away", shows |-> "loading", session |-> NoSession,
         token |-> NoSession, intent |-> FALSE, must |-> FALSE, granted |-> FALSE]

(* shows: the waiting page's status; must: requireToken, fixed when a page *)
(* opens; granted: accessChecked.                                          *)
RoomTypeOK ==
    /\ turn \in [Session -> {"none", "waiting", "due", "admitted", "over"}]
    /\ known \subseteq Session /\ window \subseteq Session
    /\ joins \in 0..MaxJoins /\ restarts \in 0..MaxRestarts
    /\ tab \in [Tab -> [page : {"away", "waiting", "seats", "checkout"},
                        shows : {"loading", "waiting", "admitted", "error"},
                        session : Session \cup {NoSession},
                        token : Session \cup {NoSession},
                        intent : BOOLEAN, must : BOOLEAN, granted : BOOLEAN]]

RoomInit ==
    /\ turn = [s \in Session |-> "none"]
    /\ known = {} /\ window = {} /\ joins = 0 /\ restarts = 0
    /\ tab = [c \in Tab |-> Away]

-----------------------------------------------------------------------------
(* readAdmittedToken: the token until tokenExpiresAt *)
Live(s) == s # NoSession /\ turn[s] = "admitted"
HasTurn(s) == turn[s] \in {"admitted", "over"}
Known(s) == s \in known

Queued == {s \in known : turn[s] \in {"waiting", "due"}}
Held == {tab[c].session : c \in Tab}

(* Mutant of WaitingCount: sessions no tab has any more are not counted. *)
WaitingCountHeld == Cardinality(Queued \cap Held)
(* countActiveWaitingSessions *)
WaitingCount == Cardinality(Queued)

(* isWaitingRoomRequired *)
Required == Cardinality(window) + WaitingCount >= Threshold

Show(c, t) == tab' = [tab EXCEPT ![c] = t]
ToWaiting(t) == [t EXCEPT !.page = "waiting", !.shows = "loading", !.intent = TRUE,
                          !.must = FALSE, !.granted = FALSE]
OpenPage(t, page, must) == [t EXCEPT !.page = page, !.must = must, !.granted = FALSE]
Abandon(t) == Away

(* What the waiting page and the access check make of a session's answer. *)
Seen(t, s) == IF HasTurn(s) THEN [t EXCEPT !.session = s, !.token = s, !.shows = "admitted"]
                            ELSE [t EXCEPT !.session = s, !.shows = "waiting"]

-----------------------------------------------------------------------------
(* "Buy tickets": the waiting page, or the seats without queueing. *)
OpenWaiting(c) ==
    /\ tab[c].page = "away"
    /\ Show(c, ToWaiting(tab[c]))
    /\ UNCHANGED <<turn, known, window, joins, restarts>>

OpenSeats(c) ==
    /\ tab[c].page = "away"
    /\ Show(c, OpenPage(tab[c], "seats", tab[c].intent \/ Live(tab[c].token)))
    /\ UNCHANGED <<turn, known, window, joins, restarts>>

(* Mutant of Rejoin: the server gives an ended turn a new token. *)
RejoinRenews(c) ==
    LET s == tab[c].session
    IN /\ Known(s)
       /\ turn' = [turn EXCEPT ![s] = IF @ = "over" THEN "admitted" ELSE @]
       /\ Show(c, Seen(tab[c], s))
       /\ UNCHANGED <<known, window, joins>>

(* POST with a session the server knows: its state, whatever it is. *)
Rejoin(c) ==
    /\ Known(tab[c].session)
    /\ Show(c, Seen(tab[c], tab[c].session))
    /\ UNCHANGED <<turn, known, window, joins>>

(* POST otherwise: a new session, admitted at once unless many came. *)
JoinAnew(c) ==
    LET s == joins + 1
        admitted == ~ Required
    IN /\ ~ Known(tab[c].session) /\ joins < MaxJoins
       /\ joins' = s
       /\ known' = known \cup {s} /\ window' = window \cup {s}
       /\ turn' = [turn EXCEPT ![s] = IF admitted THEN "admitted" ELSE "waiting"]
       /\ Show(c, CASE admitted -> [tab[c] EXCEPT !.session = s, !.token = s, !.shows = "admitted"]
                    [] ~ admitted -> [tab[c] EXCEPT !.session = s, !.shows = "waiting"])

(* ... whose answer is lost: nobody has the session. *)
JoinUnheard(c) ==
    LET s == joins + 1
    IN /\ ~ Known(tab[c].session) /\ joins < MaxJoins
       /\ joins' = s
       /\ known' = known \cup {s} /\ window' = window \cup {s}
       /\ turn' = [turn EXCEPT ![s] = IF Required THEN "waiting" ELSE "admitted"]
       /\ Show(c, [tab[c] EXCEPT !.shows = "error"])

Join(c) ==
    /\ tab[c].page = "waiting" /\ tab[c].shows = "loading"
    /\ Rejoin(c) \/ JoinAnew(c) \/ JoinUnheard(c)
    /\ UNCHANGED restarts

(* pollWaitingRoom admits a session that has waited long enough. *)
Admit(s) == turn' = [turn EXCEPT ![s] = IF @ = "due" THEN "admitted" ELSE @]

(* GET every two seconds.  It may be lost after the server's half. *)
PollRoom(c) ==
    LET s == tab[c].session
    IN /\ tab[c].page = "waiting" /\ tab[c].shows = "waiting"
       /\ turn[s] # "waiting" \/ ~ Known(s)
       /\ \/ /\ Known(s)
             /\ Admit(s)
             /\ \/ Show(c, [tab[c] EXCEPT !.token = s, !.shows = "admitted"])
                \/ Show(c, [tab[c] EXCEPT !.shows = "error"])
          \/ /\ ~ Known(s)
             /\ Show(c, [tab[c] EXCEPT !.shows = "error"])
             /\ UNCHANGED turn
       /\ UNCHANGED <<known, window, joins, restarts>>

RetryJoin(c) ==
    /\ tab[c].page = "waiting" /\ tab[c].shows = "error"
    /\ Show(c, [tab[c] EXCEPT !.shows = "loading"])
    /\ UNCHANGED <<turn, known, window, joins, restarts>>

(* 900 ms after being admitted *)
GoToSeats(c) ==
    /\ tab[c].page = "waiting" /\ tab[c].shows = "admitted"
    /\ Show(c, OpenPage(tab[c], "seats", TRUE))
    /\ UNCHANGED <<turn, known, window, joins, restarts>>

(* requestPurchaseAccess: a live token, or none needed, or the session's   *)
(* turn as the server tells it; otherwise back to the waiting page.        *)
VerifyAccess(c) ==
    LET t == tab[c]
        s == t.session
        asks == t.must /\ ~ Live(t.token) /\ s # NoSession
    IN /\ t.page \in {"seats", "checkout"} /\ ~ t.granted
       /\ \/ /\ ~ t.must \/ Live(t.token)
             /\ Show(c, [t EXCEPT !.granted = TRUE])
             /\ UNCHANGED turn
          \/ /\ asks /\ Known(s) /\ turn[s] # "waiting"
             /\ Admit(s)
             /\ Show(c, [t EXCEPT !.token = s, !.granted = TRUE])
          \/ /\ asks /\ Known(s) /\ turn[s] = "waiting"
             /\ Show(c, ToWaiting(t))
             /\ UNCHANGED turn
          \/ /\ t.must /\ ~ Live(t.token) /\ ~ Known(s)
             /\ Show(c, ToWaiting([t EXCEPT !.session = NoSession]))
             /\ UNCHANGED turn
       /\ UNCHANGED <<known, window, joins, restarts>>

(* Every five seconds: without a live token back to the waiting page. *)
CheckToken(c) ==
    /\ tab[c].page \in {"seats", "checkout"} /\ tab[c].must /\ tab[c].granted
    /\ ~ Live(tab[c].token)
    /\ Show(c, ToWaiting([tab[c] EXCEPT !.token = NoSession]))
    /\ UNCHANGED <<turn, known, window, joins, restarts>>

GoToCheckout(c) ==
    /\ tab[c].page = "seats" /\ tab[c].granted
    /\ Show(c, OpenPage([tab[c] EXCEPT !.intent = TRUE], "checkout", TRUE))
    /\ UNCHANGED <<turn, known, window, joins, restarts>>

(* handleCheckout: an order that succeeds ends the tab's turn here, not on *)
(* the server; one that fails changes nothing.                             *)
PlaceOrder(c) ==
    /\ tab[c].page = "checkout" /\ tab[c].granted
    /\ Show(c, IF Live(tab[c].token) THEN Abandon(tab[c])
               ELSE ToWaiting([tab[c] EXCEPT !.token = NoSession]))
    /\ UNCHANGED <<turn, known, window, joins, restarts>>

(* Leaving through the header drops the turn, and so does leaving the      *)
(* waiting page before it; going back or to another address keeps it.      *)
(* Nobody tells the server.                                                *)
LeavePage(c) ==
    /\ tab[c].page # "away"
    /\ \/ Show(c, Abandon(tab[c]))
       \/ /\ tab[c].page # "waiting" \/ tab[c].shows = "admitted"
          /\ Show(c, OpenPage(tab[c], "away", FALSE))
    /\ UNCHANGED <<turn, known, window, joins, restarts>>

-----------------------------------------------------------------------------
(* Time *)

ComesUp(s) ==
    /\ turn[s] = "waiting"
    /\ turn' = [turn EXCEPT ![s] = "due"]
    /\ UNCHANGED <<known, window, joins, restarts, tab>>

TurnEnds(s) ==
    /\ turn[s] = "admitted"
    /\ turn' = [turn EXCEPT ![s] = "over"]
    /\ UNCHANGED <<known, window, joins, restarts, tab>>

JoinAges(s) ==
    /\ s \in window
    /\ window' = window \ {s}
    /\ UNCHANGED <<turn, known, joins, restarts, tab>>

(* The web server keeps its sessions in memory. *)
WebRestart ==
    /\ restarts < MaxRestarts
    /\ restarts' = restarts + 1
    /\ known' = {} /\ window' = {}
    /\ UNCHANGED <<turn, joins, tab>>

RoomNext ==
    \/ \E c \in Tab :
         \/ OpenWaiting(c) \/ OpenSeats(c) \/ Join(c) \/ PollRoom(c) \/ RetryJoin(c)
         \/ GoToSeats(c) \/ VerifyAccess(c) \/ CheckToken(c) \/ GoToCheckout(c)
         \/ PlaceOrder(c) \/ LeavePage(c)
    \/ \E s \in Session : ComesUp(s) \/ TurnEnds(s) \/ JoinAges(s)
    \/ WebRestart

RoomSpec == RoomInit /\ [][RoomNext]_roomVars

-----------------------------------------------------------------------------
(***************************************************************************)
(* A customer whose turn is over never gets another one while the tab      *)
(* keeps its session: join, poll and access check all answer with the      *)
(* ended turn's token, which sends the tab from the seats to the waiting   *)
(* page and back for good.  The message at checkout tells the customer to  *)
(* "enter the waiting room and try again".                                 *)
(***************************************************************************)
TurnNotRenewed ==
    [][\A c \in Tab :
         LET s == tab[c].session IN
         s \in known \cap known' /\ turn[s] = "over"
             /\ tab'[c].session = s /\ tab'[c].token # tab[c].token
           => ~ Live(tab[c].token)']_roomVars

(***************************************************************************)
(* Whoever waits and leaves is counted as load until the server restarts:  *)
(* when Threshold customers have done so, every one who joins afterwards   *)
(* has to wait, long after the five minutes, with nobody else in sight.    *)
(***************************************************************************)
Abandoned == Queued \ Held
AbandonedKeepRoomShut ==
    [][joins' # joins /\ Cardinality(Abandoned) >= Threshold
         => turn'[joins'] = "waiting"]_roomVars
=============================================================================
