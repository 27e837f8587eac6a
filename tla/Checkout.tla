------------------------------- MODULE Checkout -------------------------------
(***************************************************************************)
(* Checkout of one concert in one browser tab (CheckoutPage,               *)
(* PaymentWaitingPage, PendingOrderBanner and what they keep in            *)
(* sessionStorage), composed with the requests the server handles.  Each   *)
(* press of "Pay" is one request; sent again after a 409 it is the same    *)
(* one.  An order has the number of the request that created it.  Scripts  *)
(* of a page the customer has left go on waiting for their answers, until  *)
(* the tab is reloaded.                                                    *)
(*                                                                         *)
(* forgot is history: an answer dropped a checkout key or an order to pay  *)
(* that was not the one it spoke of.                                       *)
(***************************************************************************)
EXTENDS Idempotency, Naturals

CONSTANTS
    Unkeyed,          \* no key
    MaxPresses      \* bound: presses of "Pay"

ASSUME CheckoutAssumption == Unkeyed \notin Key /\ MaxPresses \in Nat

VARIABLES
    page,           \* "seats", "checkout" or "payment"
    stored,         \* checkout-idem, zone-selection and pending-order
    issued,         \* keys created so far
    pressed,        \* requests that are presses of this tab
    locked,         \* the press that holds this page's checkoutLockRef
    shown,          \* the order the payment page shows
    awaited,        \* presses whose answer a script of the tab awaits
    news,           \* orders whose "it is over" is on its way to a script
    settled,        \* orders paid, cancelled or expired
    forgot

tabVars == <<page, stored, issued, pressed, locked, shown, awaited, news,
             settled, forgot>>
checkoutVars == <<idemVars, tabVars>>

Nothing == [key |-> Unkeyed, sel |-> NoBody, pending |-> Nobody]

CheckoutTypeOK ==
    /\ IdempotencyTypeOK
    /\ page \in {"seats", "checkout", "payment"}
    /\ stored \in [key : Key \cup {Unkeyed}, sel : Body \cup {NoBody},
                   pending : Req \cup {Nobody}]
    /\ issued \subseteq Key /\ pressed \subseteq Req /\ awaited \subseteq pressed
    /\ news \subseteq settled /\ settled \subseteq effective
    /\ locked \in awaited \cup {Nobody} /\ shown \in effective \cup {Nobody}
    /\ forgot \in BOOLEAN

CheckoutInit ==
    /\ IdempotencyInit
    /\ page = "seats" /\ stored = Nothing /\ issued = {} /\ pressed = {}
    /\ locked = Nobody /\ shown = Nobody
    /\ awaited = {} /\ news = {} /\ settled = {} /\ forgot = FALSE

-----------------------------------------------------------------------------
Pending == (pressed \cap effective) \ settled
Fresh == Key \ issued
UnusedReq == {r \in Req : req[r].step = "new"}

GoTo(p, o) == page' = p /\ shown' = o /\ locked' = Nobody
Stay == UNCHANGED <<page, shown, locked>>

(* getCheckoutIdempotencyKey: the stored key, or a new one. *)
KeyFor == IF stored.key = Unkeyed THEN CHOOSE k \in Fresh : TRUE ELSE stored.key
HasKey == stored.key # Unkeyed \/ Fresh # {}

(* The checkout page opens: to the payment page while an order is pending. *)
OpenCheckout(b) ==
    /\ page = "seats" /\ HasKey
    /\ IF stored.pending # Nobody THEN GoTo("payment", stored.pending)
                                   ELSE GoTo("checkout", Nobody)
    /\ stored' = [stored EXCEPT !.sel = b, !.key = KeyFor]
    /\ issued' = issued \cup {KeyFor}
    /\ UNCHANGED <<idemVars, pressed, awaited, news, settled, forgot>>

PressPay ==
    /\ page = "checkout" /\ locked = Nobody /\ stored.sel # NoBody
    /\ UnusedReq # {} /\ Cardinality(pressed) < MaxPresses /\ HasKey
    /\ LET r == CHOOSE x \in UnusedReq : TRUE
           k == KeyFor
       IN /\ Arrive(r, k, stored.sel)
          /\ stored' = [stored EXCEPT !.key = k] /\ issued' = issued \cup {k}
          /\ pressed' = pressed \cup {r}
          /\ locked' = r /\ awaited' = awaited \cup {r}
    /\ UNCHANGED <<page, shown, news, settled, forgot>>

(* createOrderWithIdempotencyRetry: 409, two seconds, the same again. *)
SendAgain(r) ==
    /\ r \in awaited /\ req[r].step = "conflict"
    /\ Move(r, "lookup")
    /\ UNCHANGED <<record, effective, raced, expired, torn, tabVars>>

(* The answer to a press, whatever the tab shows by then. *)
Ordered(r) ==
    /\ r \in awaited
    /\ req[r].step \in {"replayed", "save", "ended"} /\ req[r].answer # Nobody
    /\ LET o == req[r].answer
       IN /\ stored' = [Nothing EXCEPT !.pending = o]
          /\ GoTo("payment", o)
          /\ forgot' = (forgot \/ stored.key \notin {req[r].key, Unkeyed}
                               \/ stored.pending \in Pending \ {o})
    /\ awaited' = awaited \ {r}
    /\ UNCHANGED <<idemVars, issued, pressed, news, settled>>

(* Mutant of NotOrdered: the next press gets a new key. *)
NotOrderedNewKey(r) ==
    /\ r \in awaited
    /\ awaited' = awaited \ {r}
    /\ locked' = IF locked = r THEN Nobody ELSE locked
    /\ stored' = [stored EXCEPT !.key = Unkeyed]
    /\ UNCHANGED <<idemVars, page, shown, issued, pressed, news, settled, forgot>>

(* An error, a lost answer, or fifteen conflicts: key and selection stay. *)
NotOrdered(r) ==
    /\ r \in awaited
    /\ awaited' = awaited \ {r}
    /\ locked' = IF locked = r THEN Nobody ELSE locked
    /\ UNCHANGED <<idemVars, page, shown, stored, issued, pressed, news, settled, forgot>>

LeaveCheckout ==
    /\ page # "seats"
    /\ GoTo("seats", Nobody)
    /\ UNCHANGED <<idemVars, stored, issued, pressed, awaited, news, settled, forgot>>

Reload ==
    /\ awaited' = {} /\ news' = {}
    /\ IF page = "checkout" /\ stored.pending # Nobody
         THEN GoTo("payment", stored.pending) ELSE GoTo(page, shown)
    /\ UNCHANGED <<idemVars, stored, issued, pressed, settled, forgot>>

(* The payment page of an order, from the list of orders. *)
OpenPayment(o) ==
    /\ o \in effective /\ page = "seats"
    /\ GoTo("payment", o)
    /\ UNCHANGED <<idemVars, stored, issued, pressed, awaited, news, settled, forgot>>

(* The poll of the payment page finds its order over. *)
PollPayment ==
    /\ page = "payment" /\ shown \in settled \ news
    /\ news' = news \cup {shown}
    /\ UNCHANGED <<idemVars, stored, issued, pressed, awaited, settled, forgot>> /\ Stay

(* The server cancels; the answer, like a poll's, drops the pending order. *)
CancelPressed ==
    /\ page = "payment" /\ shown \in Pending
    /\ settled' = settled \cup {shown} /\ news' = news \cup {shown}
    /\ UNCHANGED <<idemVars, stored, issued, pressed, awaited, forgot>> /\ Stay

(* clearPendingOrder: of the concert, whichever order it is. *)
DropPending == [stored EXCEPT !.pending = Nobody]

(* onTerminal, also after the customer has left the payment page. *)
PaymentOver(o) ==
    /\ o \in news
    /\ news' = news \ {o}
    /\ stored' = DropPending
    /\ forgot' = (forgot \/ stored.pending \in Pending)
    /\ UNCHANGED <<idemVars, issued, pressed, awaited, settled>> /\ Stay

(* The banner drops a pending order that is over, or that it cannot load. *)
BannerDrops ==
    /\ page \in {"seats", "checkout"} /\ stored.pending # Nobody
    /\ stored' = DropPending
    /\ forgot' = (forgot \/ stored.pending \in Pending)
    /\ UNCHANGED <<idemVars, issued, pressed, awaited, news, settled>> /\ Stay

(* Payment or expiry. *)
Settle(o) ==
    /\ o \in Pending
    /\ settled' = settled \cup {o}
    /\ UNCHANGED <<idemVars, stored, issued, pressed, awaited, news, forgot>> /\ Stay

ServerStep ==
    /\ \/ \E r \in Req : Lookup(r) \/ Mark(r) \/ Handle(r) \/ Save(r) \/ Fail(r) \/ RequestCrash(r)
       \/ \E k \in Key : Expire(k)
    /\ UNCHANGED tabVars

CheckoutNext ==
    \/ ServerStep
    \/ \E b \in {x \in Body : HandlerOf[x] = "order"} : OpenCheckout(b)
    \/ PressPay
    \/ \E r \in Req : SendAgain(r) \/ Ordered(r) \/ NotOrdered(r) \/ Settle(r)
                        \/ OpenPayment(r) \/ PaymentOver(r)
    \/ LeaveCheckout \/ Reload \/ PollPayment \/ CancelPressed \/ BannerDrops

CheckoutSpec == CheckoutInit /\ [][CheckoutNext]_checkoutVars

-----------------------------------------------------------------------------
(***************************************************************************)
(* A tab has two orders to pay at one time only if their key was raced,    *)
(* ran out or was deleted by a request that left its order behind, or the  *)
(* tab forgot the first: not because answers were lost, presses repeated,  *)
(* pages left and reloaded, or orders cancelled.                           *)
(***************************************************************************)
NoSecondOrder ==
    \A o, p \in Pending :
      o # p => forgot \/ {req[o].key, req[p].key} \cap (raced \cup expired \cup torn) # {}
=============================================================================
