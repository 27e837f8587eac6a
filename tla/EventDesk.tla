------------------------------ MODULE EventDesk ------------------------------
(***************************************************************************)
(* An organiser edits the ticket types of events in the admin web: the     *)
(* list of events with the panel beside it (useEventsData, EventsPage,     *)
(* TicketConfigPanel) and the form of a new event (useNewEventForm).       *)
(* Saving is a row of requests, each of which may fail.                    *)
(*                                                                         *)
(* A ticket type is its row's id; what its fields say is left out.  A tier *)
(* of the panel has the id of its row, or one below zero if it is new.     *)
(* removed, gone, wiped and recovered are history: rows whose tier the     *)
(* organiser removed, rows that saves deleted, those deleted for another   *)
(* event's tiers, and whether a save went through in a panel whose failed  *)
(* save had deleted a row.                                                 *)
(***************************************************************************)
EXTENDS Integers, FiniteSets

CONSTANTS
    Event, NoEvent,
    MaxRows,            \* bound: rows ever inserted
    MaxTiers,           \* bound: tiers added in a panel
    MaxSaves,           \* bound: presses of "Save"
    Tier,               \* tiers of the form of a new event
    MaxForms            \* bound: concerts the form creates

ASSUME DeskAssumption ==
    /\ NoEvent \notin Event
    /\ MaxRows \in Nat /\ MaxTiers \in Nat
    /\ MaxSaves \in Nat /\ MaxForms \in Nat

VARIABLES
    eventOf,            \* eventOf[i]: event of row i, NoEvent if there is none
    lastRow,            \* rows inserted so far
    listed,             \* listed[e]: ticketTypes of the event as the page has it
    panel,              \* the open panel
    save,               \* the save under way
    presses,
    removed, gone, wiped, recovered,
    form,               \* the form of a new event
    made                \* made[c]: ticket types of the form's c-th concert

deskVars == <<eventOf, lastRow, listed, panel, save, presses, removed, gone, wiped,
              recovered, form, made>>
formVars == <<form, made>>

RowId == 1..MaxRows
NewTier == {-n : n \in 1..MaxTiers}
RowsOf(e) == {i \in RowId : eventOf[i] = e}
FreshList == [e \in Event |-> RowsOf(e)]

Closed == [event |-> NoEvent, rows |-> {}, tiers |-> {}, saving |-> FALSE,
           switched |-> FALSE, made |-> {}, halfway |-> FALSE]
NoSave == [event |-> NoEvent, drop |-> {}, put |-> {}, mine |-> FALSE,
           switched |-> FALSE, dropped |-> {}]
EmptyForm(T) == [step |-> "filling", concert |-> 0, flight |-> {}, tiers |-> T, sent |-> {}]

DeskTypeOK ==
    /\ eventOf \in [RowId -> Event \cup {NoEvent}] /\ lastRow \in 0..MaxRows
    /\ presses \in 0..MaxSaves
    /\ listed \in [Event -> SUBSET RowId]
    /\ panel \in [event : Event \cup {NoEvent}, rows : SUBSET RowId,
                  tiers : SUBSET (RowId \cup NewTier), saving : BOOLEAN,
                  switched : BOOLEAN, made : SUBSET NewTier, halfway : BOOLEAN]
    /\ save \in [event : Event \cup {NoEvent}, drop : SUBSET RowId, put : SUBSET NewTier,
                 mine : BOOLEAN, switched : BOOLEAN, dropped : SUBSET RowId]
    /\ gone \subseteq RowId /\ removed \subseteq RowId /\ wiped \subseteq gone
    /\ recovered \in BOOLEAN
    /\ form \in [step : {"filling", "submitting", "submitted"}, concert : 0..MaxForms,
                 flight : SUBSET ((1..MaxForms) \X Tier), tiers : SUBSET Tier,
                 sent : SUBSET Tier]
    /\ made \in [1..MaxForms -> SUBSET Tier]

(* Every event has one ticket type, or none, and the page shows them. *)
DeskInit ==
    /\ lastRow \in 0..MaxRows
    /\ eventOf \in [RowId -> Event \cup {NoEvent}]
    /\ \A i \in RowId : eventOf[i] = NoEvent <=> i > lastRow
    /\ \A e \in Event : Cardinality(RowsOf(e)) <= 1
    /\ listed = FreshList
    /\ panel = Closed /\ save = NoSave /\ presses = 0
    /\ removed = {} /\ gone = {} /\ wiped = {} /\ recovered = FALSE
    /\ \E t \in Tier : form = EmptyForm({t})
    /\ made = [c \in 1..MaxForms |-> {}]

-----------------------------------------------------------------------------
(* fetchConcerts, at every load and change of page. *)
FetchEvents ==
    /\ listed' = FreshList
    /\ UNCHANGED <<eventOf, lastRow, panel, save, presses, removed, gone, wiped, recovered, formVars>>

(* A row is inserted. *)
Insert(e) ==
    /\ lastRow < MaxRows /\ lastRow' = lastRow + 1
    /\ eventOf' = [eventOf EXCEPT ![lastRow + 1] = e]

(* Another organiser adds a ticket type. *)
TypeAddedElsewhere(e) ==
    /\ Insert(e)
    /\ UNCHANGED <<listed, panel, save, presses, removed, gone, wiped, recovered, formVars>>

(* handleEdit: the panel has no key, so one that is open for another event *)
(* takes the new event and keeps its tiers.                                *)
Edit(e) ==
    /\ panel.event # e
    /\ panel' = IF panel = Closed
                THEN [Closed EXCEPT !.event = e, !.rows = listed[e], !.tiers = listed[e]]
                ELSE [panel EXCEPT !.event = e, !.rows = listed[e], !.switched = TRUE,
                                   !.halfway = FALSE]
    /\ UNCHANGED <<eventOf, lastRow, listed, save, presses, removed, gone, wiped, recovered, formVars>>

(* The panel's cross or the list's "Editing"; a save goes on without it. *)
ClosePanel ==
    /\ panel # Closed /\ panel' = Closed
    /\ save' = [save EXCEPT !.mine = FALSE]
    /\ UNCHANGED <<eventOf, lastRow, listed, presses, removed, gone, wiped, recovered, formVars>>

(* addTier, removeTier *)
AddTier(i) ==
    /\ panel # Closed /\ i \notin panel.tiers \cup panel.made
    /\ panel' = [panel EXCEPT !.tiers = @ \cup {i}]
    /\ UNCHANGED <<eventOf, lastRow, listed, save, presses, removed, gone, wiped, recovered, formVars>>

RemoveTier(i) ==
    /\ i \in panel.tiers /\ ~panel.saving
    /\ panel' = [panel EXCEPT !.tiers = @ \ {i}]
    /\ removed' = removed \cup ({i} \cap RowId)
    /\ UNCHANGED <<eventOf, lastRow, listed, save, presses, gone, wiped, recovered, formVars>>

-----------------------------------------------------------------------------
(* handleSave: the event's rows without a tier, and the new tiers.  One    *)
(* save at a time is looked at.                                            *)
(* Mutant of Dropped: the rows come from the list on the page. *)
DroppedFromList == listed[panel.event] \ panel.tiers
Dropped == panel.rows \ panel.tiers

PressSave ==
    /\ panel # Closed /\ ~panel.saving /\ save = NoSave
    /\ presses < MaxSaves /\ presses' = presses + 1
    /\ save' = [NoSave EXCEPT !.event = panel.event, !.drop = Dropped,
                              !.put = panel.tiers \cap NewTier,
                              !.mine = TRUE, !.switched = panel.switched]
    /\ panel' = [panel EXCEPT !.saving = TRUE]
    /\ UNCHANGED <<eventOf, lastRow, listed, removed, gone, wiped, recovered, formVars>>

(* TicketTypeService.remove *)
DropRow(i) ==
    /\ i \in save.drop /\ eventOf[i] # NoEvent
    /\ eventOf' = [eventOf EXCEPT ![i] = NoEvent]
    /\ save' = [save EXCEPT !.drop = @ \ {i}, !.dropped = @ \cup {i}]
    /\ gone' = gone \cup {i}
    /\ wiped' = IF save.switched THEN wiped \cup {i} ELSE wiped
    /\ UNCHANGED <<lastRow, listed, panel, presses, removed, recovered, formVars>>

(* TicketTypeService.create: a name once per concert, so a tier once. *)
PutTier(t) ==
    /\ save.drop = {} /\ t \in save.put
    /\ save.mine => t \notin panel.made
    /\ Insert(save.event)
    /\ save' = [save EXCEPT !.put = @ \ {t}]
    /\ panel' = IF save.mine THEN [panel EXCEPT !.made = @ \cup {t}] ELSE panel
    /\ UNCHANGED <<listed, presses, removed, gone, wiped, recovered, formVars>>

(* A request is refused or lost: the panel may be saved again. *)
SaveFails ==
    /\ save.drop # {} \/ save.put # {}
    /\ panel' = IF save.mine
                THEN [panel EXCEPT !.saving = FALSE,
                        !.halfway = @ \/ save.dropped \cap Dropped # {}]
                ELSE panel
    /\ save' = NoSave
    /\ UNCHANGED <<eventOf, lastRow, listed, presses, removed, gone, wiped, recovered, formVars>>

(* The list is fetched and the panel that is open, whichever, closes. *)
SaveEnds ==
    /\ save # NoSave /\ save.drop = {} /\ save.put = {}
    /\ recovered' = (recovered \/ (save.mine /\ panel.halfway))
    /\ panel' = Closed /\ save' = NoSave
    /\ listed' \in {listed, FreshList}
    /\ UNCHANGED <<eventOf, lastRow, presses, removed, gone, wiped, formVars>>

-----------------------------------------------------------------------------
(* useNewEventForm: tiers are added and removed until the form is replaced *)
(* by its success page, while it is submitted too; one stays.              *)
EditTiers(T) ==
    /\ form.step # "submitted" /\ T # {}
    /\ form' = [form EXCEPT !.tiers = T]
    /\ UNCHANGED made

(* The concert, then all the ticket types at once that the form had when   *)
(* it was submitted (handleSubmit's closure).  When one is refused the     *)
(* form may be submitted again, and makes another concert; the other       *)
(* requests of the first go on.                                            *)
Submit ==
    /\ form.step = "filling" /\ form.concert < MaxForms
    /\ LET c == form.concert + 1
       IN  form' = [form EXCEPT !.step = "submitting", !.concert = c, !.sent = form.tiers,
                                !.flight = @ \cup {c} \X form.tiers]
    /\ UNCHANGED made

TierMade(c, t) ==
    /\ <<c, t>> \in form.flight
    /\ made' = [made EXCEPT ![c] = @ \cup {t}]
    /\ form' = [form EXCEPT !.flight = @ \ {<<c, t>>}]

TierRefused(c, t) ==
    /\ <<c, t>> \in form.flight
    /\ form' = [form EXCEPT !.flight = @ \ {<<c, t>>},
                            !.step = IF c = form.concert THEN "filling" ELSE @]
    /\ UNCHANGED made

(* Promise.all resolves with the last of them. *)
Answered == {f \in form.flight : f[1] = form.concert} = {}

ShowSubmitted ==
    /\ form.step = "submitting" /\ Answered
    /\ form' = [form EXCEPT !.step = "submitted"]
    /\ UNCHANGED made

FormNext ==
    /\ \/ Submit \/ ShowSubmitted
       \/ \E t \in Tier : EditTiers(form.tiers \cup {t}) \/ EditTiers(form.tiers \ {t})
       \/ \E c \in 1..MaxForms, t \in Tier : TierMade(c, t) \/ TierRefused(c, t)
    /\ UNCHANGED <<eventOf, lastRow, listed, panel, save, presses, removed, gone,
                   wiped, recovered>>

PanelNext ==
    \/ FetchEvents \/ ClosePanel \/ PressSave \/ SaveFails \/ SaveEnds
    \/ \E e \in Event : Edit(e) \/ TypeAddedElsewhere(e)
    \/ \E i \in NewTier : AddTier(i) \/ PutTier(i)
    \/ \E i \in panel.tiers : RemoveTier(i)
    \/ \E i \in save.drop : DropRow(i)

DeskSpec == DeskInit /\ [][PanelNext \/ FormNext]_deskVars

-----------------------------------------------------------------------------
(* A save deletes the ticket types whose tiers the organiser removed, and  *)
(* no others (rows of other organisers, that the panel does not show),     *)
(* unless the panel was switched to another event while it was open: then  *)
(* it deletes the other event's.                                           *)
RemovedByHand == gone \subseteq removed \cup wiped

(* "Save" cannot be repeated: after a failed save that had deleted a row   *)
(* the panel asks for that row's deletion again, which is refused, and no  *)
(* save of it ever goes through.                                           *)
HalfSavedNeverSaved == ~recovered

(* A form that says the event is created has made the ticket types that it *)
(* had when it was submitted, all and no others: not one that was added    *)
(* meanwhile, and one removed meanwhile too.                               *)
SubmittedWhole == form.step = "submitted" => made[form.concert] = form.sent

(* What the desk's three screens keep. *)
DeskAsTold == RemovedByHand /\ HalfSavedNeverSaved /\ SubmittedWhole
=============================================================================
