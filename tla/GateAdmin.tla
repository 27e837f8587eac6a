------------------------------ MODULE GateAdmin ------------------------------
(***************************************************************************)
(* Gates of concerts (GateService) and the tickets assigned to them.       *)
(* Ticket.gateId holds the NAME of a gate and qrSignature signs that name, *)
(* so renaming, removing and rebalancing gates rewrite tickets.  A call is *)
(* cut at its awaits; ticket issue and check-in run beside it with the     *)
(* steps that read or write the two fields.                                *)
(*                                                                         *)
(* None stands for a gate that does not exist, a ticket without gate and   *)
(* the empty name its signature then covers.  overlapped, clashed and      *)
(* broken are history: what has run beside another call, a call moved a    *)
(* ticket of another concert, a call stopped half-way.                     *)
(***************************************************************************)
EXTENDS Integers, FiniteSetsExt, SequencesExt

CONSTANTS
    Gate,           \* Gate.id
    Name,           \* gate names; their order is the alphabetical one
    GateTicket,     \* tickets; their order is that of createdAt
    ConcertOf,      \* the concert of every gate id and every ticket
    Call,           \* calls in progress
    MaxCalls        \* bound: calls that change gates

None == 0

ASSUME GateAssumption ==
    /\ Name \subseteq Nat \ {None} /\ GateTicket \subseteq Nat /\ MaxCalls \in Nat
    /\ IsFiniteSet(Gate) /\ IsFiniteSet(GateTicket)

VARIABLES
    gateName,       \* gateName[g]: Gate.name, None if there is no such row
    ticket,         \* ticket[t]: status, gate, sig (the name the HMAC covers)
    call,           \* call[c]: a running call
    calls,          \* number of calls that change gates, so far
    overlapped, clashed, broken

gateVars == <<gateName, ticket, call, calls, overlapped, clashed, broken>>

Label == Name \cup {None}
Concert == {ConcertOf[g] : g \in Gate}

GateCall ==
    [op : {"none", "rename", "remove", "rebalance", "issue", "scan"},
     step : {"idle", "name", "count", "target", "find", "move", "delete", "list",
             "compare", "apply", "create", "checkin"},
     gate : Gate \cup {None}, from : Label, to : Label,
     names : Seq(Name),                     \* rebalance: the gates it read
     list : Seq(GateTicket),                \* tickets it has still to look at
     plan : Seq([t : GateTicket, to : Name]),  \* and to write
     i : Nat]

NoCall == [op |-> "none", step |-> "idle", gate |-> None,
           from |-> None, to |-> None, names |-> <<>>, list |-> <<>>,
           plan |-> <<>>, i |-> 0]

GateTypeOK ==
    /\ gateName \in [Gate -> Label]
    /\ ticket \in [GateTicket -> [status : {"NEW", "ISSUED", "CHECKED_IN"},
                                  gate : Label, sig : Label]]
    /\ call \in [Call -> GateCall]
    /\ calls \in 0..MaxCalls
    /\ overlapped \subseteq {"change", "scan"}
    /\ clashed \in BOOLEAN /\ broken \in BOOLEAN

GatesOf(k) == {g \in Gate : ConcertOf[g] = k /\ gateName[g] # None}
NamesOf(k) == {gateName[g] : g \in GatesOf(k)}
Issued == {t \in GateTicket : ticket[t].status # "NEW"}
Named(n) == {t \in Issued : ticket[t].gate = n}
Ascending(S) ==
    CHOOSE f \in [1..Cardinality(S) -> S] : \A i, j \in 1..Cardinality(S) : i < j => f[i] < f[j]

(* No ticket is issued; every concert has a gate or none at all. *)
GateInit ==
    /\ gateName \in [Gate -> Label]
    /\ \A g, h \in Gate : g # h /\ ConcertOf[g] = ConcertOf[h] /\ gateName[g] # None
                             => gateName[g] # gateName[h]
    /\ ticket = [t \in GateTicket |-> [status |-> "NEW", gate |-> None, sig |-> None]]
    /\ call = [c \in Call |-> NoCall]
    /\ calls = 0
    /\ overlapped = {}
    /\ clashed = FALSE
    /\ broken = FALSE

-----------------------------------------------------------------------------
Running == {c \in Call : call[c].step # "idle"}
Scanning == {c \in Call : call[c].op = "scan"}

(* What runs beside a new call: only scans, or something that changes      *)
(* gates or tickets' gates.                                                *)
Meet(new) ==
    overlapped' = overlapped
        \cup (IF new # "scan" /\ Running \ Scanning # {} THEN {"change"} ELSE {})
        \cup (IF \/ new = "scan" /\ Running \ Scanning # {}
                 \/ new # "scan" /\ Scanning # {} THEN {"scan"} ELSE {})

Begin(c, r) ==
    /\ call[c].step = "idle"
    /\ call' = [call EXCEPT ![c] = r]
    /\ Meet(r.op)

BeginChange(c, r) ==
    /\ calls < MaxCalls
    /\ calls' = calls + 1
    /\ Begin(c, r)

ToStep(c, step) == call' = [call EXCEPT ![c].step = step]
End(c) == call' = [call EXCEPT ![c] = NoCall]

Assign(t, n) == [ticket[t] EXCEPT !.gate = n, !.sig = n]

(* Another gate of the concert has the name. *)
Taken(g, n) == n \in {gateName[h] : h \in GatesOf(ConcertOf[g]) \ {g}}

(* create; the unique index stops a second one of the same name *)
CreateGate(g, n) ==
    /\ calls < MaxCalls
    /\ gateName[g] = None /\ ~ Taken(g, n)
    /\ gateName' = [gateName EXCEPT ![g] = n]
    /\ calls' = calls + 1
    /\ Meet("create")
    /\ UNCHANGED <<ticket, call, clashed, broken>>

(* update: the gate and the duplicate name are read, ... *)
StartRename(c, g, n) ==
    /\ gateName[g] \notin {None, n} /\ ~ Taken(g, n)
    /\ BeginChange(c, [NoCall EXCEPT !.op = "rename", !.step = "name", !.gate = g,
                                     !.from = gateName[g], !.to = n])
    /\ UNCHANGED <<gateName, ticket, clashed, broken>>

(* ... the row gets its new name (unless the unique index refuses), ... *)
WriteName(c) ==
    LET r == call[c]
    IN /\ r.step = "name"
       /\ IF gateName[r.gate] # None /\ ~ Taken(r.gate, r.to)
            THEN gateName' = [gateName EXCEPT ![r.gate] = r.to] /\ ToStep(c, "find")
            ELSE UNCHANGED gateName /\ End(c)
       /\ UNCHANGED <<ticket, calls, overlapped, clashed, broken>>

(* remove: the gate is read; its tickets are counted by name. *)
StartRemoveGate(c, g) ==
    /\ gateName[g] # None
    /\ BeginChange(c, [NoCall EXCEPT !.op = "remove", !.step = "count", !.gate = g,
                                     !.from = gateName[g]])
    /\ UNCHANGED <<gateName, ticket, clashed, broken>>

CountTickets(c) ==
    /\ call[c].step = "count"
    /\ ToStep(c, IF Named(call[c].from) = {} THEN "delete" ELSE "target")
    /\ UNCHANGED <<gateName, ticket, calls, overlapped, clashed, broken>>

(* The first other gate of the concert by name, or HTTP 400. *)
PickTarget(c) ==
    LET r == call[c]
        others == {gateName[h] : h \in GatesOf(ConcertOf[r.gate]) \ {r.gate}}
    IN /\ r.step = "target"
       /\ IF others = {}
            THEN End(c)
            ELSE call' = [call EXCEPT ![c].step = "find", ![c].to = Min(others)]
       /\ UNCHANGED <<gateName, ticket, calls, overlapped, clashed, broken>>

(* Mutant of FindTickets: checked-in tickets are left behind. *)
FindIssuedTickets(c) ==
    /\ call[c].step = "find"
    /\ call' = [call EXCEPT ![c].step = "move",
                  ![c].list = Ascending({t \in Named(call[c].from) : ticket[t].status = "ISSUED"})]
    /\ UNCHANGED <<gateName, ticket, calls, overlapped, clashed, broken>>

(* ... where gateId is the old name, in whatever concert ... *)
FindTickets(c) ==
    /\ call[c].step = "find"
    /\ call' = [call EXCEPT ![c].step = "move", ![c].list = Ascending(Named(call[c].from))]
    /\ UNCHANGED <<gateName, ticket, calls, overlapped, clashed, broken>>

(* ... and all of them get the new name and its signature at once. *)
MoveTickets(c) ==
    LET r == call[c]
    IN /\ r.step = "move"
       /\ ticket' = [t \in GateTicket |-> IF t \in ToSet(r.list) THEN Assign(t, r.to) ELSE ticket[t]]
       /\ clashed' = (clashed \/ \E t \in ToSet(r.list) : ConcertOf[t] # ConcertOf[r.gate])
       /\ IF r.op = "rename" THEN End(c)
            ELSE call' = [call EXCEPT ![c].step = "delete", ![c].list = <<>>]
       /\ UNCHANGED <<gateName, calls, overlapped, broken>>

DeleteGate(c) ==
    /\ call[c].step = "delete"
    /\ gateName' = [gateName EXCEPT ![call[c].gate] = None]
    /\ End(c)
    /\ UNCHANGED <<ticket, calls, overlapped, clashed, broken>>

(* rebalance: the gates by name, ... *)
StartRebalance(c, g) ==
    /\ GatesOf(ConcertOf[g]) # {}
    /\ BeginChange(c, [NoCall EXCEPT !.op = "rebalance", !.step = "list", !.gate = g,
                                     !.names = Ascending(NamesOf(ConcertOf[g]))])
    /\ UNCHANGED <<gateName, ticket, clashed, broken>>

(* ... the ISSUED tickets by age, ... *)
ListTickets(c) ==
    LET k == ConcertOf[call[c].gate]
        mine == {t \in GateTicket : ConcertOf[t] = k /\ ticket[t].status = "ISSUED"}
    IN /\ call[c].step = "list"
       /\ IF mine = {} THEN End(c)
            ELSE call' = [call EXCEPT ![c].step = "compare", ![c].list = Ascending(mine)]
       /\ UNCHANGED <<gateName, ticket, calls, overlapped, clashed, broken>>

(* Mutant of Turn: the last gate never gets its turn. *)
TurnShort(names, i) == names[(i % (IF Len(names) > 1 THEN Len(names) - 1 ELSE 1)) + 1]
(* Round robin: the gate of the i-th ticket, from 0. *)
Turn(names, i) == names[(i % Len(names)) + 1]

(* ... each ticket's gate, one read per ticket, to see which must move, ... *)
CompareTicket(c) ==
    LET r == call[c]
        t == Head(r.list)
        n == Turn(r.names, r.i)
    IN /\ r.step = "compare"
       /\ IF r.list = <<>>
            THEN IF r.plan = <<>> THEN End(c) ELSE ToStep(c, "apply")
            ELSE call' = [call EXCEPT ![c].list = Tail(r.list), ![c].i = r.i + 1,
                            ![c].plan = IF ticket[t].gate = n THEN r.plan
                                        ELSE Append(r.plan, [t |-> t, to |-> n])]
       /\ UNCHANGED <<gateName, ticket, calls, overlapped, clashed, broken>>

(* ... and the writes, one UPDATE per ticket, in no transaction. *)
ApplyMove(c) ==
    LET r == call[c]
        m == Head(r.plan)
    IN /\ r.step = "apply"
       /\ ticket' = [ticket EXCEPT ![m.t] = Assign(m.t, m.to)]
       /\ IF Len(r.plan) = 1 THEN End(c) ELSE call' = [call EXCEPT ![c].plan = Tail(r.plan)]
       /\ UNCHANGED <<gateName, calls, overlapped, clashed, broken>>

-----------------------------------------------------------------------------
(* Ticket issue and check-in *)

Load(k, n) == Cardinality({t \in Issued : ConcertOf[t] = k /\ ticket[t].gate = n})

(* findLeastLoadedGate, of which one wins is the database's choice. *)
LeastLoaded(k) ==
    IF NamesOf(k) = {} THEN {None}
    ELSE {n \in NamesOf(k) : \A m \in NamesOf(k) : Load(k, n) <= Load(k, m)}

StartIssueAtGate(c, t, n) ==
    /\ ticket[t].status = "NEW"
    /\ \A d \in Call : call[d].op = "issue" => ToSet(call[d].list) # {t}
    /\ \A u \in GateTicket : u < t /\ ConcertOf[u] = ConcertOf[t] => ticket[u].status # "NEW"
    /\ n \in LeastLoaded(ConcertOf[t])
    /\ Begin(c, [NoCall EXCEPT !.op = "issue", !.step = "create", !.list = <<t>>, !.to = n])
    /\ UNCHANGED <<gateName, ticket, calls, clashed, broken>>

CreateTicket(c) ==
    LET t == Head(call[c].list)
    IN /\ call[c].step = "create"
       /\ ticket' = [ticket EXCEPT ![t] = [status |-> "ISSUED", gate |-> call[c].to,
                                           sig |-> call[c].to]]
       /\ End(c)
       /\ UNCHANGED <<gateName, calls, overlapped, clashed, broken>>

(* verifyAndCheckin of a device set to gate n: the row is read and checked. *)
StartScanAtGate(c, t, n) ==
    /\ ticket[t].status = "ISSUED"
    /\ ticket[t].gate \in {None, n}
    /\ ticket[t].sig = ticket[t].gate
    /\ Begin(c, [NoCall EXCEPT !.op = "scan", !.step = "checkin", !.list = <<t>>, !.from = n])
    /\ UNCHANGED <<gateName, ticket, calls, clashed, broken>>

CheckInAtGate(c) ==
    LET t == Head(call[c].list)
    IN /\ call[c].step = "checkin"
       /\ ticket' = IF ticket[t].status = "ISSUED"
                      THEN [ticket EXCEPT ![t].status = "CHECKED_IN"] ELSE ticket
       /\ End(c)
       /\ UNCHANGED <<gateName, calls, overlapped, clashed, broken>>

(* The process stops or a statement fails. *)
GateCrash(c) ==
    /\ call[c].step # "idle"
    /\ End(c)
    /\ broken' = TRUE
    /\ UNCHANGED <<gateName, ticket, calls, overlapped, clashed>>

GateNext ==
    \/ \E g \in Gate, n \in Name : CreateGate(g, n)
    \/ \E c \in Call :
         \/ \E g \in Gate : \/ \E n \in Name : StartRename(c, g, n)
                            \/ StartRemoveGate(c, g) \/ StartRebalance(c, g)
         \/ WriteName(c) \/ CountTickets(c) \/ PickTarget(c) \/ FindTickets(c)
         \/ MoveTickets(c) \/ DeleteGate(c) \/ ListTickets(c) \/ CompareTicket(c)
         \/ ApplyMove(c) \/ CreateTicket(c) \/ CheckInAtGate(c) \/ GateCrash(c)
         \/ \E t \in GateTicket, n \in Label : StartIssueAtGate(c, t, n)
         \/ \E t \in GateTicket, n \in Name : StartScanAtGate(c, t, n)

GateSpec == GateInit /\ [][GateNext]_gateVars

-----------------------------------------------------------------------------
(***************************************************************************)
(* A ticket's gate is a gate of its concert, whatever was renamed, removed *)
(* and rebalanced and whoever was scanned meanwhile, as long as these and  *)
(* the issue of tickets came one after the other, none stopped half-way    *)
(* and none took a ticket of a namesake gate of another concert.           *)
(***************************************************************************)
TicketsAtGates ==
    Running \ Scanning = {} /\ "change" \notin overlapped /\ ~ clashed /\ ~ broken =>
      \A t \in Issued : ticket[t].gate \in NamesOf(ConcertOf[t]) \cup {None}

(***************************************************************************)
(* A rebalance that nothing interrupts spreads the ISSUED tickets over     *)
(* the gates with a difference of at most one.                             *)
(***************************************************************************)
Spread(k) ==
    LET load(n) == Cardinality({t \in GateTicket : /\ ConcertOf[t] = k /\ ticket[t].gate = n
                                                   /\ ticket[t].status = "ISSUED"})
    IN \A m, n \in NamesOf(k) : load(m) - load(n) <= 1

Rebalanced(c, k) ==
    /\ call[c].op = "rebalance" /\ ConcertOf[call[c].gate] = k
    /\ call'[c].op = "none"
    /\ overlapped = {} /\ ~ broken'
RebalanceSpreads ==
    [][\A c \in Call, k \in Concert : Rebalanced(c, k) => Spread(k)']_gateVars
=============================================================================
