------------------------------- MODULE Couriers --------------------------------
(***************************************************************************)
(* The agents of delivery.service.ts: drivers and carriers, their removal, *)
(* the link of a driver's phone, and which agent an order is with and      *)
(* when it left and ended.  What an order does to its invoice and receipts *)
(* is module Delivery; here an order is its agent, status and times.  What *)
(* is read before a transaction or an update is a step of its own; tills   *)
(* and phones record hours later, by clocks of their own.  Zones and the   *)
(* boards are left out.                                                    *)
(***************************************************************************)
EXTENDS Integers, FiniteSets

CONSTANTS
    DeliveryAgents, Parcels, Desks,
    Tills,      \* uploads of delivery sales
    NoOne,      \* no agent
    TillAhead,  \* how far the clock of a till may be ahead
    MaxKeys,    \* links issued
    LastTime    \* bound of the clock

ASSUME CouriersAssumption ==
    /\ Desks \cap Tills = {} /\ (Desks \union Tills) \cap DeliveryAgents = {}
    /\ NoOne \notin DeliveryAgents \union Parcels
    /\ {TillAhead, MaxKeys} \subseteq Nat /\ LastTime \in Nat \ {0}

VARIABLES
    courier,    \* delivery_agents: created, not removed, active, driver, link (0: no link)
    phone,      \* the link the driver's phone opened last
    parcel,     \* delivery_orders: status, agent, settled, from a till, and times (0: null)
    desk,       \* the call that a desk, a till or a driver's phone is in the middle of
    clock, keys,
    contended   \* history: agents who were removed beside a call that names them

courierVars == <<courier, phone, parcel, desk, clock, keys, contended>>

OpenStates == {"new", "assigned", "out"}
FinishedStates == {"delivered", "failed"}
Callers == Desks \union Tills \union DeliveryAgents
NoAgent == [made |-> FALSE, live |-> FALSE, active |-> FALSE, driver |-> FALSE, link |-> 0]
NoParcel == [status |-> "none", agent |-> NoOne, settled |-> FALSE, sold |-> FALSE,
             assignedAt |-> 0, dispatchedAt |-> 0, endedAt |-> 0]
NoCall == [do |-> "idle", agent |-> NoOne, order |-> NoOne, at |-> 0, out |-> FALSE, was |-> "new"]

CouriersTypeOK ==
    /\ courier \in [DeliveryAgents -> [made: BOOLEAN, live: BOOLEAN, active: BOOLEAN, driver: BOOLEAN,
                                       link: 0 .. MaxKeys]]
    /\ phone \in [DeliveryAgents -> 0 .. MaxKeys] /\ keys \in 0 .. MaxKeys /\ clock \in 1 .. LastTime
    /\ parcel \in [Parcels -> [status: {"none", "cancelled"} \union OpenStates \union FinishedStates,
                               agent: DeliveryAgents \union {NoOne}, settled: BOOLEAN, sold: BOOLEAN,
                               assignedAt: 0 .. LastTime + TillAhead,
                               dispatchedAt: 0 .. LastTime + TillAhead,
                               endedAt: 0 .. LastTime + TillAhead]]
    /\ \A d \in Callers :
          desk[d].do \in {"idle", "remove", "create", "assign", "sale", "cancel", "out"} \union FinishedStates

CouriersInit ==
    /\ courier = [a \in DeliveryAgents |-> NoAgent] /\ phone = [a \in DeliveryAgents |-> 0]
    /\ parcel = [o \in Parcels |-> NoParcel]
    /\ desk = [d \in Callers |-> NoCall]
    /\ clock = 1 /\ keys = 0
    /\ contended = {}

BeginCall(d, call) == desk[d] = NoCall /\ desk' = [desk EXCEPT ![d] = call]
EndCall(d) == desk' = [desk EXCEPT ![d] = NoCall]

\* What was begun fails, or finds that another upload made the order of that sale.
GiveUp(d) ==
    /\ desk[d].do \notin {"idle", "cancel"}
    /\ EndCall(d)
    /\ UNCHANGED <<courier, phone, parcel, clock, keys>>

-----------------------------------------------------------------------------
CreateAgent(a, active, driver) ==
    /\ ~courier[a].made
    /\ courier' = [courier EXCEPT ![a] = [made |-> TRUE, live |-> TRUE, active |-> active,
                                         driver |-> driver, link |-> 0]]
    /\ UNCHANGED <<phone, parcel, desk, clock, keys>>

UpdateAgent(a, active, driver) ==
    /\ courier[a].live
    /\ courier' = [courier EXCEPT ![a].active = active, ![a].driver = driver]
    /\ UNCHANGED <<phone, parcel, desk, clock, keys>>

\* slip: a finished order is taken for a settled one (RemovedOwesNothing)
PendingOpen(a) == {o \in Parcels : parcel[o].agent = a /\ parcel[o].status \in OpenStates}

\* Counted before the removal: open orders, and finished ones not yet settled.
Pending(a) == {o \in Parcels : /\ parcel[o].agent = a
                              /\ \/ parcel[o].status \in OpenStates
                                 \/ parcel[o].status \in FinishedStates /\ ~parcel[o].settled}

BeginRemove(d, a) ==
    /\ courier[a].live /\ Pending(a) = {}
    /\ BeginCall(d, [NoCall EXCEPT !.do = "remove", !.agent = a])
    /\ UNCHANGED <<courier, phone, parcel, clock, keys>>

CommitRemove(d) ==
    /\ desk[d].do = "remove"
    /\ courier' = [courier EXCEPT ![desk[d].agent].live = FALSE]
    /\ EndCall(d)
    /\ UNCHANGED <<phone, parcel, clock, keys>>

\* A new link makes the one before it useless; revoking leaves none.
IssueDriverAccess(a) ==
    /\ courier[a].live /\ courier[a].driver /\ keys < MaxKeys
    /\ courier' = [courier EXCEPT ![a].link = keys + 1]
    /\ keys' = keys + 1
    /\ UNCHANGED <<phone, parcel, desk, clock>>

RevokeDriverAccess(a) ==
    /\ courier[a].live /\ courier[a].link # 0
    /\ courier' = [courier EXCEPT ![a].link = 0]
    /\ UNCHANGED <<phone, parcel, desk, clock, keys>>

OpenLink(a) ==
    /\ courier[a].link \notin {0, phone[a]}
    /\ phone' = [phone EXCEPT ![a] = courier[a].link]
    /\ UNCHANGED <<courier, parcel, desk, clock, keys>>

AuthenticateDriver(a) ==
    courier[a].live /\ courier[a].active /\ courier[a].driver /\ courier[a].link # 0 /\ phone[a] = courier[a].link

-----------------------------------------------------------------------------
Assignable(a) == a # NoOne => courier[a].live /\ courier[a].active

\* createOrder makes an invoice of its own, so nobody else has an order of it; an
\* invoice has one order (the index on invoiceId).
BeginCreate(d, o, a) ==
    /\ parcel[o] = NoParcel /\ Assignable(a) /\ \A e \in Callers : desk[e].order # o
    /\ BeginCall(d, [NoCall EXCEPT !.do = "create", !.order = o, !.agent = a])
    /\ UNCHANGED <<courier, phone, parcel, clock, keys>>

CommitCreate(d) ==
    LET c == desk[d] IN
    /\ c.do = "create" /\ parcel[c.order] = NoParcel
    /\ parcel' = [parcel EXCEPT ![c.order] =
                   [NoParcel EXCEPT !.status = IF c.agent = NoOne THEN "new" ELSE "assigned",
                                    !.agent = c.agent,
                                    !.assignedAt = IF c.agent = NoOne THEN 0 ELSE clock]]
    /\ EndCall(d)
    /\ UNCHANGED <<courier, phone, clock, keys>>

\* A sale of a till, written with the time of the till; an agent it does not find
\* is left out, one that is stopped is not.
BeginSale(t, o, a, out, at) ==
    /\ parcel[o] = NoParcel /\ \A d \in Desks : desk[d].order # o
    /\ BeginCall(t, [NoCall EXCEPT !.do = "sale", !.order = o, !.out = out, !.at = at,
                                   !.agent = IF a # NoOne /\ courier[a].live THEN a ELSE NoOne])
    /\ UNCHANGED <<courier, phone, parcel, clock, keys>>

RecordSale(t) ==
    LET c == desk[t]
        with == c.agent # NoOne IN
    /\ c.do = "sale" /\ parcel[c.order] = NoParcel
    /\ parcel' = [parcel EXCEPT ![c.order] =
                   [NoParcel EXCEPT !.status = IF ~with THEN "new"
                                               ELSE IF c.out THEN "out" ELSE "assigned",
                                    !.agent = c.agent, !.sold = TRUE,
                                    !.assignedAt = IF with THEN c.at ELSE 0,
                                    !.dispatchedAt = IF with /\ c.out THEN c.at ELSE 0]]
    /\ EndCall(t)
    /\ UNCHANGED <<courier, phone, clock, keys>>

BeginAssign(d, o, a) ==
    /\ parcel[o] # NoParcel /\ courier[a].live /\ courier[a].active
    /\ BeginCall(d, [NoCall EXCEPT !.do = "assign", !.order = o, !.agent = a])
    /\ UNCHANGED <<courier, phone, parcel, clock, keys>>

CommitAssign(d) ==
    LET c == desk[d]
        changed == parcel[c.order].agent # c.agent IN
    /\ c.do = "assign" /\ parcel[c.order].status \in {"new", "assigned"}
    /\ parcel' = [parcel EXCEPT ![c.order].agent = c.agent,
                               ![c.order].status = "assigned",
                               ![c.order].assignedAt = IF changed \/ @ = 0 THEN clock ELSE @]
    /\ EndCall(d)
    /\ UNCHANGED <<courier, phone, clock, keys>>

-----------------------------------------------------------------------------
\* slip: the time before it is not looked at (EventsInOrder)
EventTimeAsTold(at, notBefore) == IF at = 0 \/ at > clock THEN clock ELSE at

\* The time of an event that is told now: at (0: not given) may lie hours back and
\* be wrong.
EventTime(at, notBefore) ==
    IF at = 0 \/ at > clock THEN clock ELSE IF at < notBefore THEN notBefore ELSE at

DispatchParcel(o, at) ==
    /\ parcel[o].status = "assigned"
    /\ parcel' = [parcel EXCEPT ![o].status = "out",
                              ![o].dispatchedAt = EventTime(at, parcel[o].assignedAt)]

ConcludeParcel(o, status, at) ==
    /\ parcel[o].status = "out"
    /\ parcel' = [parcel EXCEPT ![o].status = status,
                              ![o].endedAt = EventTime(at, parcel[o].dispatchedAt)]

ByOffice(o) ==
    /\ DispatchParcel(o, 0) \/ \E s \in FinishedStates : ConcludeParcel(o, s, 0)
    /\ UNCHANGED <<courier, phone, desk, clock, keys>>

\* What a phone tells, at once (0) or hours later, is looked at, by its link and the
\* agent of the order, before the order is locked.
BeginTell(a, o, event, at) ==
    /\ AuthenticateDriver(a) /\ parcel[o].agent = a
    /\ BeginCall(a, [NoCall EXCEPT !.do = event, !.order = o, !.at = at])
    /\ UNCHANGED <<courier, phone, parcel, clock, keys>>

CommitTell(a) ==
    LET c == desk[a] IN
    /\ \/ c.do = "out" /\ DispatchParcel(c.order, c.at)
       \/ c.do \in FinishedStates /\ ConcludeParcel(c.order, c.do, c.at)
    /\ EndCall(a)
    /\ UNCHANGED <<courier, phone, clock, keys>>

\* An order whose invoice was issued at the till is cancelled in one transaction ..
CancelSold(o) ==
    /\ parcel[o].sold /\ parcel[o].status \in {"new", "assigned"}
    /\ parcel' = [parcel EXCEPT ![o].status = "cancelled"]
    /\ UNCHANGED <<courier, phone, desk, clock, keys>>

\* .. any other before its draft is; if that fails the order is what it was.
BeginCancel(d, o) ==
    /\ ~parcel[o].sold /\ parcel[o].status \in {"new", "assigned"}
    /\ BeginCall(d, [NoCall EXCEPT !.do = "cancel", !.order = o, !.agent = parcel[o].agent,
                                   !.was = parcel[o].status])
    /\ parcel' = [parcel EXCEPT ![o].status = "cancelled"]
    /\ UNCHANGED <<courier, phone, clock, keys>>

EndCancel(d) ==
    /\ desk[d].do = "cancel"
    /\ parcel' \in {parcel, [parcel EXCEPT ![desk[d].order].status = desk[d].was]}
    /\ EndCall(d)
    /\ UNCHANGED <<courier, phone, clock, keys>>

\* The agent is looked up before the transaction, and is not looked at in it.
SettleParcels(a, os) ==
    /\ \A o \in os : parcel[o].agent = a /\ ~parcel[o].settled /\ parcel[o].status \in FinishedStates
    /\ parcel' = [o \in Parcels |-> IF o \in os THEN [parcel[o] EXCEPT !.settled = TRUE]
                                   ELSE parcel[o]]
    /\ UNCHANGED <<courier, phone, desk, clock, keys>>

CourierTick ==
    /\ clock < LastTime /\ clock' = clock + 1
    /\ UNCHANGED <<courier, phone, parcel, desk, keys>>

CourierStep ==
    \/ \E a \in DeliveryAgents :
          \/ \E active, driver \in BOOLEAN : CreateAgent(a, active, driver) \/ UpdateAgent(a, active, driver)
          \/ IssueDriverAccess(a) \/ RevokeDriverAccess(a) \/ OpenLink(a)
          \/ \E o \in Parcels, event \in {"out"} \union FinishedStates, at \in 0 .. LastTime :
                BeginTell(a, o, event, at)
          \/ CommitTell(a)
          \/ \E os \in SUBSET Parcels \ {{}} : SettleParcels(a, os)
    \/ \E d \in Desks :
          \/ \E a \in DeliveryAgents : BeginRemove(d, a) \/ \E o \in Parcels : BeginAssign(d, o, a)
          \/ \E o \in Parcels : (\E a \in DeliveryAgents \union {NoOne} : BeginCreate(d, o, a)) \/ BeginCancel(d, o)
          \/ CommitRemove(d) \/ CommitCreate(d) \/ CommitAssign(d) \/ EndCancel(d)
    \/ \E t \in Tills :
          \/ \E o \in Parcels, a \in DeliveryAgents \union {NoOne}, out \in BOOLEAN, at \in 1 .. clock + TillAhead :
                BeginSale(t, o, a, out, at)
          \/ RecordSale(t)
    \/ \E o \in Parcels : ByOffice(o) \/ CancelSold(o)
    \/ \E d \in Callers : GiveUp(d)
    \/ CourierTick

Contend ==
    contended' = contended \union
      {a \in DeliveryAgents : \E d, e \in Callers :
                        /\ desk'[d].do = "remove" /\ desk'[d].agent = a
                        /\ e # d /\ desk'[e].agent = a}

CouriersNext == CourierStep /\ Contend

CouriersSpec == CouriersInit /\ [][CouriersNext]_courierVars

-----------------------------------------------------------------------------
\* An agent that was removed has no order in the works and no money to hand over:
\* removeAgent refuses while anything is pending (delivery.service.ts:304-324),
\* and the orders the agent finishes meanwhile stay pending until settled.  The check
\* is not under a lock: a sale or an assignment begun meanwhile may still follow.
RemovedOwesNothing ==
    \A o \in Parcels :
        parcel[o].agent \in DeliveryAgents \ contended /\ ~courier[parcel[o].agent].live =>
            parcel[o].settled \/ parcel[o].status = "cancelled"

\* The times of an order follow one another whatever the clock of the phone that
\* tells them says (eventTime, delivery.service.ts:1553-1562).
EventsInOrder ==
    \A o \in Parcels :
        /\ parcel[o].dispatchedAt # 0 => parcel[o].assignedAt <= parcel[o].dispatchedAt
        /\ parcel[o].endedAt # 0 => parcel[o].dispatchedAt <= parcel[o].endedAt

\* An agent leaves with nothing pending, and an order's times are in order.
AgentsInOrder == CouriersTypeOK /\ RemovedOwesNothing /\ EventsInOrder
=============================================================================
