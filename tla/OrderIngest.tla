---------------------------- MODULE OrderIngest ----------------------------
(***************************************************************************)
(* Ingestion of one marketplace order: OrderSyncPipeline and the decision  *)
(* it takes (src/src/order/ingest).  Webhook worker, reconciler and manual *)
(* sync call execute() at any time and concurrently; each call fetches the *)
(* order from the marketplace, reads the stored document, decides, and     *)
(* acts on what it has read.                                               *)
(*                                                                         *)
(* Stock is moved through StockLedgerPort (LedgerPort.tla): all items of a *)
(* sale share one reference, all items of its cancellation another, and a  *)
(* reference posts one movement.  A registration is one MongoDB            *)
(* transaction, here one step.  Its save filters on and increments the     *)
(* version of the document, because it replaces the array of items; the    *)
(* findByIdAndUpdate of the other actions does neither.  Fulfilment,       *)
(* rectification and the cancellation service are left out.  A definition  *)
(* marked "fault" is the one below it with a bug.                          *)
(***************************************************************************)
EXTENDS Integers, FiniteSets, FiniteSetsExt

CONSTANTS
    Ingesters,    \* calls of execute() in flight at a time
    NItems,       \* items of the order
    Substatuses,  \* shipping substatuses the marketplace reports
    MaxFaults     \* bound: crashes, failed reverts and failed transactions

Items == 1 .. NItems
Confirmed == {"paid", "shipped"}                     \* CONFIRMED_STATUSES
Statuses == {"payment_required", "cancelled"} \cup Confirmed

ASSUME ItemsAssumption == NItems \in Nat \ {0}
ASSUME BoundAssumption == MaxFaults \in Nat
ASSUME SubstatusAssumption == "none" \notin Substatuses /\ "cancelled" \notin Substatuses

VARIABLES
    remote,      \* the order at the marketplace
    order,       \* the order document
    out,         \* items taken from stock under the reference of the sale
    back,        \* items returned under the reference of the cancellation
    calls,       \* the calls of execute()
    unreturned,  \* history: items a cancellation could not return
    alone,       \* history: calls that fetched the cancelled order with no other
                 \* call in progress, and have not failed
    faults       \* faults so far

vars == <<remote, order, out, back, calls, unreturned, alone, faults>>

Remote == [status : Statuses, sub : Substatuses \cup {"none"}]
Order == [status    : Statuses \cup {"none"},
          logistics : {"none", "pending", "deducted", "unresolved", "cancelled"},
          sub       : Substatuses \cup {"none", "cancelled"},
          linked    : SUBSET Items,       \* items with a productId
          notified  : BOOLEAN]            \* notificationStatus.whatsapp is in NOTIFIED
Absent == [status |-> "none", logistics |-> "none", sub |-> "none", linked |-> {},
           notified |-> FALSE]
Call == [pc     : {"idle", "read", "register", "sell", "status", "shipping", "revert",
                   "cancel", "emit"},
         got    : Remote,                 \* the fetched order
         linked : SUBSET Items,           \* its items the mapper found a product for
         old    : Order,                  \* the document as read
         stale  : BOOLEAN]                \* its version has moved since
Idle == [pc |-> "idle", got |-> [status |-> "payment_required", sub |-> "none"],
         linked |-> {}, old |-> Absent, stale |-> FALSE]

Init ==
    /\ remote = [status |-> "payment_required", sub |-> "none"]
    /\ order = Absent
    /\ out = {} /\ back = {}
    /\ calls = [c \in Ingesters |-> Idle]
    /\ unreturned = {} /\ alone = {}
    /\ faults = 0

Fault == faults < MaxFaults /\ faults' = faults + 1

-----------------------------------------------------------------------------
(* The marketplace.                                                        *)

\* An order is paid, shipped and, at any time, cancelled.
RemoteStatus ==
    /\ \E s \in Statuses :
         /\ <<remote.status, s>> \in
              {<<"payment_required", "paid">>, <<"paid", "shipped">>}
              \cup {<<t, "cancelled">> : t \in Statuses \ {"cancelled"}}
         /\ remote' = [remote EXCEPT !.status = s]
    /\ UNCHANGED <<order, out, back, calls, unreturned, alone, faults>>

\* Its shipment advances.
RemoteShipment ==
    /\ remote.status \in Confirmed
    /\ \E s \in Substatuses \ {remote.sub} : remote' = [remote EXCEPT !.sub = s]
    /\ UNCHANGED <<order, out, back, calls, unreturned, alone, faults>>

-----------------------------------------------------------------------------
(* decideIngestAction.                                                     *)

\* existing.shippingSubstatus: the document has no field of this name, its
\* substatus is in shipping.substatus.
KnownSubstatus(old) == "none"

CancelsAnything(old) == old.logistics # "none"                        \* fault
\* Only an order whose stock was taken is cancelled with a return.
HoldsStock(old) == old.logistics = "deducted"

Announced(old) == old.notified

\* The step an ingestion goes on with (idle: SKIP).
Decide(old, got) ==
    CASE HoldsStock(old) /\ got.status # old.status ->
           IF got.status = "cancelled" THEN "revert" ELSE "status"
      [] HoldsStock(old) /\ got.status = old.status
           /\ got.sub # "none" /\ got.sub # KnownSubstatus(old) -> "shipping"
      [] HoldsStock(old) /\ got.status = old.status
           /\ got.sub \in {"none", KnownSubstatus(old)} ->
           IF Announced(old) THEN "idle" ELSE "emit"
      [] ~HoldsStock(old) -> IF got.status \in Confirmed THEN "sell" ELSE "register"

-----------------------------------------------------------------------------
(* One call of execute().                                                  *)

\* fetchOrder, and the mapper's search for the products of the items.
Fetch(c) ==
    /\ calls[c].pc = "idle"
    /\ \E linked \in SUBSET Items :
         calls' = [calls EXCEPT ![c] = [Idle EXCEPT !.pc = "read", !.got = remote,
                                                    !.linked = linked]]
    /\ alone' = IF remote.status = "cancelled" /\ \A d \in Ingesters \ {c} : calls[d].pc = "idle"
                THEN alone \cup {c} ELSE alone
    /\ UNCHANGED <<remote, order, out, back, unreturned, faults>>

\* findByExternalId and the decision.
Read(c) ==
    /\ calls[c].pc = "read"
    /\ LET next == Decide(order, calls[c].got) IN
       calls' = [calls EXCEPT ![c] = IF next = "idle" THEN Idle
                                     ELSE [@ EXCEPT !.pc = next, !.old = order]]
    /\ UNCHANGED <<remote, order, out, back, unreturned, alone, faults>>

Done(c) == calls' = [calls EXCEPT ![c] = Idle]

SavesBlindly(c) == calls[c].old = Absent => order = Absent            \* fault
\* create() fails on the unique externalId, save() on a version that has moved.
CanSave(c) == IF calls[c].old = Absent THEN order = Absent ELSE ~calls[c].stale

\* save() writes the fields that differ from what was read; items always do, and so
\* does the logistics status of a sale, which is "processing" in between.
Saved(c, logistics) ==
    LET new == [status |-> calls[c].got.status, sub |-> calls[c].got.sub,
                logistics |-> logistics, linked |-> calls[c].linked]
        always == IF calls[c].pc = "sell" THEN {"linked", "logistics"} ELSE {"linked"}
        dirty == {f \in DOMAIN new : new[f] # calls[c].old[f]} \cup always
    IN [f \in DOMAIN order |-> IF f \in dirty THEN new[f] ELSE order[f]]

\* The upsert, which moves the version under every other call.
Upsert(c, logistics, pc) ==
    /\ CanSave(c)
    /\ order' = Saved(c, logistics)
    /\ calls' = [d \in Ingesters |->
                   IF d # c THEN [calls[d] EXCEPT !.stale = calls[d].old # Absent]
                   ELSE IF pc = "idle" THEN Idle ELSE [calls[c] EXCEPT !.pc = pc]]

\* CREATE_PENDING: no stock action.
Register(c) ==
    /\ calls[c].pc = "register"
    /\ Upsert(c, "pending", "idle")
    /\ UNCHANGED <<remote, out, back, unreturned, alone, faults>>

\* The movement the ledger posts for items it can resolve a store for, under a
\* reference that `posted` were posted with: one, if none was before.
Posted(posted, items) == IF posted = {} /\ items # {} THEN {Min(items)} ELSE {}

NeverFinal(linked, taken) == IF taken # {} THEN "deducted"            \* fault
                             ELSE "processing"
SilentlyDeducted(linked, taken) == IF linked # {} THEN "deducted"     \* fault
                                   ELSE "unresolved"
\* Never deducted when an item was skipped, or when there was none.
LogisticsAfter(linked, taken) == IF linked # {} /\ taken = linked THEN "deducted"
                                 ELSE "unresolved"

\* CREATE_DEDUCT and UPSERT_DEDUCT, with deductAndLink in the transaction.
Sell(c) ==
    /\ calls[c].pc = "sell"
    /\ \E stores \in SUBSET calls[c].linked :     \* the items with one store
         LET taken == Posted(out, stores) IN
         /\ Upsert(c, LogisticsAfter(calls[c].linked, taken), "emit")
         /\ out' = out \cup taken
    /\ UNCHANGED <<remote, back, unreturned, alone, faults>>

\* The transaction throws: a version or a key conflict, or retries used up.
RegistrationFails(c) ==
    /\ calls[c].pc \in {"register", "sell"}
    /\ IF CanSave(c) THEN Fault ELSE UNCHANGED faults
    /\ Done(c)
    /\ alone' = alone \ {c}
    /\ UNCHANGED <<remote, order, out, back, unreturned>>

\* emit(PROCESSED): the listener notifies and records it on the order.
Emit(c) ==
    /\ calls[c].pc = "emit"
    /\ order' = [order EXCEPT !.notified = TRUE]
    /\ Done(c)
    /\ UNCHANGED <<remote, out, back, unreturned, alone, faults>>

\* applyStatusUpdate.
UpdateStatus(c) ==
    /\ calls[c].pc = "status"
    /\ order' = [order EXCEPT !.status = calls[c].got.status]
    /\ Done(c)
    /\ UNCHANGED <<remote, out, back, unreturned, alone, faults>>

\* applyShippingUpdate.
UpdateShipping(c) ==
    /\ calls[c].pc = "shipping"
    /\ order' = [order EXCEPT !.sub = calls[c].got.sub]
    /\ Done(c)
    /\ UNCHANGED <<remote, out, back, unreturned, alone, faults>>

ReturnedAsSale(stores) == Posted(out \cup back, stores)               \* fault
\* What revert posts, under the reference of the cancellation.
Returned(stores) == Posted(back, stores)

\* revert, in handleCancellation: an item without a store is skipped.
Revert(c) ==
    /\ calls[c].pc = "revert"
    /\ \E stores \in SUBSET calls[c].old.linked :
         /\ back' = back \cup Returned(stores)
         /\ unreturned' = unreturned \cup (calls[c].old.linked \ stores)
    /\ calls' = [calls EXCEPT ![c].pc = "cancel"]
    /\ UNCHANGED <<remote, order, out, alone, faults>>

\* revert throws: the error is logged and the cancellation goes on.
RevertFails(c) ==
    /\ Fault
    /\ calls[c].pc = "revert"
    /\ unreturned' = unreturned \cup calls[c].old.linked
    /\ calls' = [calls EXCEPT ![c].pc = "cancel"]
    /\ UNCHANGED <<remote, order, out, back, alone>>

\* The findByIdAndUpdate of handleCancellation.
MarkCancelled(c) ==
    /\ calls[c].pc = "cancel"
    /\ order' = [order EXCEPT !.status = "cancelled", !.logistics = "cancelled",
                              !.sub = "cancelled"]
    /\ Done(c)
    /\ UNCHANGED <<remote, out, back, unreturned, alone, faults>>

\* The process dies.
Crash(c) ==
    /\ Fault
    /\ calls[c].pc # "idle"
    /\ Done(c)
    /\ alone' = alone \ {c}
    /\ UNCHANGED <<remote, order, out, back, unreturned>>

-----------------------------------------------------------------------------
Step(c) ==
    \/ Fetch(c) \/ Read(c) \/ Register(c) \/ Sell(c) \/ Emit(c) \/ UpdateStatus(c)
    \/ UpdateShipping(c) \/ Revert(c) \/ MarkCancelled(c)

Next ==
    \/ RemoteStatus \/ RemoteShipment
    \/ \E c \in Ingesters : Step(c) \/ RegistrationFails(c) \/ RevertFails(c) \/ Crash(c)

Spec == Init /\ [][Next]_vars

-----------------------------------------------------------------------------
TypeOK ==
    /\ remote \in Remote
    /\ order \in Order
    /\ out \subseteq Items /\ back \subseteq Items /\ unreturned \subseteq Items
    /\ alone \subseteq Ingesters
    /\ calls \in [Ingesters -> Call]
    /\ faults \in 0 .. MaxFaults

\* "Never mark deducted in silence": a deducted order has the stock of every item
\* that has a product, whatever other calls have posted or replaced meanwhile.
DeductedMeansTaken == order.logistics = "deducted" => order.linked = out

\* Stock that is out and not back belongs to an order that says so, so that a
\* later cancellation returns it: the loser of two concurrent registrations does
\* not overwrite the winner's outcome.
StockOutIsTracked ==
    out \subseteq back \cup unreturned \/ order.logistics = "deducted"

\* Nothing is returned that was not taken, however often a cancellation is
\* delivered and wherever the call before it died.
ReturnsWereTaken == back \subseteq out

\* handleCancellation marks an order cancelled only once its stock is back, unless
\* the return itself failed or found no store.
CancelledMeansReturned ==
    order.logistics = "cancelled" => out \subseteq back \cup unreturned

\* One ingestion of a cancelled order that starts with no other in progress, and
\* does not fail, settles it for good: the document says "cancelled", no stock of
\* it stays out, and neither what crashes and late calls have left before nor the
\* calls that overlap or follow change that.  (That there is such an ingestion is
\* not said: a later notification may be dropped as a duplicate.)
CancellationsArrive ==
    \A c \in alone : calls[c].pc = "idle" =>
      order.status = "cancelled" /\ out \subseteq back \cup unreturned

\* registerAndPublish's comment on a cancelled order that is not deducted: "direct
\* cancellation (never deducted)"; at most its stock has been returned.
DirectCancellationHoldsNoStock ==
    order.status = "cancelled" /\ order.logistics = "pending" =>
      out \subseteq back \cup unreturned
=============================================================================
