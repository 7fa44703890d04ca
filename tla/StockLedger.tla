---------------------------- MODULE StockLedger ----------------------------
(***************************************************************************)
(* The stock ledger: StockService and StockLedgerProvider (src/src/stock)  *)
(* over StoreListingService.recordStockMovement.  Movements are appended,  *)
(* balances are materialised; both are written in MongoDB transactions     *)
(* that read from a snapshot and fail at once on a write conflict.  Every  *)
(* movement writes the lot document (the upsert touches updatedAt), so two *)
(* transactions that move stock of one lot conflict.                       *)
(*                                                                         *)
(* A handler serves one request.  The moves of an order deduction share    *)
(* the transaction of the order pipeline; all other moves have their own.  *)
(* Costs, sale prices and the unit documents of damaged stock are left     *)
(* out.  A definition marked "fault" is the one below it with a bug.       *)
(***************************************************************************)
EXTENDS Integers, Sequences, FiniteSets, FiniteSetsExt, Functions

CONSTANTS
    Handlers,     \* requests in flight at a time
    Lots,         \* (product, store, condition)
    Boxes,        \* storage boxes
    NoBox,        \* boxId is null
    Refs,         \* references: an order, the cancellation of an order
    NoRef,        \* a move without a reference
    Posts,        \* move() and deductAndLink()/revert() requests, each with the stores
                  \* its items may be found in: a reference may have several
    Aims,         \* the quantities an amendment may ask for (0: reverseMovement)
    Corrections,  \* correctTo requests
    Damages,      \* markUnitsAsDamaged requests
    MaxTries,     \* 3: attempts of moveWithRetry, MAX_TX_RETRIES of the pipeline
    MaxRequests   \* bound: requests served

Places == Boxes \cup {NoBox}

\* MOVEMENT_EFFECT; an adjustment is signed, a transfer is two adjustments.
OnHandSign == [inbound |-> 1, outbound |-> -1, reservation |-> 0, release |-> 0,
               adjustment |-> 1]
ReservedSign == [inbound |-> 0, outbound |-> 0, reservation |-> 1, release |-> -1,
                 adjustment |-> 0]

\* A leg is what recordStockMovement is asked to write; `amends` and `aim` are the
\* movement a correction is about and its intended quantity (they are in `reason`).
Leg == [lot : Lots, type : DOMAIN OnHandSign, qty : Int, from : Places, to : Places,
        amends : Nat, aim : Int]
Move == [ref : Refs \cup {NoRef}, legs : Seq(Leg)]
Movement == [ref : Refs \cup {NoRef}, leg : Leg]

ASSUME PlacesAssumption == NoBox \notin Boxes /\ NoRef \notin Refs
ASSUME FinitenessAssumption == IsFiniteSet(Handlers) /\ IsFiniteSet(Boxes)
ASSUME RequestsAssumption ==
    /\ Posts \subseteq [op : {"post"}, shared : BOOLEAN, moves : Seq(Move)]
    /\ Corrections \subseteq [op : {"correct"}, lot : Lots, target : Int]
    /\ Damages \subseteq [op : {"damage"}, lot : Lots, qty : Nat]
    /\ Aims \subseteq Int
    /\ MaxTries \in Nat \ {0} /\ MaxRequests \in Nat
\* One reference for all the moves of a request.
OneReference(moves) ==
    /\ moves # <<>>
    /\ \A i \in DOMAIN moves : moves[i].legs # <<>> /\ moves[i].ref = moves[1].ref
ASSUME OneReferenceAssumption == \A p \in Posts : OneReference(p.moves)

\* The lot that carries the reference of a request: the one of its first item, in the
\* store that has the product when the request looks (resolveStoreForSale).
FirstLot(moves) == moves[1].legs[Len(moves[1].legs)].lot
Starts(ref) == {FirstLot(p.moves) : p \in {q \in Posts : q.moves[1].ref = ref}}

VARIABLES
    movements,  \* store_listing_stock_movements, in commit order
    balance,    \* store_listing_stock_balances: on hand and reserved per lot and box
    hs,         \* the handlers
    answered,   \* references of requests that were answered without an error
    torn,       \* per lot: units debited by a damage marking that died half way
    received    \* requests received so far

vars == <<movements, balance, hs, answered, torn, received>>

Idle == [pc |-> "idle", req |-> [op |-> "none"], shared |-> FALSE, moves |-> <<>>,
         at |-> 1, leg |-> 1, try |-> 1, open |-> FALSE, view |-> {}, buf |-> <<>>,
         clash |-> {}]

Init ==
    /\ movements = <<>>
    /\ balance = [l \in Lots |-> [b \in Places |-> [onHand |-> 0, reserved |-> 0]]]
    /\ hs = [h \in Handlers |-> Idle]
    /\ answered = {}
    /\ torn = [l \in Lots |-> 0]
    /\ received = 0

-----------------------------------------------------------------------------
(* The stored state and transactions over it.                              *)

BoxOf(leg) == IF leg.to # NoBox THEN leg.to ELSE leg.from

Effect(sign, leg) == sign[leg.type] * leg.qty
OnHand(leg) == Effect(OnHandSign, leg)

\* What the movements or balance rows `seq` add to a box of a lot.
At(seq, l, b) == {i \in DOMAIN seq : seq[i].leg.lot = l /\ BoxOf(seq[i].leg) = b}
Total(seq, l, b, sign) == SumFunction([i \in At(seq, l, b) |-> Effect(sign, seq[i].leg)])

IncrementToBox(seq) ==                                                \* fault
    [l \in Lots |-> [b \in Places |->
        [onHand   |-> balance[l][b].onHand +
           SumFunction([i \in {i \in DOMAIN seq : seq[i].leg.lot = l /\ seq[i].leg.to = b}
                          |-> OnHand(seq[i].leg)]),
         reserved |-> balance[l][b].reserved + Total(seq, l, b, ReservedSign)]]]
\* The $inc upserts of the balance rows, in the movement's box.
Increment(seq) ==
    [l \in Lots |-> [b \in Places |->
        [onHand   |-> balance[l][b].onHand + Total(seq, l, b, OnHandSign),
         reserved |-> balance[l][b].reserved + Total(seq, l, b, ReservedSign)]]]

LotsOf(seq) == {seq[i].leg.lot : i \in DOMAIN seq}
RefsOf(seq) == {seq[i].ref : i \in DOMAIN seq} \ {NoRef}

CurrentMove(h) == hs[h].moves[hs[h].at]

\* The snapshot is taken by the first operation in the session.  All a transaction
\* reads in it are the references of the movements.
View(h) == IF hs[h].open THEN hs[h].view ELSE RefsOf(movements)
WithSnapshot(h) == [hs[h] EXCEPT !.open = TRUE, !.view = View(h)]

ReferenceExistsAnywhere(h, ref) ==                                    \* fault
    \/ ref \in RefsOf(movements)
    \/ \E g \in Handlers : ref \in RefsOf(hs[g].buf)
ReferenceExistsUnread(h, ref) == FALSE                                \* fault
ReferenceExists(h, ref) ==
    ref \in View(h) \cup RefsOf(hs[h].buf)

LockedBy(g, l) == l \in LotsOf(hs[g].buf)
Locked(h, l) == \E g \in Handlers \ {h} : LockedBy(g, l)

ConflictUnversioned(h, l) == Locked(h, l)                             \* fault
\* The lot is written by an open transaction, or was since the snapshot.
Conflict(h, l) == Locked(h, l) \/ l \in hs[h].clash

\* Writing lots invalidates every other snapshot in use for them.
Touch(h, rec, lots) ==
    [g \in Handlers |-> IF g = h THEN rec
                        ELSE IF ~hs[g].open THEN hs[g]
                        ELSE [hs[g] EXCEPT !.clash = @ \cup lots]]

-----------------------------------------------------------------------------
(* Requests.                                                               *)

Receive(h, req, pc, moves, shared) ==
    /\ hs[h].pc = "idle"
    /\ received < MaxRequests
    /\ received' = received + 1
    /\ hs' = [hs EXCEPT ![h] = [Idle EXCEPT !.pc = pc, !.req = req, !.moves = moves,
                                            !.shared = shared]]
    /\ UNCHANGED <<movements, balance, answered, torn>>

\* move() and revert(), or deductAndLink() within the caller's transaction.
ReceivePost(h) == \E p \in Posts :
    Receive(h, [op |-> "post"], IF p.shared THEN "open" ELSE "check", p.moves, p.shared)

\* reverseMovement and editMovementViaAdjustment of a movement the user sees.
ReceiveAmend(h) == \E n \in DOMAIN movements, q \in Aims :
    Receive(h, [op |-> "amend", of |-> n, aim |-> q], "read", <<>>, FALSE)

ReceiveCorrection(h) == \E r \in Corrections : Receive(h, r, "read", <<>>, FALSE)

ReceiveDamage(h) == \E r \in Damages : Receive(h, r, "count", <<>>, FALSE)

\* The single signed adjustment of adjust().
Adjustment(l, qty, box, of, aim) ==
    <<[ref |-> NoRef,
       legs |-> <<[lot |-> l, type |-> "adjustment", qty |-> qty, from |-> NoBox,
                   to |-> box, amends |-> of, aim |-> aim]>>]>>

\* findMovementById, then the compensating adjustment in the movement's box.
ReadMovement(h) ==
    /\ hs[h].pc = "read" /\ hs[h].req.op = "amend"
    /\ LET of   == hs[h].req.of
           aim  == hs[h].req.aim
           orig == movements[of].leg
           diff == OnHand([orig EXCEPT !.qty = aim]) - OnHand(orig)
       IN hs' = [hs EXCEPT ![h].pc = "check",
                           ![h].moves = Adjustment(orig.lot, diff, BoxOf(orig), of, aim)]
    /\ UNCHANGED <<movements, balance, answered, torn, received>>

LotOnHand(l) == SumFunction([b \in Places |-> balance[l][b].onHand])

\* correctTo: the balance is read outside the transaction that adjusts it.
ReadOnHand(h) ==
    /\ hs[h].pc = "read" /\ hs[h].req.op = "correct"
    /\ LET l    == hs[h].req.lot
           diff == hs[h].req.target - LotOnHand(l)
       IN hs' = [hs EXCEPT ![h] = IF diff = 0 THEN Idle
                 ELSE [@ EXCEPT !.pc = "check",
                                !.moves = Adjustment(l, diff, NoBox, 0, 0)]]
    /\ UNCHANGED <<movements, balance, answered, torn, received>>

-----------------------------------------------------------------------------
(* moveOnce and its retries.                                               *)

\* The order pipeline starts its transaction with the upsert of the order, and looks the
\* stores of the items up in every attempt.
Resolved(h) ==
    {p.moves : p \in {q \in Posts : q.shared /\ q.moves[1].ref = hs[h].moves[1].ref}}

Open(h) ==
    /\ hs[h].pc = "open"
    /\ \E moves \in Resolved(h) :
         hs' = [hs EXCEPT ![h] = [WithSnapshot(h) EXCEPT !.pc = "check", !.moves = moves]]
    /\ UNCHANGED <<movements, balance, answered, torn, received>>

\* Go on at move k; with a transaction of its own, or after an abort, from scratch.
Advance(rec, k, pc) == [rec EXCEPT !.leg = 1, !.at = k, !.pc = pc]
Restart(rec, n, k, pc) ==
    [rec EXCEPT !.try = n, !.leg = 1, !.at = k, !.pc = pc, !.buf = <<>>,
                !.open = FALSE, !.view = {}, !.clash = {}]

\* The handler after its current move.
NextMove(rec) ==
    IF rec.at < Len(rec.moves)
    THEN IF rec.shared THEN Advance(rec, rec.at + 1, "check")
                       ELSE Restart(rec, 1, rec.at + 1, "check")
    ELSE IF rec.shared THEN Advance(rec, rec.at, "commit") ELSE Idle

\* referenceExists: a reference is processed at most once.
CheckReference(h) ==
    /\ hs[h].pc = "check"
    /\ LET ref  == CurrentMove(h).ref
           read == WithSnapshot(h)
       IN IF ref = NoRef
          THEN /\ hs' = [hs EXCEPT ![h].pc = "write"]
               /\ UNCHANGED answered
          ELSE IF ReferenceExists(h, ref)
          THEN /\ hs' = [hs EXCEPT ![h] = NextMove(read)]
               /\ answered' = IF hs[h].shared THEN answered ELSE answered \cup {ref}
          ELSE /\ hs' = [hs EXCEPT ![h] = [read EXCEPT !.pc = "write"]]
               /\ UNCHANGED answered
    /\ UNCHANGED <<movements, balance, torn, received>>

AbortOnceMore(rec) ==                                                 \* fault
    IF rec.try > MaxTries THEN Idle
    ELSE IF rec.shared THEN Restart(rec, rec.try + 1, 1, "open")
    ELSE Restart(rec, rec.try + 1, rec.at, "check")
\* A transient error aborts the transaction; it is tried again a few times.
Abort(rec) ==
    IF rec.try = MaxTries THEN Idle
    ELSE IF rec.shared THEN Restart(rec, rec.try + 1, 1, "open")
    ELSE Restart(rec, rec.try + 1, rec.at, "check")

\* recordStockMovement inside the transaction: lot, balance and movement.  The
\* reference goes on the last leg.
WriteLeg(h) ==
    /\ hs[h].pc = "write"
    /\ LET rec  == hs[h]
           move == CurrentMove(h)
           leg  == move.legs[rec.leg]
           last == rec.leg = Len(move.legs)
           made == [WithSnapshot(h) EXCEPT
                      !.buf = Append(@, [ref |-> IF last THEN move.ref ELSE NoRef,
                                         leg |-> leg])]
       IN hs' = [hs EXCEPT ![h] =
                   IF Conflict(h, leg.lot) THEN Abort(rec)
                   ELSE IF ~last THEN [made EXCEPT !.leg = @ + 1]
                   ELSE IF rec.shared THEN NextMove(made)
                   ELSE [made EXCEPT !.pc = "commit"]]
    /\ UNCHANGED <<movements, balance, answered, torn, received>>

Store(h, rec) ==
    /\ hs[h].pc = "commit"
    /\ movements' = movements \o hs[h].buf
    /\ balance' = Increment(hs[h].buf)
    /\ hs' = Touch(h, rec, LotsOf(hs[h].buf))
    /\ UNCHANGED <<torn, received>>

MovesOf(rec) == IF rec.shared THEN rec.moves ELSE <<rec.moves[rec.at]>>

\* commitTransaction, and the caller learns of it.
Commit(h) ==
    /\ Store(h, IF hs[h].shared THEN Idle ELSE NextMove(hs[h]))
    /\ answered' = answered \cup RefsOf(MovesOf(hs[h]))

\* The commit lands, but its reply is lost: the error is not transient.
CommitUnknown(h) ==
    /\ Store(h, Idle)
    /\ UNCHANGED answered

\* markUnitsAsDamaged has no session: it waits for a transaction that holds the
\* lot, counts the balance down at once, and records the movement afterwards.
CountDamage(h) ==
    LET r   == hs[h].req
        leg == [lot |-> r.lot, type |-> "adjustment", qty |-> -r.qty, from |-> NoBox,
                to |-> NoBox, amends |-> 0, aim |-> 0]
        rec == [hs[h] EXCEPT !.pc = "log", !.moves = <<[ref |-> NoRef, legs |-> <<leg>>]>>]
    IN
    /\ hs[h].pc = "count"
    /\ ~Locked(h, r.lot)
    /\ balance' = Increment(<<[ref |-> NoRef, leg |-> leg]>>)
    /\ hs' = Touch(h, rec, {r.lot})
    /\ UNCHANGED <<movements, answered, torn, received>>

LogDamage(h) ==
    /\ hs[h].pc = "log"
    /\ movements' = Append(movements, [ref |-> NoRef, leg |-> CurrentMove(h).legs[1]])
    /\ hs' = [hs EXCEPT ![h] = Idle]
    /\ UNCHANGED <<balance, answered, torn, received>>

\* The process dies: an open transaction is aborted, other writes stay.
Crash(h) ==
    /\ hs[h].pc # "idle"
    /\ torn' = IF hs[h].pc = "log" THEN [torn EXCEPT ![hs[h].req.lot] = @ + hs[h].req.qty]
                                   ELSE torn
    /\ hs' = [hs EXCEPT ![h] = Idle]
    /\ UNCHANGED <<movements, balance, answered, received>>

-----------------------------------------------------------------------------
Serve(h) ==
    \/ ReadMovement(h) \/ ReadOnHand(h) \/ Open(h) \/ CheckReference(h) \/ WriteLeg(h)
    \/ Commit(h) \/ CountDamage(h) \/ LogDamage(h)

Next ==
    \E h \in Handlers :
        \/ ReceivePost(h) \/ ReceiveAmend(h) \/ ReceiveCorrection(h) \/ ReceiveDamage(h)
        \/ Serve(h) \/ CommitUnknown(h) \/ Crash(h)

Spec == Init /\ [][Next]_vars

-----------------------------------------------------------------------------
Request ==
    [op : {"none", "post"}] \cup [op : {"amend"}, of : Nat, aim : Int]
      \cup [op : {"correct"}, lot : Lots, target : Int]
      \cup [op : {"damage"}, lot : Lots, qty : Nat]
Handler ==
    [pc     : {"idle", "open", "read", "check", "write", "commit", "count", "log"},
     req    : Request,
     shared : BOOLEAN,
     moves  : Seq(Move),
     at     : Nat,
     leg    : Nat,
     try    : 1 .. MaxTries,
     open   : BOOLEAN,            \* the session has a snapshot
     view   : SUBSET Refs,        \* the references in it
     buf    : Seq(Movement),      \* written in the open transaction
     clash  : SUBSET Lots]        \* written by others since the snapshot

TypeOK ==
    /\ movements \in Seq(Movement)
    /\ balance \in [Lots -> [Places -> [onHand : Int, reserved : Int]]]
    /\ hs \in [Handlers -> Handler]
    /\ answered \subseteq Refs
    /\ torn \in [Lots -> Nat]
    /\ received \in Nat

\* A reference is processed at most once per lot (moveOnce), also when two handlers
\* check it before either has written and when a transaction is retried.  On two lots,
\* once each: if the listing changes hands between two requests for one reference, they
\* write different lots and nothing conflicts.
ReferenceOncePerLot ==
    \A i, j \in DOMAIN movements :
        movements[i].ref # NoRef /\ movements[i].ref = movements[j].ref
          /\ movements[i].leg.lot = movements[j].leg.lot => i = j

\* What a damage marking has debited and not recorded, now or ever.
Marking(l) == {h \in Handlers : hs[h].pc = "log" /\ hs[h].req.lot = l}
Unrecorded(l) == torn[l] + SumFunction([h \in Marking(l) |-> hs[h].req.qty])

\* What the divergence reconciler compares, per box: a balance is the sum of its
\* movements, and markUnitsAsDamaged, which has no transaction, is the only
\* operation that can part them.
OnlyDamageMarkingDiverges ==
    \A l \in Lots, b \in Places :
        /\ balance[l][b].onHand + (IF b = NoBox THEN Unrecorded(l) ELSE 0) =
             Total(movements, l, b, OnHandSign)
        /\ balance[l][b].reserved = Total(movements, l, b, ReservedSign)

\* A request that was answered, done or "already processed", has its movement in
\* the ledger: nobody is told of a write that was later aborted.
AnsweredMeansPosted == answered \subseteq RefsOf(movements)

\* StockLedgerPort's contract, every operation is idempotent on its reference, for the
\* references whose requests all find the first item in one store.
SteadyRefs == {r \in Refs : \A l, m \in Starts(r) : l = m}
postedBar == [r \in SteadyRefs |-> {i \in DOMAIN movements : movements[i].ref = r}]
Port == INSTANCE LedgerPort WITH posted <- postedBar, Refs <- SteadyRefs
KeepsPort == Port!Spec

\* The doc of editMovementViaAdjustment: newQuantity is the intended absolute
\* quantity of the original movement; reverseMovement "deletes" it (aim 0).  Once
\* nobody amends it any more, a movement counts with the last quantity asked for.
AmendmentsReachTheirAim ==
    \A n \in DOMAIN movements :
        LET by == {i \in DOMAIN movements : movements[i].leg.amends = n}
            l  == movements[n].leg
        IN by # {} =>
             OnHand(l) + SumFunction([i \in by |-> OnHand(movements[i].leg)]) =
               OnHand([l EXCEPT !.qty = movements[Max(by)].leg.aim])
=============================================================================
