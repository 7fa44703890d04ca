--------------------------- MODULE OrderReconciler ---------------------------
(***************************************************************************)
(* The safety net of order ingestion: src/src/order/reconcile.             *)
(*                                                                         *)
(* Instances of the backend run it over the same checkpoint, a document    *)
(* with a cursor (date_last_updated of the last order seen) and the orders *)
(* that failed.  A run loads the checkpoint, lists page by page the paid   *)
(* orders updated since the cursor, ingests those that the database does   *)
(* not have as the marketplace does, retries those that failed, and saves. *)
(* The marketplace goes on meanwhile.                                      *)
(*                                                                         *)
(* One account of Mercado Livre, whose webhooks are all lost.  Dates are   *)
(* the numbers of the changes.  When a run and a retry are due (nextRunAt, *)
(* nextRetryAt) is left open; the ingestion of an order is one step (see   *)
(* OrderIngest), and an order that is listed twice is gone through once.   *)
(* A definition marked "fault" is the one below it with a plausible bug.   *)
(***************************************************************************)
EXTENDS Integers, FiniteSets

CONSTANTS
    Orders,
    Dates,        \* the date at which each was paid, 0 if it is not yet
    Instances,    \* of the backend; each runs the checkpoint once at a time (running)
    PageSize,     \* PAGE_SIZE
    MaxAttempts,  \* MAX_FAILED_ATTEMPTS
    MaxChanges,   \* bound: changes of orders at the marketplace
    MaxFaults     \* bound: failed calls and crashes

ASSUME OrdersAssumption == IsFiniteSet(Orders)
ASSUME DatesAssumption ==
    /\ Dates \in [Orders -> 0 .. Cardinality(Orders)]
    /\ \A o, p \in Orders : Dates[o] = Dates[p] => o = p \/ Dates[o] = 0
ASSUME SizesAssumption == {PageSize, MaxAttempts} \subseteq Nat \ {0}
ASSUME BoundsAssumption == {MaxChanges, MaxFaults} \subseteq Nat

VARIABLES
    market,     \* the orders at the marketplace
    local,      \* the orders in the database: the state that was ingested
    cp,         \* the checkpoint
    run,        \* runFor of each instance
    changes, faults,
    slipped,    \* history: orders that a listing missed, or a run left to a retry that
                \* another run had made
    recovered   \* history: orders ingested since their failure was saved

history == <<slipped, recovered>>
vars == <<market, local, cp, run, changes, faults, history>>

Now == Cardinality(Orders) + changes
Time == 0 .. Cardinality(Orders) + MaxChanges
Order == [status : {"none", "paid", "cancelled"},
          final : BOOLEAN,                    \* its shipping substatus is terminal
          at : Time]                          \* date_last_updated
Failed == [Orders -> 0 .. MaxAttempts]        \* attempts; 0: not among failedRefs
Checkpoint == [cursor : Time, failed : Failed, version : Nat]

Run == [pc : {"idle", "list", "ingest"},
        doc : Checkpoint,                     \* cp as it was loaded
        refs : SUBSET [id : Orders, at : Time],
        left : SUBSET Orders,                 \* refs the loop has not come to
        offset : Nat,
        failed : Failed]

NewCheckpoint == [cursor |-> 0, failed |-> [o \in Orders |-> 0], version |-> 0]
Idle == [pc |-> "idle", doc |-> NewCheckpoint, refs |-> {}, left |-> {}, offset |-> 0,
         failed |-> NewCheckpoint.failed]

Init ==
    /\ market = [o \in Orders |-> [status |-> IF Dates[o] = 0 THEN "none" ELSE "paid",
                                  final |-> FALSE, at |-> Dates[o]]]
    /\ local = [o \in Orders |-> [status |-> "none", final |-> FALSE, at |-> 0]]
    /\ cp = NewCheckpoint
    /\ run = [i \in Instances |-> Idle]
    /\ changes = 0 /\ faults = 0
    /\ slipped = {} /\ recovered = {}

Fault == faults < MaxFaults /\ faults' = faults + 1
DeadLate(attempts) == attempts > MaxAttempts                              \* fault
Dead(attempts) == attempts >= MaxAttempts
InFailed(failed) == {o \in Orders : failed[o] > 0}

-----------------------------------------------------------------------------
(* The marketplace.                                                        *)

\* An order is paid, its shipment reaches its last substatus, or it is cancelled.
Change(o) ==
    /\ changes < MaxChanges
    /\ changes' = changes + 1
    /\ \/ /\ market[o].status = "none"
          /\ market' = [market EXCEPT ![o] =
               [status |-> "paid", final |-> FALSE, at |-> Now']]
       \/ /\ market[o].status = "paid" /\ ~market[o].final
          /\ market' = [market EXCEPT ![o] = [@ EXCEPT !.final = TRUE, !.at = Now']]
       \/ /\ market[o].status = "paid"
          /\ market' = [market EXCEPT ![o] = [@ EXCEPT !.status = "cancelled", !.at = Now']]
    /\ UNCHANGED <<local, cp, run, faults, history>>

\* /orders/search, with the status getOrders asks for when it is given none.
Delta(since) == {o \in Orders : market[o].status = "paid" /\ market[o].at >= since}
Place(o, since) == Cardinality({p \in Delta(since) : market[p].at < market[o].at})
Page(since, offset) ==
    {o \in Delta(since) : Place(o, since) \in offset .. offset + PageSize - 1}

-----------------------------------------------------------------------------
(* runFor.                                                                 *)

\* tick finds the checkpoint due, and runFor loads it.
Load(i) ==
    /\ run[i].pc = "idle"
    /\ run' = [run EXCEPT ![i] =
         [Idle EXCEPT !.pc = "list", !.doc = cp, !.failed = cp.failed]]
    /\ UNCHANGED <<market, local, cp, changes, faults, history>>

MaxCursorOf(refs, fallback) ==
    IF refs = {} THEN fallback
    ELSE CHOOSE t \in {r.at : r \in refs} : \A r \in refs : r.at <= t

\* The next page of listOrdersSince.  Whoever leaves the delta between two pages moves
\* the later orders up, and one of them is on neither page.
List(i) ==
    /\ run[i].pc = "list"
    /\ LET since == run[i].doc.cursor
           page == Page(since, run[i].offset)
           refs == run[i].refs \cup {[id |-> o, at |-> market[o].at] : o \in page}
           ids == {r.id : r \in refs}
       IN IF Cardinality(page) < PageSize
          THEN /\ run' = [run EXCEPT ![i] =
                    [@ EXCEPT !.pc = "ingest", !.refs = refs, !.left = ids]]
               /\ slipped' = slipped \cup
                    {o \in Delta(since) \ ids : market[o].at <= MaxCursorOf(refs, since)}
          ELSE /\ run' = [run EXCEPT ![i] =
                    [@ EXCEPT !.refs = refs, !.offset = run[i].offset + PageSize]]
               /\ UNCHANGED slipped
    /\ UNCHANGED <<market, local, cp, changes, faults, recovered>>

\* A page cannot be had: what was listed is dropped, the cursor stays, and failed orders
\* are retried.
ListFails(i) ==
    /\ Fault
    /\ run[i].pc = "list"
    /\ run' = [run EXCEPT ![i] = [@ EXCEPT !.pc = "ingest", !.refs = {}]]
    /\ UNCHANGED <<market, local, cp, changes, history>>

\* Whose turn it is: the refs by their dates, then the failed orders that were not
\* among them and were not retried yet.
DateOf(i, o) == MaxCursorOf({r \in run[i].refs : r.id = o}, 0)
Turn(i) ==
    IF run[i].left # {}
    THEN {o \in run[i].left : \A p \in run[i].left : DateOf(i, o) <= DateOf(i, p)}
    ELSE {o \in InFailed(run[i].failed) \ {r.id : r \in run[i].refs} :
            run[i].failed[o] = run[i].doc.failed[o] /\ ~Dead(run[i].failed[o])}

\* A listed order needs ingestion if it is unknown, its status diverges from "paid",
\* its shipping may have moved, or it failed before.
DivergentOnly(o, prev) == local[o].status # "paid" \/ prev > 0           \* fault
Needed(o, prev) == local[o].status # "paid" \/ ~local[o].final \/ prev > 0

\* An order that failed before is left out once it is dead, and may be while its
\* nextRetryAt is to come.
Attempted(i, o) == LET prev == run[i].failed[o] IN
    run[i].left # {} => ~Dead(prev) /\ Needed(o, prev)

Pass(i) ==
    /\ run[i].pc = "ingest" /\ run[i].left # {}
    /\ \E o \in Turn(i) :
         /\ Attempted(i, o) => run[i].failed[o] > 0
         /\ run' = [run EXCEPT ![i].left = @ \ {o}]
         /\ slipped' = slipped \cup ({o} \cap recovered \cap InFailed(run[i].failed))
    /\ UNCHANGED <<market, local, cp, changes, faults, recovered>>

Ingest(i) ==
    /\ run[i].pc = "ingest"
    /\ \E o \in Turn(i) :
         /\ Attempted(i, o)
         /\ local' = [local EXCEPT ![o] = market[o]]
         /\ run' = [run EXCEPT ![i] =
              [@ EXCEPT !.left = run[i].left \ {o}, !.failed[o] = 0]]
         /\ recovered' = recovered \cup {o}
    /\ UNCHANGED <<market, cp, changes, faults, slipped>>

NextAttemptsDoubled(prev) == 2 * prev + 1                                 \* fault
NextAttempts(prev) == prev + 1

\* The order, or its copy in the database, cannot be had or written.
IngestFails(i) ==
    /\ Fault
    /\ run[i].pc = "ingest"
    /\ \E o \in Turn(i) :
         /\ Attempted(i, o)
         /\ run' = [run EXCEPT ![i] =
              [@ EXCEPT !.left = run[i].left \ {o},
                        !.failed[o] = NextAttempts(run[i].failed[o])]]
    /\ UNCHANGED <<market, local, cp, changes, history>>

\* Mongoose writes the fields that differ from what was loaded.  A new failedRefs array
\* is written only over the version of the document that was loaded, but the cursor
\* alone is written over any.
SavableAlways(r) == TRUE                                                  \* fault
Savable(r) == r.failed # r.doc.failed => cp.version = r.doc.version

Save(i) ==
    /\ run[i].pc = "ingest" /\ run[i].left = {}
    /\ LET r == run[i]
           cursor == MaxCursorOf(r.refs, r.doc.cursor)
           changed == r.failed # r.doc.failed
       IN IF Savable(r)
          THEN /\ cp' = [cursor |-> IF cursor # r.doc.cursor THEN cursor ELSE cp.cursor,
                         failed |-> IF changed THEN r.failed ELSE cp.failed,
                         version |-> IF changed THEN cp.version + 1 ELSE cp.version]
               /\ recovered' = recovered \ (InFailed(cp'.failed) \ InFailed(cp.failed))
          ELSE UNCHANGED <<cp, recovered>>
    /\ run' = [run EXCEPT ![i] = Idle]
    /\ UNCHANGED <<market, local, changes, faults, slipped>>

Crash(i) ==
    /\ Fault
    /\ run[i].pc # "idle"
    /\ run' = [run EXCEPT ![i] = Idle]
    /\ UNCHANGED <<market, local, cp, changes, history>>

Step(i) == Load(i) \/ List(i) \/ Pass(i) \/ Ingest(i) \/ Save(i)
Next ==
    \/ \E o \in Orders : Change(o)
    \/ \E i \in Instances : Step(i) \/ ListFails(i) \/ IngestFails(i) \/ Crash(i)

Spec == Init /\ [][Next]_vars

-----------------------------------------------------------------------------
TypeOK ==
    /\ {market, local} \subseteq [Orders -> Order]
    /\ cp \in Checkpoint
    /\ run \in [Instances -> Run]
    /\ changes \in 0 .. MaxChanges /\ faults \in 0 .. MaxFaults
    /\ {slipped, recovered} \subseteq SUBSET Orders

Behind(o) == market[o].status = "paid" /\ local[o] # market[o]

\* The cursor passes no paid order that the database does not have as it is, unless the
\* order is on record as failed, or slipped: whatever two instances save over each
\* other, wherever they crash, and whatever changes under them.
NothingIsPassedOver ==
    \A o \in Orders :
      Behind(o) /\ market[o].at < cp.cursor => o \in InFailed(cp.failed) \cup slipped

\* A failure on record is forgotten only once the order was ingested: the runs of two
\* instances do not write each other's failures away.
FailuresAreRemembered ==
    [][InFailed(cp.failed) \ InFailed(cp'.failed) \subseteq recovered]_vars

\* A dead order stays on record for someone to look at, and is not retried.
DeadRefsStay ==
    [][\A o \in Orders : cp.failed[o] = MaxAttempts => cp'.failed[o] = MaxAttempts]_vars
=============================================================================
