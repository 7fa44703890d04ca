----------------------- MODULE OrderReconcilerProofs -----------------------
(***************************************************************************)
(* For every finite set of orders, number of instances, page size and      *)
(* number of attempts: the safety properties of OrderReconciler.  No order *)
(* is passed over, and no failure forgotten, whatever runs overlap.        *)
(***************************************************************************)
EXTENDS OrderReconciler, FiniteSetTheorems, WellFoundedInduction, TLAPS

Busy(i) == run[i].pc # "idle"

\* A run whose save would be accepted: nobody has saved failures since it loaded.
Current(i) == Busy(i) /\ run[i].doc.version = cp.version

\* How far run i has come: up to there it has seen every order, or listed it.
Reach(i) == IF run[i].pc = "list" THEN run[i].doc.cursor
            ELSE MaxCursorOf(run[i].refs, run[i].doc.cursor)

\* Dates are in the past, and what the database has was once at the marketplace.
Dated ==
    /\ \A o \in Orders : market[o].at <= Now
    /\ cp.cursor <= Now
    /\ \A i \in Instances : /\ run[i].doc.cursor <= Now
                            /\ \A r \in run[i].refs : r.at <= Now
    /\ \A o \in Orders : market[o].status = "none" => local[o].status = "none"
    /\ \A o \in Orders : market[o].status = "paid" /\ local[o].status = "paid"
                           /\ local[o].final => local[o] = market[o]

\* A run differs from the checkpoint it loaded only in the orders it has tried, and
\* those it took off were ingested.
LoadedRun(i) ==
    /\ Busy(i) => run[i].doc.version <= cp.version
    /\ Current(i) => run[i].doc.failed = cp.failed
    /\ run[i].pc = "list" => run[i].left = {} /\ run[i].failed = run[i].doc.failed
    /\ \A o \in run[i].left : run[i].failed[o] = run[i].doc.failed[o]
    /\ \A o \in Orders :
         /\ Current(i) /\ run[i].doc.failed[o] > 0 /\ run[i].failed[o] = 0 => o \in recovered
         /\ Busy(i) /\ run[i].doc.failed[o] > 0 /\ o \notin recovered => cp.failed[o] > 0
         /\ Busy(i) /\ run[i].doc.failed[o] = MaxAttempts => run[i].failed[o] = MaxAttempts
Loaded == \A i \in Instances : LoadedRun(i)

\* The failure of an order is on record, and no run that could save has taken it off.
Safe(o) == /\ cp.failed[o] > 0
           /\ \A i \in Instances : Current(i) => run[i].failed[o] > 0

\* What the cursor has passed is safe.
Recorded ==
    \A o \in Orders :
        Behind(o) /\ market[o].at < cp.cursor /\ o \notin slipped => Safe(o)

\* What a run would make the cursor pass failed in the run, or is safe.
Covered ==
    \A i \in Instances, o \in Orders :
        /\ Busy(i) /\ Behind(o) /\ market[o].at < Reach(i)
        /\ o \notin run[i].left /\ o \notin slipped
        => /\ run[i].failed[o] > 0
           /\ run[i].failed[o] = run[i].doc.failed[o] => Safe(o)

Inv == TypeOK /\ Dated /\ Loaded /\ Recorded /\ Covered

-----------------------------------------------------------------------------
(* A set of natural numbers with a bound has a largest element.            *)
LEMMA LargestExists ==
  ASSUME NEW n \in Nat, NEW S \in SUBSET (0 .. n), S # {}
  PROVE  \E m \in S : \A x \in S : x <= m
<1> DEFINE T == {y \in 0 .. n : n - y \in S}
<1>1. T \subseteq Nat
  OBVIOUS
<1>2. T # {}
  <2>1. PICK x \in S : x \in 0 .. n
    OBVIOUS
  <2>2. n - x \in 0 .. n /\ n - (n - x) = x
    BY <2>1
  <2>3. n - x \in T
    BY <2>1, <2>2
  <2> QED BY <2>3
<1>3. PICK k \in T : \A y \in T : ~(<<y, k>> \in OpToRel(<, Nat))
  <2> HIDE DEF T
  <2> QED BY Zenon, <1>1, <1>2, NatLessThanWellFounded, WFMin
<1>4. \A y \in T : ~(y < k)
  BY Zenon, <1>1, <1>3 DEF OpToRel
<1>5. n - k \in S /\ k \in 0 .. n
  OBVIOUS
<1>6. ASSUME NEW x \in S PROVE x <= n - k
  <2>1. n - x \in 0 .. n /\ n - (n - x) = x
    OBVIOUS
  <2>2. n - x \in T
    BY <2>1
  <2>3. ~(n - x < k)
    BY <1>4, <2>2
  <2> QED BY <1>5, <2>1, <2>3
<1> QED BY <1>5, <1>6

(* The bounds of the model are numbers.                                    *)
LEMMA Numbers ==
  /\ Cardinality(Orders) \in Nat /\ MaxChanges \in Nat /\ MaxFaults \in Nat
  /\ MaxAttempts \in Nat \ {0} /\ PageSize \in Nat \ {0}
  /\ Time \subseteq Nat /\ 0 \in Time
  BY OrdersAssumption, SizesAssumption, BoundsAssumption, FS_CardinalityType DEF Time

(* maxCursorOf: the latest date that was listed.                           *)
LEMMA MaxCursor ==
  ASSUME NEW refs \in SUBSET [id : Orders, at : Time], NEW fallback \in Time
  PROVE  /\ MaxCursorOf(refs, fallback) \in Time
         /\ \A r \in refs : r.at <= MaxCursorOf(refs, fallback)
         /\ \/ MaxCursorOf(refs, fallback) = fallback
            \/ \E r \in refs : MaxCursorOf(refs, fallback) = r.at
<1>1. CASE refs = {}
  BY <1>1 DEF MaxCursorOf
<1>2. CASE refs # {}
  <2> DEFINE S == {r.at : r \in refs}
  <2>1. S \in SUBSET Time /\ S # {}
    BY <1>2
  <2>2. \E m \in S : \A x \in S : x <= m
    <3> DEFINE n == Cardinality(Orders) + MaxChanges
    <3>1. n \in Nat /\ S \in SUBSET (0 .. n)
      BY <2>1, Numbers DEF Time
    <3> HIDE DEF n, S
    <3> QED BY <2>1, <3>1, LargestExists
  <2>3. \E t \in S : \A r \in refs : r.at <= t
    BY <2>2
  <2>4. MaxCursorOf(refs, fallback) = CHOOSE t \in S : \A r \in refs : r.at <= t
    BY <1>2 DEF MaxCursorOf
  <2>5. MaxCursorOf(refs, fallback) \in S /\ \A r \in refs : r.at <= MaxCursorOf(refs, fallback)
    BY <2>3, <2>4
  <2> QED BY <2>1, <2>5
<1> QED BY <1>1, <1>2

-----------------------------------------------------------------------------
(* A new checkpoint and an idle run have the right types.                  *)
LEMMA InitialType == NewCheckpoint \in Checkpoint /\ Idle \in Run
<1>1. NewCheckpoint \in Checkpoint
  BY Numbers DEF NewCheckpoint, Checkpoint, Failed
<1>2. NewCheckpoint.failed \in Failed
  BY <1>1 DEF Checkpoint
<1> QED BY <1>1, <1>2 DEF Idle, Run

(* Every initial state has them.                                             *)
LEMMA InitType == Init => TypeOK
<1> SUFFICES ASSUME Init PROVE TypeOK
  OBVIOUS
<1>1. \A o \in Orders : Dates[o] \in Time
  BY Numbers, DatesAssumption DEF Time
<1>2. market \in [Orders -> Order] /\ local \in [Orders -> Order]
  BY <1>1, Numbers DEF Init, Order
<1> QED BY <1>2, InitialType, Numbers DEF Init, TypeOK

-----------------------------------------------------------------------------
(* What the steps do.                                                      *)

\* Run i has become new; nothing happened at the marketplace.
Becomes(i, new) ==
    /\ run' = [run EXCEPT ![i] = new]
    /\ market' = market /\ changes' = changes

(* A change of an order is dated now.                                      *)
LEMMA ChangeEffect ==
  ASSUME TypeOK, NEW o \in Orders, Change(o)
  PROVE  /\ market' \in [Orders -> Order] /\ changes' \in 0 .. MaxChanges
         /\ Now' = Now + 1 /\ market'[o].at = Now'
         /\ \A p \in Orders \ {o} : market'[p] = market[p]
         /\ \/ market[o].status = "none" /\ market'[o].status = "paid" /\ ~market'[o].final
            \/ /\ market[o].status = "paid" /\ ~market[o].final
               /\ market'[o].status = "paid"
            \/ market[o].status = "paid" /\ market'[o].status = "cancelled"
         /\ local' = local /\ cp' = cp /\ run' = run /\ faults' = faults
         /\ slipped' = slipped /\ recovered' = recovered
<1>1. Now' = Now + 1 /\ changes' \in 0 .. MaxChanges /\ Now' \in Time
  BY Numbers DEF TypeOK, Change, Now, Time
<1>2. /\ local' = local /\ cp' = cp /\ run' = run /\ faults' = faults
      /\ slipped' = slipped /\ recovered' = recovered
  BY DEF Change, history
<1>3. market \in [Orders -> Order] /\ market[o] \in Order
  BY DEF TypeOK
<1>4. CASE /\ market[o].status = "none"
           /\ market' = [market EXCEPT ![o] =
                [status |-> "paid", final |-> FALSE, at |-> Now']]
  BY <1>1, <1>2, <1>3, <1>4 DEF Order
<1>5. CASE /\ market[o].status = "paid" /\ ~market[o].final
           /\ market' = [market EXCEPT ![o] = [@ EXCEPT !.final = TRUE, !.at = Now']]
  BY <1>1, <1>2, <1>3, <1>5 DEF Order
<1>6. CASE /\ market[o].status = "paid"
           /\ market' = [market EXCEPT ![o] = [@ EXCEPT !.status = "cancelled", !.at = Now']]
  BY <1>1, <1>2, <1>3, <1>6 DEF Order
<1> QED BY <1>4, <1>5, <1>6 DEF Change

(* A run that loads the checkpoint has it, and nothing else.               *)
LEMMA LoadEffect ==
  ASSUME TypeOK, NEW i \in Instances, Load(i)
  PROVE  \E new \in Run :
           /\ Becomes(i, new)
           /\ new.pc = "list" /\ new.doc = cp /\ new.failed = cp.failed
           /\ new.refs = {} /\ new.left = {}
           /\ local' = local /\ cp' = cp /\ faults' = faults
           /\ slipped' = slipped /\ recovered' = recovered
<1> DEFINE new == [Idle EXCEPT !.pc = "list", !.doc = cp, !.failed = cp.failed]
<1>1. cp \in Checkpoint /\ cp.failed \in Failed
  BY DEF TypeOK, Checkpoint
<1>2. Idle.refs = {} /\ Idle.left = {}
  BY DEF Idle
<1>3. /\ new \in Run /\ new.pc = "list" /\ new.doc = cp /\ new.failed = cp.failed
      /\ new.refs = {} /\ new.left = {}
  BY <1>1, <1>2, InitialType DEF Run
<1>4. /\ run' = [run EXCEPT ![i] = new] /\ market' = market /\ changes' = changes
      /\ local' = local /\ cp' = cp /\ faults' = faults
      /\ slipped' = slipped /\ recovered' = recovered
  BY DEF Load, history
<1> HIDE DEF new
<1> QED BY <1>3, <1>4 DEF Becomes

(* A page adds orders to those listed.  The last one ends the listing, and *)
(* the orders up to the latest date are listed, or slipped.                *)
LEMMA ListEffect ==
  ASSUME TypeOK, NEW i \in Instances, List(i)
  PROVE  \E new \in Run :
           /\ Becomes(i, new)
           /\ run[i].pc = "list"
           /\ new.doc = run[i].doc /\ new.failed = run[i].failed
           /\ \A r \in new.refs : r \in run[i].refs \/ r.at = market[r.id].at
           /\ \/ new.pc = "list" /\ new.left = run[i].left /\ slipped' = slipped
              \/ /\ new.pc = "ingest"
                 /\ slipped \subseteq slipped' /\ slipped' \subseteq Orders
                 /\ \A o \in Delta(run[i].doc.cursor) \ (new.left \cup slipped') :
                      ~(market[o].at <= MaxCursorOf(new.refs, run[i].doc.cursor))
           /\ local' = local /\ cp' = cp /\ faults' = faults /\ recovered' = recovered
<1> DEFINE since == run[i].doc.cursor
           page == Page(since, run[i].offset)
           refs == run[i].refs \cup {[id |-> o, at |-> market[o].at] : o \in page}
           ids == {r.id : r \in refs}
<1>1. run[i] \in Run /\ run[i].offset \in Nat
  BY DEF TypeOK, Run
<1>2. page \subseteq Orders
  BY DEF Page, Delta
<1>3. refs \in SUBSET [id : Orders, at : Time]
  <2>1. run[i].refs \in SUBSET [id : Orders, at : Time]
    BY <1>1 DEF Run
  <2>2. \A o \in page : market[o].at \in Time
    BY <1>2 DEF TypeOK, Order
  <2> QED BY <1>2, <2>1, <2>2
<1>4. ids \in SUBSET Orders
  BY <1>3
<1>5. \A r \in refs : r \in run[i].refs \/ r.at = market[r.id].at
  OBVIOUS
<1>6. /\ market' = market /\ changes' = changes /\ run[i].pc = "list"
      /\ local' = local /\ cp' = cp /\ faults' = faults /\ recovered' = recovered
  BY DEF List
<1>7. CASE Cardinality(page) < PageSize
  <2> DEFINE new == [run[i] EXCEPT !.pc = "ingest", !.refs = refs, !.left = ids]
  <2>1. /\ run' = [run EXCEPT ![i] = new]
        /\ slipped' = slipped \cup
             {o \in Delta(since) \ ids : market[o].at <= MaxCursorOf(refs, since)}
    BY ZenonT(60), <1>7 DEF List
  <2>2. /\ new \in Run /\ new.pc = "ingest" /\ new.refs = refs /\ new.left = ids
        /\ new.doc = run[i].doc /\ new.failed = run[i].failed
    <3> HIDE DEF refs, ids
    <3> QED BY <1>1, <1>3, <1>4 DEF Run
  <2> HIDE DEF new
  <2>3. Delta(since) \subseteq Orders
    BY DEF Delta
  <2>4. slipped \subseteq slipped' /\ slipped' \subseteq Orders
    BY <2>1, <2>3 DEF TypeOK
  <2>5. \A o \in Delta(since) \ (new.left \cup slipped') :
          ~(market[o].at <= MaxCursorOf(new.refs, since))
    <3> HIDE DEF refs, ids
    <3> QED BY <2>1, <2>2
  <2>6. \A r \in new.refs : r \in run[i].refs \/ r.at = market[r.id].at
    BY <1>5, <2>2
  <2> QED BY <1>6, <2>1, <2>2, <2>4, <2>5, <2>6 DEF Becomes
<1>8. CASE ~(Cardinality(page) < PageSize)
  <2> DEFINE new == [run[i] EXCEPT !.refs = refs, !.offset = run[i].offset + PageSize]
  <2>1. run' = [run EXCEPT ![i] = new] /\ slipped' = slipped
    BY ZenonT(60), <1>8 DEF List
  <2>2. run[i].offset + PageSize \in Nat
    BY <1>1, Numbers
  <2>3. /\ new \in Run /\ new.pc = "list" /\ new.refs = refs /\ new.left = run[i].left
        /\ new.doc = run[i].doc /\ new.failed = run[i].failed
    <3> HIDE DEF refs
    <3> QED BY <1>1, <1>3, <1>6, <2>2 DEF Run
  <2> HIDE DEF new
  <2>4. \A r \in new.refs : r \in run[i].refs \/ r.at = market[r.id].at
    BY <1>5, <2>3
  <2> QED BY <1>6, <2>1, <2>3, <2>4 DEF Becomes
<1> QED BY <1>7, <1>8

(* The listing is dropped.                                                 *)
LEMMA ListFailsEffect ==
  ASSUME TypeOK, NEW i \in Instances, ListFails(i)
  PROVE  \E new \in Run :
           /\ Becomes(i, new)
           /\ run[i].pc = "list" /\ new.pc = "ingest" /\ new.refs = {}
           /\ new.left = run[i].left /\ new.doc = run[i].doc /\ new.failed = run[i].failed
           /\ local' = local /\ cp' = cp /\ slipped' = slipped /\ recovered' = recovered
<1> DEFINE new == [run[i] EXCEPT !.pc = "ingest", !.refs = {}]
<1>1. run[i] \in Run
  BY DEF TypeOK
<1>2. /\ new \in Run /\ new.pc = "ingest" /\ new.refs = {} /\ new.left = run[i].left
      /\ new.doc = run[i].doc /\ new.failed = run[i].failed
  BY <1>1 DEF Run
<1>3. run' = [run EXCEPT ![i] = new]
  BY ZenonT(60) DEF ListFails
<1>4. /\ run[i].pc = "list" /\ market' = market /\ changes' = changes
      /\ local' = local /\ cp' = cp /\ slipped' = slipped /\ recovered' = recovered
  BY DEF ListFails, history
<1> HIDE DEF new
<1> QED BY <1>2, <1>3, <1>4 DEF Becomes

(* Whose turn it is has not been tried yet.                                *)
LEMMA TurnIs ==
  ASSUME TypeOK, NEW i \in Instances, NEW o \in Turn(i)
  PROVE  /\ o \in Orders
         /\ o \in run[i].left \/ run[i].failed[o] = run[i].doc.failed[o]
         /\ run[i].left # {} => o \in run[i].left
         /\ run[i].left = {} => ~Dead(run[i].failed[o])
  BY DEF Turn, InFailed, TypeOK, Run

\* Run i has dealt with order o, which leaves `attempts` on the run's record of it.
Tried(i, o, attempts) == \E new \in Run :
    /\ Becomes(i, new)
    /\ run[i].pc = "ingest" /\ new.pc = "ingest" /\ new.refs = run[i].refs
    /\ new.left = run[i].left \ {o} /\ new.doc = run[i].doc
    /\ new.failed = [run[i].failed EXCEPT ![o] = attempts]
    /\ cp' = cp

(* An order that is passed is on the record of the run, or needs nothing.  *)
LEMMA PassEffect ==
  ASSUME TypeOK, NEW i \in Instances, Pass(i)
  PROVE  \E o \in run[i].left :
           /\ o \in Orders /\ Tried(i, o, run[i].failed[o])
           /\ Attempted(i, o) => run[i].failed[o] > 0
           /\ slipped \subseteq slipped' /\ slipped' \subseteq Orders
           /\ o \in recovered /\ run[i].failed[o] > 0 => o \in slipped'
           /\ local' = local /\ faults' = faults /\ recovered' = recovered
<1>1. PICK o \in Turn(i) :
        /\ Attempted(i, o) => run[i].failed[o] > 0
        /\ run' = [run EXCEPT ![i].left = @ \ {o}]
        /\ slipped' = slipped \cup ({o} \cap recovered \cap InFailed(run[i].failed))
  BY DEF Pass
<1>2. o \in Orders /\ o \in run[i].left
  BY <1>1, TurnIs DEF Pass
<1> DEFINE new == [run[i] EXCEPT !.left = run[i].left \ {o}]
<1>3. run[i] \in Run /\ run[i].failed \in [Orders -> 0 .. MaxAttempts]
      /\ run[i].left \subseteq Orders
  BY DEF TypeOK, Run, Failed
<1>4. run' = [run EXCEPT ![i] = new]
  BY ZenonT(60), <1>1
<1>5. run[i].failed = [run[i].failed EXCEPT ![o] = run[i].failed[o]]
  BY <1>3
<1>6. /\ new \in Run /\ new.pc = run[i].pc /\ new.refs = run[i].refs
      /\ new.left = run[i].left \ {o} /\ new.doc = run[i].doc /\ new.failed = run[i].failed
  BY <1>3 DEF Run
<1>7. /\ run[i].pc = "ingest" /\ market' = market /\ changes' = changes /\ cp' = cp
      /\ local' = local /\ faults' = faults /\ recovered' = recovered
  BY DEF Pass
<1> HIDE DEF new
<1>8. Tried(i, o, run[i].failed[o])
  BY <1>4, <1>5, <1>6, <1>7 DEF Tried, Becomes
<1>9. slipped \subseteq slipped' /\ slipped' \subseteq Orders
  BY <1>1, <1>2 DEF TypeOK
<1>10. o \in recovered /\ run[i].failed[o] > 0 => o \in slipped'
  BY <1>1, <1>2 DEF InFailed
<1> QED BY <1>1, <1>2, <1>7, <1>8, <1>9, <1>10

(* An order that is ingested is in the database as it is.                  *)
LEMMA IngestEffect ==
  ASSUME TypeOK, NEW i \in Instances, Ingest(i)
  PROVE  \E o \in Orders :
           /\ Tried(i, o, 0)
           /\ o \in run[i].left \/ run[i].failed[o] = run[i].doc.failed[o]
           /\ run[i].failed[o] < MaxAttempts
           /\ local' = [local EXCEPT ![o] = market[o]] /\ faults' = faults
           /\ slipped' = slipped /\ recovered' = recovered \cup {o}
<1>1. PICK o \in Turn(i) :
        /\ Attempted(i, o)
        /\ local' = [local EXCEPT ![o] = market[o]]
        /\ run' = [run EXCEPT ![i] =
             [@ EXCEPT !.left = run[i].left \ {o}, !.failed[o] = 0]]
        /\ recovered' = recovered \cup {o}
  BY DEF Ingest
<1>2. o \in Orders /\ (o \in run[i].left \/ run[i].failed[o] = run[i].doc.failed[o])
  BY <1>1, TurnIs
<1>3. run[i] \in Run /\ run[i].failed \in [Orders -> 0 .. MaxAttempts]
      /\ run[i].left \subseteq Orders
  BY DEF TypeOK, Run, Failed
<1>4. run[i].failed[o] < MaxAttempts
  BY <1>1, <1>2, <1>3, TurnIs, Numbers DEF Attempted, Dead
<1> DEFINE failed == [run[i].failed EXCEPT ![o] = 0]
           new == [run[i] EXCEPT !.left = run[i].left \ {o}, !.failed = failed]
<1>5. failed \in Failed
  <2>1. 0 \in 0 .. MaxAttempts
    BY Numbers
  <2> QED BY <1>3, <2>1 DEF Failed
<1>6. run' = [run EXCEPT ![i] = new]
  BY <1>1, <1>3 DEF Run
<1>7. /\ new \in Run /\ new.pc = run[i].pc /\ new.refs = run[i].refs
      /\ new.left = run[i].left \ {o} /\ new.doc = run[i].doc /\ new.failed = failed
  <2> HIDE DEF failed
  <2> QED BY <1>3, <1>5 DEF Run
<1>8. /\ run[i].pc = "ingest" /\ market' = market /\ changes' = changes /\ cp' = cp
      /\ faults' = faults /\ slipped' = slipped
  BY DEF Ingest
<1>9. Tried(i, o, 0)
  <2> HIDE DEF new
  <2> QED BY <1>6, <1>7, <1>8 DEF Tried, Becomes
<1> QED BY <1>1, <1>2, <1>4, <1>8, <1>9

(* An order that fails has one attempt more.                               *)
LEMMA IngestFailsEffect ==
  ASSUME TypeOK, NEW i \in Instances, IngestFails(i)
  PROVE  \E o \in Orders :
           /\ Tried(i, o, run[i].failed[o] + 1)
           /\ o \in run[i].left \/ run[i].failed[o] = run[i].doc.failed[o]
           /\ run[i].failed[o] < MaxAttempts
           /\ local' = local /\ slipped' = slipped /\ recovered' = recovered
<1>1. PICK o \in Turn(i) :
        /\ Attempted(i, o)
        /\ run' = [run EXCEPT ![i] =
             [@ EXCEPT !.left = run[i].left \ {o},
                       !.failed[o] = NextAttempts(run[i].failed[o])]]
  BY DEF IngestFails
<1>2. o \in Orders /\ (o \in run[i].left \/ run[i].failed[o] = run[i].doc.failed[o])
  BY <1>1, TurnIs
<1>3. run[i] \in Run /\ run[i].failed \in [Orders -> 0 .. MaxAttempts]
      /\ run[i].left \subseteq Orders
  BY DEF TypeOK, Run, Failed
<1>4. run[i].failed[o] < MaxAttempts
  BY <1>1, <1>2, <1>3, TurnIs, Numbers DEF Attempted, Dead
<1> DEFINE failed == [run[i].failed EXCEPT ![o] = run[i].failed[o] + 1]
           new == [run[i] EXCEPT !.left = run[i].left \ {o}, !.failed = failed]
<1>5. failed \in Failed
  BY <1>2, <1>3, <1>4, Numbers DEF Failed
<1>6. run' = [run EXCEPT ![i] = new]
  BY <1>1, <1>3 DEF Run, NextAttempts
<1>7. /\ new \in Run /\ new.pc = run[i].pc /\ new.refs = run[i].refs
      /\ new.left = run[i].left \ {o} /\ new.doc = run[i].doc /\ new.failed = failed
  <2> HIDE DEF failed
  <2> QED BY <1>3, <1>5 DEF Run
<1>8. /\ run[i].pc = "ingest" /\ market' = market /\ changes' = changes /\ cp' = cp
      /\ local' = local /\ slipped' = slipped /\ recovered' = recovered
  BY DEF IngestFails, history
<1>9. Tried(i, o, run[i].failed[o] + 1)
  <2> HIDE DEF new
  <2> QED BY <1>6, <1>7, <1>8 DEF Tried, Becomes
<1> QED BY <1>2, <1>4, <1>8, <1>9

(* A save is refused, or writes failures over those the run had loaded, or *)
(* writes none; and it writes how far the run has come, or leaves that.    *)
LEMMA SaveEffect ==
  ASSUME TypeOK, NEW i \in Instances, Save(i)
  PROVE  /\ Becomes(i, Idle) /\ run[i].pc = "ingest" /\ run[i].left = {}
         /\ local' = local /\ faults' = faults /\ slipped' = slipped
         /\ cp' \in Checkpoint
         /\ cp'.cursor \in {Reach(i), cp.cursor}
         /\ \/ cp' = cp /\ recovered' = recovered
            \/ /\ run[i].failed = run[i].doc.failed
               /\ cp'.failed = cp.failed /\ cp'.version = cp.version
               /\ recovered' = recovered
            \/ /\ cp.version = run[i].doc.version
               /\ cp'.failed = run[i].failed /\ cp'.version = cp.version + 1
               /\ recovered' \subseteq recovered
               /\ \A o \in recovered \ recovered' : cp'.failed[o] > 0
<1> DEFINE cursor == MaxCursorOf(run[i].refs, run[i].doc.cursor)
           changed == run[i].failed # run[i].doc.failed
           new == [cursor |-> IF cursor # run[i].doc.cursor THEN cursor ELSE cp.cursor,
                   failed |-> IF changed THEN run[i].failed ELSE cp.failed,
                   version |-> IF changed THEN cp.version + 1 ELSE cp.version]
<1>1. /\ Becomes(i, Idle) /\ run[i].pc = "ingest" /\ run[i].left = {}
      /\ local' = local /\ faults' = faults /\ slipped' = slipped
  BY DEF Save, Becomes
<1>2. /\ run[i] \in Run /\ cp \in Checkpoint /\ cp.version \in Nat
      /\ run[i].doc \in Checkpoint /\ run[i].failed \in Failed /\ cp.failed \in Failed
      /\ run[i].doc.cursor \in Time /\ cp.cursor \in Time
      /\ run[i].refs \in SUBSET [id : Orders, at : Time]
  BY DEF TypeOK, Run, Checkpoint
<1>3. cursor \in Time /\ Reach(i) = cursor
  BY <1>1, <1>2, MaxCursor DEF Reach
<1>4. new \in Checkpoint /\ new.cursor \in {Reach(i), cp.cursor}
  <2> HIDE DEF cursor, changed
  <2> QED BY <1>2, <1>3 DEF Checkpoint
<1>5. CASE ~Savable(run[i])
  <2>1. cp' = cp /\ recovered' = recovered
    BY ZenonT(60), <1>5 DEF Save
  <2> QED BY <1>1, <1>2, <2>1
<1>6. CASE Savable(run[i])
  <2>1. /\ cp' = new
        /\ recovered' = recovered \ (InFailed(cp'.failed) \ InFailed(cp.failed))
    BY ZenonT(60), <1>6 DEF Save
  <2>2. CASE changed
    <3>1. cp.version = run[i].doc.version
      BY <1>6, <2>2 DEF Savable
    <3>2. cp'.failed = run[i].failed /\ cp'.version = cp.version + 1
      BY <2>1, <2>2
    <3>3. recovered' \subseteq recovered /\ \A o \in recovered \ recovered' : cp'.failed[o] > 0
      BY <2>1 DEF InFailed
    <3> QED BY <1>1, <1>4, <2>1, <3>1, <3>2, <3>3
  <2>3. CASE ~changed
    <3>1. cp'.failed = cp.failed /\ cp'.version = cp.version
      BY <2>1, <2>3
    <3>2. recovered' = recovered
      BY <2>1, <3>1
    <3> QED BY <1>1, <1>4, <2>1, <2>3, <3>1, <3>2
  <2> QED BY <2>2, <2>3
<1> QED BY <1>5, <1>6

(* A run that dies leaves the checkpoint as it was.                        *)
LEMMA CrashEffect ==
  ASSUME TypeOK, NEW i \in Instances, Crash(i)
  PROVE  /\ Becomes(i, Idle)
         /\ local' = local /\ cp' = cp /\ slipped' = slipped /\ recovered' = recovered
  BY DEF Crash, Becomes, history

\* All the steps.
Steps == \/ \E o \in Orders : Change(o)
         \/ \E i \in Instances : \/ Load(i) \/ List(i) \/ ListFails(i) \/ Pass(i)
                                 \/ Ingest(i) \/ IngestFails(i) \/ Save(i) \/ Crash(i)

(* They are all the steps there are.                                       *)
LEMMA NextSteps == Next => Steps
  BY DEF Next, Step, Steps

-----------------------------------------------------------------------------
(* Every step keeps the types.                                             *)
LEMMA NextType == TypeOK /\ Steps => TypeOK'
<1> SUFFICES ASSUME TypeOK, Steps PROVE TypeOK'
  OBVIOUS
<1>1. faults' \in 0 .. MaxFaults
  <2>1. faults' = faults \/ Fault
    BY DEF Steps, Change, Load, List, ListFails, Pass, Ingest, IngestFails, Save, Crash
  <2> QED BY <2>1, Numbers DEF TypeOK, Fault
<1>2. ASSUME NEW o \in Orders, Change(o) PROVE TypeOK'
  BY <1>1, <1>2, ChangeEffect DEF TypeOK
<1>3. ASSUME NEW i \in Instances, NEW new \in Run, Becomes(i, new)
      PROVE  /\ run' \in [Instances -> Run] /\ market' \in [Orders -> Order]
             /\ changes' \in 0 .. MaxChanges
  BY <1>3 DEF TypeOK, Becomes
<1>4. ASSUME NEW i \in Instances, Load(i) PROVE TypeOK'
  BY <1>1, <1>3, <1>4, LoadEffect DEF TypeOK
<1>5. ASSUME NEW i \in Instances, List(i) PROVE TypeOK'
  BY <1>1, <1>3, <1>5, ListEffect DEF TypeOK
<1>6. ASSUME NEW i \in Instances, ListFails(i) PROVE TypeOK'
  BY <1>1, <1>3, <1>6, ListFailsEffect DEF TypeOK
<1>7. ASSUME NEW i \in Instances, Pass(i) PROVE TypeOK'
  <2>1. PICK o \in run[i].left :
          /\ o \in Orders /\ Tried(i, o, run[i].failed[o]) /\ slipped' \subseteq Orders
          /\ local' = local /\ recovered' = recovered
    BY <1>7, PassEffect
  <2> QED BY <1>1, <1>3, <2>1 DEF TypeOK, Tried
<1>8. ASSUME NEW i \in Instances, Ingest(i) PROVE TypeOK'
  <2>1. PICK o \in Orders :
          /\ Tried(i, o, 0) /\ local' = [local EXCEPT ![o] = market[o]]
          /\ slipped' = slipped /\ recovered' = recovered \cup {o}
    BY <1>8, IngestEffect
  <2>2. local' \in [Orders -> Order]
    BY <2>1 DEF TypeOK
  <2> QED BY <1>1, <1>3, <2>1, <2>2 DEF TypeOK, Tried
<1>9. ASSUME NEW i \in Instances, IngestFails(i) PROVE TypeOK'
  <2>1. PICK o \in Orders :
          /\ Tried(i, o, run[i].failed[o] + 1)
          /\ local' = local /\ slipped' = slipped /\ recovered' = recovered
    BY <1>9, IngestFailsEffect
  <2> QED BY <1>1, <1>3, <2>1 DEF TypeOK, Tried
<1>10. ASSUME NEW i \in Instances, Save(i) PROVE TypeOK'
  <2>1. /\ Becomes(i, Idle) /\ cp' \in Checkpoint /\ local' = local /\ slipped' = slipped
        /\ recovered' \subseteq recovered
    BY <1>10, SaveEffect
  <2> QED BY <1>1, <1>3, <2>1, InitialType DEF TypeOK
<1>11. ASSUME NEW i \in Instances, Crash(i) PROVE TypeOK'
  BY <1>1, <1>3, <1>11, CrashEffect, InitialType DEF TypeOK
<1> QED BY <1>2, <1>4, <1>5, <1>6, <1>7, <1>8, <1>9, <1>10, <1>11 DEF Steps

(* What a run becomes is all that changes in the runs, and the clock does  *)
(* not advance.                                                            *)
LEMMA BecomesEffect ==
  ASSUME TypeOK, NEW i \in Instances, NEW new, Becomes(i, new)
  PROVE  /\ run'[i] = new /\ \A j \in Instances \ {i} : run'[j] = run[j]
         /\ market' = market /\ Now' = Now
  BY DEF TypeOK, Becomes, Now

(* How far a run has come is never in the future.                          *)
LEMMA ReachNow ==
  ASSUME TypeOK, Dated, NEW i \in Instances
  PROVE  Reach(i) \in Time /\ Reach(i) <= Now
<1>1. /\ run[i].refs \in SUBSET [id : Orders, at : Time] /\ run[i].doc.cursor \in Time
  BY DEF TypeOK, Run, Checkpoint
<1> QED BY <1>1, MaxCursor DEF Reach, Dated

(* Dates stay in the past, and the database behind the marketplace.        *)
LEMMA NextDated == TypeOK /\ Dated /\ Steps => Dated'
<1> SUFFICES ASSUME TypeOK, Dated, Steps PROVE Dated'
  OBVIOUS
<1> /\ Now \in Nat /\ \A p \in Orders : market[p].at \in Nat
    /\ cp.cursor \in Nat /\ \A j \in Instances : /\ run[j].doc.cursor \in Nat
                                                 /\ \A r \in run[j].refs : r.at \in Nat
  BY Numbers DEF TypeOK, Now, Order, Checkpoint, Run
<1>1. ASSUME NEW o \in Orders, Change(o) PROVE Dated'
  <2>1. /\ Now' = Now + 1 /\ market'[o].at = Now' /\ local' = local /\ cp' = cp /\ run' = run
        /\ \A p \in Orders \ {o} : market'[p] = market[p]
        /\ \/ market[o].status = "none" /\ market'[o].status = "paid"
           \/ market[o].status = "paid" /\ ~market[o].final /\ market'[o].status = "paid"
           \/ market[o].status = "paid" /\ market'[o].status = "cancelled"
    BY <1>1, ChangeEffect
  <2>2. /\ \A p \in Orders : market'[p].at <= Now'
        /\ cp'.cursor <= Now'
        /\ \A j \in Instances : /\ run'[j].doc.cursor <= Now'
                                /\ \A r \in run'[j].refs : r.at <= Now'
    BY <2>1 DEF Dated
  <2>3. market'[o].status # "none"
    BY <2>1
  <2>4. market'[o].status = "paid" => local[o].status # "paid" \/ ~local[o].final
    BY <2>1 DEF Dated
  <2> QED BY <2>1, <2>2, <2>3, <2>4 DEF Dated
<1>2. ASSUME NEW i \in Instances, NEW new \in Run, Becomes(i, new), cp'.cursor <= Now,
             new.doc.cursor <= Now, \A r \in new.refs : r.at <= Now,
             \A p \in Orders : local'[p] = local[p] \/ local'[p] = market[p]
      PROVE  Dated'
  BY <1>2, BecomesEffect DEF Dated
<1>3. /\ Idle \in Run /\ Idle.doc.cursor <= Now /\ Idle.refs = {}
  BY InitialType DEF Idle, NewCheckpoint
<1>4. ASSUME NEW i \in Instances, Load(i) PROVE Dated'
  BY <1>2, <1>4, LoadEffect DEF Dated
<1>5. ASSUME NEW i \in Instances, List(i) PROVE Dated'
  <2>1. PICK new \in Run :
          /\ Becomes(i, new) /\ new.doc = run[i].doc
          /\ \A r \in new.refs : r \in run[i].refs \/ r.at = market[r.id].at
          /\ local' = local /\ cp' = cp
    BY <1>5, ListEffect
  <2>2. \A r \in new.refs : r.id \in Orders
    BY DEF Run
  <2> QED BY <1>2, <2>1, <2>2 DEF Dated
<1>6. ASSUME NEW i \in Instances, ListFails(i) PROVE Dated'
  BY <1>2, <1>6, ListFailsEffect DEF Dated
<1>7. ASSUME NEW i \in Instances, NEW o \in Orders, NEW n, Tried(i, o, n),
             \A p \in Orders : local'[p] = local[p] \/ local'[p] = market[p]
      PROVE  Dated'
  BY <1>2, <1>7 DEF Dated, Tried
<1>8. ASSUME NEW i \in Instances, Pass(i) PROVE Dated'
  BY <1>7, <1>8, PassEffect
<1>9. ASSUME NEW i \in Instances, Ingest(i) PROVE Dated'
  <2>1. PICK o \in Orders : Tried(i, o, 0) /\ local' = [local EXCEPT ![o] = market[o]]
    BY <1>9, IngestEffect
  <2>2. \A p \in Orders : local'[p] = local[p] \/ local'[p] = market[p]
    BY <2>1 DEF TypeOK
  <2> QED BY <1>7, <2>1, <2>2
<1>10. ASSUME NEW i \in Instances, IngestFails(i) PROVE Dated'
  BY <1>7, <1>10, IngestFailsEffect
<1>11. ASSUME NEW i \in Instances, Save(i) PROVE Dated'
  <2>1. cp'.cursor <= Now /\ Becomes(i, Idle) /\ local' = local
    BY <1>11, SaveEffect, ReachNow DEF Dated
  <2> QED BY <1>2, <1>3, <2>1
<1>12. ASSUME NEW i \in Instances, Crash(i) PROVE Dated'
  BY <1>2, <1>3, <1>12, CrashEffect DEF Dated
<1> QED BY <1>1, <1>4, <1>5, <1>6, <1>8, <1>9, <1>10, <1>11, <1>12 DEF Steps

(* A run that others leave alone differs from the checkpoint as before.    *)
LEMMA LoadedFrame ==
  ASSUME NEW j \in Instances, LoadedRun(j), run'[j] = run[j], cp' = cp,
         recovered \subseteq recovered'
  PROVE  LoadedRun(j)'
  BY DEF LoadedRun, Current, Busy

(* A run differs from its checkpoint only in what it has tried.            *)
LEMMA NextLoaded == TypeOK /\ Loaded /\ Steps => Loaded'
<1> SUFFICES ASSUME TypeOK, Loaded, Steps PROVE Loaded'
  OBVIOUS
<1> /\ cp \in Checkpoint /\ cp.version \in Nat /\ cp.failed \in Failed
    /\ \A j \in Instances : /\ run[j] \in Run /\ run[j].failed \in Failed
                            /\ run[j].doc \in Checkpoint /\ run[j].doc.version \in Nat
                            /\ run[j].doc.failed \in Failed /\ run[j].left \subseteq Orders
  BY DEF TypeOK, Checkpoint, Run
<1>1. ASSUME NEW o \in Orders, Change(o) PROVE Loaded'
  BY <1>1, ChangeEffect, LoadedFrame DEF Loaded
<1>2. ASSUME NEW i \in Instances, NEW new, Becomes(i, new), cp' = cp,
             recovered \subseteq recovered', LoadedRun(i)'
      PROVE  Loaded'
  BY <1>2, BecomesEffect, LoadedFrame DEF Loaded
<1>4. ASSUME NEW i \in Instances, Load(i) PROVE Loaded'
  <2>1. PICK new \in Run :
          /\ Becomes(i, new) /\ new.pc = "list" /\ new.doc = cp /\ new.failed = cp.failed
          /\ new.left = {} /\ cp' = cp /\ recovered' = recovered
    BY <1>4, LoadEffect
  <2>2. run'[i] = new
    BY <2>1, BecomesEffect
  <2>3. LoadedRun(i)'
    BY <2>1, <2>2 DEF LoadedRun, Current, Busy, Failed
  <2> QED BY <1>2, <2>1, <2>3
<1>5. ASSUME NEW i \in Instances, List(i) PROVE Loaded'
  <2>1. PICK new \in Run :
          /\ Becomes(i, new) /\ run[i].pc = "list"
          /\ new.doc = run[i].doc /\ new.failed = run[i].failed
          /\ (new.pc = "list" /\ new.left = run[i].left) \/ new.pc = "ingest"
          /\ cp' = cp /\ recovered' = recovered
    BY <1>5, ListEffect
  <2>2. run'[i] = new /\ run[i].failed = run[i].doc.failed
    BY <2>1, BecomesEffect DEF Loaded, LoadedRun
  <2>3. LoadedRun(i)'
    BY <2>1, <2>2 DEF Loaded, LoadedRun, Current, Busy
  <2> QED BY <1>2, <2>1, <2>3
<1>6. ASSUME NEW i \in Instances, ListFails(i) PROVE Loaded'
  <2>1. PICK new \in Run :
          /\ Becomes(i, new) /\ run[i].pc = "list" /\ new.pc = "ingest"
          /\ new.doc = run[i].doc /\ new.failed = run[i].failed /\ new.left = run[i].left
          /\ cp' = cp /\ recovered' = recovered
    BY <1>6, ListFailsEffect
  <2>2. run'[i] = new
    BY <2>1, BecomesEffect
  <2>3. LoadedRun(i)'
    BY <2>1, <2>2 DEF Loaded, LoadedRun, Current, Busy
  <2> QED BY <1>2, <2>1, <2>3
<1>7. ASSUME NEW i \in Instances, NEW o \in Orders, NEW n \in 0 .. MaxAttempts,
             Tried(i, o, n), recovered \subseteq recovered',
             run[i].failed[o] = MaxAttempts => n = MaxAttempts,
             n = 0 /\ run[i].failed[o] > 0 => o \in recovered'
      PROVE  Loaded'
  <2>1. PICK new \in Run :
          /\ Becomes(i, new) /\ run[i].pc = "ingest" /\ new.pc = "ingest"
          /\ new.left = run[i].left \ {o} /\ new.doc = run[i].doc
          /\ new.failed = [run[i].failed EXCEPT ![o] = n]
          /\ cp' = cp
    BY <1>7 DEF Tried
  <2>2. run'[i] = new
    BY <2>1, BecomesEffect
  <2>3. new.failed[o] = n /\ \A p \in Orders \ {o} : new.failed[p] = run[i].failed[p]
    BY <2>1 DEF Failed
  <2>4. run[i].failed[o] \in Nat /\ run[i].doc.failed[o] \in Nat
    BY Numbers DEF Failed
  <2>5. /\ LoadedRun(i) /\ Busy(i) /\ Busy(i)' /\ (Current(i)' <=> Current(i))
        /\ run'[i].doc = run[i].doc /\ run'[i].pc # "list"
    BY <2>1, <2>2 DEF Loaded, Current, Busy
  <2>6. \A p \in run'[i].left : run'[i].failed[p] = run'[i].doc.failed[p]
    BY <2>1, <2>2, <2>3, <2>5 DEF LoadedRun
  <2>7. ASSUME NEW p \in Orders
        PROVE  /\ Current(i) /\ run[i].doc.failed[p] > 0 /\ run'[i].failed[p] = 0
                    => p \in recovered'
               /\ run[i].doc.failed[p] = MaxAttempts => run'[i].failed[p] = MaxAttempts
    <3>1. CASE p = o
      BY <1>7, <2>2, <2>3, <2>4, <2>5, <3>1 DEF LoadedRun
    <3>2. CASE p # o
      BY <1>7, <2>2, <2>3, <2>5, <3>2 DEF LoadedRun
    <3> QED BY <3>1, <3>2
  <2>8. LoadedRun(i)'
    BY <1>7, <2>1, <2>5, <2>6, <2>7 DEF LoadedRun, Current
  <2> QED BY <1>2, <1>7, <2>1, <2>8
<1>8. ASSUME NEW i \in Instances, Pass(i) PROVE Loaded'
  BY <1>7, <1>8, PassEffect DEF Failed
<1>9. ASSUME NEW i \in Instances, Ingest(i) PROVE Loaded'
  <2>1. PICK o \in Orders : /\ Tried(i, o, 0) /\ run[i].failed[o] < MaxAttempts
                            /\ recovered' = recovered \cup {o}
    BY <1>9, IngestEffect
  <2>2. 0 \in 0 .. MaxAttempts /\ run[i].failed[o] # MaxAttempts
    BY <2>1, Numbers DEF Failed
  <2> QED BY <1>7, <2>1, <2>2
<1>10. ASSUME NEW i \in Instances, IngestFails(i) PROVE Loaded'
  <2>1. PICK o \in Orders : /\ Tried(i, o, run[i].failed[o] + 1)
                            /\ run[i].failed[o] < MaxAttempts /\ recovered' = recovered
    BY <1>10, IngestFailsEffect
  <2>2. /\ run[i].failed[o] + 1 \in 0 .. MaxAttempts /\ run[i].failed[o] # MaxAttempts
        /\ run[i].failed[o] + 1 # 0
    BY <2>1, Numbers DEF Failed
  <2> QED BY <1>7, <2>1, <2>2
<1>11. Idle.pc = "idle" /\ Idle.left = {}
  BY DEF Idle
<1>12. ASSUME NEW i \in Instances, Crash(i) PROVE Loaded'
  <2>1. run'[i] = Idle /\ Becomes(i, Idle) /\ cp' = cp /\ recovered' = recovered
    BY <1>12, CrashEffect, BecomesEffect
  <2>2. LoadedRun(i)'
    BY <1>11, <2>1 DEF LoadedRun, Current, Busy
  <2> QED BY <1>2, <2>1, <2>2
<1>13. ASSUME NEW i \in Instances, Save(i) PROVE Loaded'
  <2>1. run'[i] = Idle /\ \A j \in Instances \ {i} : run'[j] = run[j]
    BY <1>13, SaveEffect, BecomesEffect
  <2>2. LoadedRun(i)'
    BY <1>11, <2>1 DEF LoadedRun, Current, Busy
  <2>3. ASSUME NEW j \in Instances \ {i} PROVE LoadedRun(j)'
    <3>1. CASE cp' = cp /\ recovered' = recovered
      BY <2>1, <3>1, LoadedFrame DEF Loaded
    <3>2. CASE /\ cp'.failed = cp.failed /\ cp'.version = cp.version
               /\ recovered' = recovered
      BY <2>1, <3>2 DEF Loaded, LoadedRun, Current, Busy
    <3>3. CASE /\ cp.version = run[i].doc.version
               /\ cp'.failed = run[i].failed /\ cp'.version = cp.version + 1
               /\ recovered' \subseteq recovered
               /\ \A o \in recovered \ recovered' : cp'.failed[o] > 0
      <4>1. LoadedRun(i) /\ LoadedRun(j) /\ run[i].pc = "ingest"
        BY <1>13, SaveEffect DEF Loaded
      <4>2. ~Current(j)'
        BY <2>1, <3>3, <4>1 DEF LoadedRun, Current, Busy
      <4>3. ASSUME NEW o \in Orders, cp.failed[o] > 0, o \notin recovered'
            PROVE  cp'.failed[o] > 0
        <5>1. CASE o \in recovered
          BY <3>3, <4>3, <5>1
        <5>2. CASE o \notin recovered
          <6>1. run[i].doc.failed = cp.failed
            BY <3>3, <4>1 DEF LoadedRun, Current, Busy
          <6>2. run[i].failed[o] # 0
            BY <3>3, <4>1, <4>3, <5>2, <6>1 DEF LoadedRun, Current, Busy
          <6> QED BY <3>3, <6>2, Numbers DEF Failed
        <5> QED BY <5>1, <5>2
      <4>4. ASSUME NEW o \in Orders, Busy(j), run[j].doc.failed[o] > 0, o \notin recovered'
            PROVE  cp'.failed[o] > 0
        <5>1. o \in recovered \/ cp.failed[o] > 0
          BY <4>1, <4>4 DEF LoadedRun
        <5> QED BY <3>3, <4>3, <4>4, <5>1
      <4> QED BY <2>1, <3>3, <4>1, <4>2, <4>4 DEF LoadedRun, Busy
    <3> QED BY <1>13, <3>1, <3>2, <3>3, SaveEffect
  <2> QED BY <2>2, <2>3 DEF Loaded
<1> QED BY <1>1, <1>4, <1>5, <1>6, <1>8, <1>9, <1>10, <1>12, <1>13 DEF Steps

-----------------------------------------------------------------------------
(* A step that is not the order's own change leaves it at the marketplace, *)
(* and takes it to the database as it is or not at all.                    *)
LEMMA LocalFollows ==
  ASSUME TypeOK, NEW i \in Instances, NEW o \in Orders,
         \/ Load(i) \/ List(i) \/ ListFails(i) \/ Pass(i)
         \/ Ingest(i) \/ IngestFails(i) \/ Save(i) \/ Crash(i)
  PROVE  market' = market /\ (local'[o] = local[o] \/ local'[o] = market[o])
  BY DEF TypeOK, Load, List, ListFails, Pass, Ingest, IngestFails, Save, Crash

(* An order that is behind, and was last changed in the past, was behind.  *)
LEMMA BehindBefore ==
  ASSUME TypeOK, Steps, NEW o \in Orders, Behind(o)', NEW t \in Time, t <= Now,
         market'[o].at < t
  PROVE  market'[o] = market[o] /\ Behind(o)
<1>1. Now \in Nat /\ t \in Nat
  BY Numbers DEF TypeOK, Now
<1>2. CASE Change(o)
  BY <1>1, <1>2, ChangeEffect
<1>3. ASSUME NEW p \in Orders \ {o}, Change(p) PROVE market'[o] = market[o] /\ Behind(o)
  BY <1>3, ChangeEffect DEF Behind
<1>4. ASSUME NEW i \in Instances,
             \/ Load(i) \/ List(i) \/ ListFails(i) \/ Pass(i)
             \/ Ingest(i) \/ IngestFails(i) \/ Save(i) \/ Crash(i)
      PROVE  market'[o] = market[o] /\ Behind(o)
  BY <1>4, LocalFollows DEF Behind
<1> QED BY <1>2, <1>3, <1>4 DEF Steps

(* While an order stays behind, its failure stays on record, and no run    *)
(* that could save takes it off.                                           *)
LEMMA SafeStays ==
  ASSUME TypeOK, Loaded, Steps, NEW o \in Orders, Safe(o), Behind(o)'
  PROVE  Safe(o)'
<1> /\ cp \in Checkpoint /\ cp.version \in Nat /\ cp.failed \in Failed
    /\ \A j \in Instances : /\ run[j] \in Run /\ run[j].failed \in Failed
                            /\ run[j].doc.version \in Nat
  BY DEF TypeOK, Checkpoint, Run
<1>1. ASSUME NEW p \in Orders, Change(p) PROVE Safe(o)'
  BY <1>1, ChangeEffect DEF Safe, Current, Busy
<1>2. ASSUME NEW i \in Instances, NEW new, Becomes(i, new), cp' = cp,
             new.pc # "idle" /\ new.doc.version = cp.version => new.failed[o] > 0
      PROVE  Safe(o)'
  BY <1>2, BecomesEffect DEF Safe, Current, Busy
<1>3. ASSUME NEW i \in Instances, Load(i) PROVE Safe(o)'
  BY <1>2, <1>3, LoadEffect DEF Safe
<1>4. ASSUME NEW i \in Instances, List(i) PROVE Safe(o)'
  <2>1. PICK new \in Run : /\ Becomes(i, new) /\ run[i].pc = "list" /\ cp' = cp
                           /\ new.doc = run[i].doc /\ new.failed = run[i].failed
    BY <1>4, ListEffect
  <2> QED BY <1>2, <2>1 DEF Safe, Current, Busy
<1>5. ASSUME NEW i \in Instances, ListFails(i) PROVE Safe(o)'
  <2>1. PICK new \in Run : /\ Becomes(i, new) /\ run[i].pc = "list" /\ cp' = cp
                           /\ new.doc = run[i].doc /\ new.failed = run[i].failed
    BY <1>5, ListFailsEffect
  <2> QED BY <1>2, <2>1 DEF Safe, Current, Busy
<1>6. ASSUME NEW i \in Instances, NEW p \in Orders, NEW n, Tried(i, p, n),
             p = o /\ run[i].failed[o] > 0 => n > 0
      PROVE  Safe(o)'
  <2>1. PICK new \in Run : /\ Becomes(i, new) /\ run[i].pc = "ingest" /\ cp' = cp
                           /\ new.doc = run[i].doc
                           /\ new.failed = [run[i].failed EXCEPT ![p] = n]
    BY <1>6 DEF Tried
  <2>2. new.failed[o] = IF p = o THEN n ELSE run[i].failed[o]
    BY <2>1 DEF Failed
  <2> QED BY <1>2, <1>6, <2>1, <2>2 DEF Safe, Current, Busy
<1>7. ASSUME NEW i \in Instances, Pass(i) PROVE Safe(o)'
  BY <1>6, <1>7, PassEffect
<1>8. ASSUME NEW i \in Instances, Ingest(i) PROVE Safe(o)'
  <2>1. PICK p \in Orders : Tried(i, p, 0) /\ local' = [local EXCEPT ![p] = market[p]]
    BY <1>8, IngestEffect
  <2>2. p # o
    <3>1. market' = market
      BY <1>8, LocalFollows
    <3> QED BY <2>1, <3>1 DEF Behind, TypeOK
  <2> QED BY <1>6, <2>1, <2>2
<1>9. ASSUME NEW i \in Instances, IngestFails(i) PROVE Safe(o)'
  <2>1. PICK p \in Orders : Tried(i, p, run[i].failed[p] + 1)
    BY <1>9, IngestFailsEffect
  <2>2. run[i].failed[p] + 1 > 0
    BY Numbers DEF Failed
  <2> QED BY <1>6, <2>1, <2>2
<1>10. ASSUME NEW i \in Instances, Crash(i) PROVE Safe(o)'
  BY <1>2, <1>10, CrashEffect DEF Idle
<1>11. ASSUME NEW i \in Instances, Save(i) PROVE Safe(o)'
  <2>1. run'[i].pc = "idle" /\ \A j \in Instances \ {i} : run'[j] = run[j]
    BY <1>11, SaveEffect, BecomesEffect DEF Idle
  <2>2. CASE cp' = cp \/ (cp'.failed = cp.failed /\ cp'.version = cp.version)
    BY <2>1, <2>2 DEF Safe, Current, Busy
  <2>3. CASE /\ cp.version = run[i].doc.version
             /\ cp'.failed = run[i].failed /\ cp'.version = cp.version + 1
    <3>1. Current(i) /\ \A j \in Instances \ {i} : ~Current(j)'
      BY <1>11, <2>1, <2>3, SaveEffect DEF Loaded, LoadedRun, Current, Busy
    <3> QED BY <2>1, <2>3, <3>1 DEF Safe, Current, Busy
  <2> QED BY <1>11, <2>2, <2>3, SaveEffect
<1> QED BY <1>1, <1>3, <1>4, <1>5, <1>7, <1>8, <1>9, <1>10, <1>11 DEF Steps

(* Only a save moves the cursor, and slipped orders are never forgotten.   *)
LEMMA CursorMoves ==
  ASSUME TypeOK, Steps
  PROVE  /\ slipped \subseteq slipped'
         /\ cp' = cp \/ \E i \in Instances : Save(i)
<1>1. slipped \subseteq slipped'
  <2>1. ASSUME NEW i \in Instances, List(i) PROVE slipped \subseteq slipped'
    BY <2>1, ListEffect
  <2>2. ASSUME NEW i \in Instances, Pass(i) PROVE slipped \subseteq slipped'
    BY <2>2, PassEffect
  <2> QED BY <2>1, <2>2
          DEF Steps, Change, Load, ListFails, Ingest, IngestFails, Save, Crash, history
<1>2. cp' = cp \/ \E i \in Instances : Save(i)
  BY DEF Steps, Change, Load, List, ListFails, Pass, Ingest, IngestFails, Crash
<1> QED BY <1>1, <1>2

(* A save writes no failure away that is safe, and a run that could not    *)
(* reach as far as it has come without the order says so.                  *)
LEMMA NextRecorded == Inv /\ Steps => Recorded'
<1> SUFFICES ASSUME Inv, Steps, NEW o \in Orders,
                    Behind(o)', market'[o].at < cp'.cursor, o \notin slipped'
             PROVE  Safe(o)'
  BY DEF Recorded
<1> TypeOK /\ Dated /\ Loaded /\ Recorded /\ Covered
  BY DEF Inv
<1>1. o \notin slipped
  BY CursorMoves
<1>2. CASE cp' = cp
  <2>1. cp.cursor \in Time /\ cp.cursor <= Now
    BY DEF TypeOK, Checkpoint, Dated
  <2>2. market'[o] = market[o] /\ Behind(o)
    BY <1>2, <2>1, BehindBefore
  <2> QED BY <1>1, <1>2, <2>2, SafeStays DEF Recorded
<1>3. ASSUME NEW i \in Instances, Save(i) PROVE Safe(o)'
  <2>1. /\ cp'.cursor \in {Reach(i), cp.cursor} /\ run[i].pc = "ingest" /\ run[i].left = {}
        /\ run'[i].pc = "idle" /\ \A j \in Instances \ {i} : run'[j] = run[j]
    BY <1>3, SaveEffect, BecomesEffect DEF Idle
  <2>2. cp'.cursor \in Time /\ cp'.cursor <= Now
    BY <2>1, ReachNow DEF TypeOK, Checkpoint, Dated
  <2>3. market'[o] = market[o] /\ Behind(o)
    BY <2>2, BehindBefore
  <2>4. CASE cp'.cursor = cp.cursor
    BY <1>1, <2>3, <2>4, SafeStays DEF Recorded
  <2>5. CASE cp'.cursor = Reach(i)
    <3>1. /\ run[i].failed[o] > 0
          /\ run[i].failed[o] = run[i].doc.failed[o] => Safe(o)
      BY <1>1, <2>1, <2>3, <2>5 DEF Covered, Busy
    <3>2. CASE Safe(o)
      BY <3>2, SafeStays
    <3>3. CASE cp' = cp
      BY <1>2, <3>3
    <3>4. CASE run[i].failed = run[i].doc.failed
      BY <3>1, <3>4, SafeStays
    <3>5. CASE /\ cp.version = run[i].doc.version
               /\ cp'.failed = run[i].failed /\ cp'.version = cp.version + 1
      <4>1. \A j \in Instances \ {i} : Busy(j) => run[j].doc.version <= cp.version
        BY DEF Loaded, LoadedRun
      <4>2. cp.version \in Nat /\ \A j \in Instances : run[j].doc.version \in Nat
        BY DEF TypeOK, Checkpoint, Run
      <4>3. \A j \in Instances : ~Current(j)'
        BY <2>1, <3>5, <4>1, <4>2 DEF Current, Busy
      <4> QED BY <3>1, <3>5, <4>3 DEF Safe
    <3> QED BY <1>3, <3>3, <3>4, <3>5, SaveEffect
  <2> QED BY <2>1, <2>4, <2>5
<1> QED BY <1>2, <1>3, CursorMoves

(* What a run passes failed in the run, or is safe.                        *)
LEMMA NextCovered == Inv /\ Steps /\ TypeOK' /\ Dated' => Covered'
<1> SUFFICES ASSUME Inv, Steps, TypeOK', Dated', NEW j \in Instances, NEW o \in Orders,
                    Busy(j)', Behind(o)', market'[o].at < Reach(j)',
                    o \notin run'[j].left, o \notin slipped'
             PROVE  /\ run'[j].failed[o] > 0
                    /\ run'[j].failed[o] = run'[j].doc.failed[o] => Safe(o)'
  BY DEF Covered
<1> TypeOK /\ Dated /\ Loaded /\ Recorded /\ Covered
  BY DEF Inv
<1>1. o \notin slipped
  BY CursorMoves
<1>2. CASE run'[j] = run[j]
  <2>1. Reach(j)' = Reach(j) /\ Busy(j)
    BY <1>2 DEF Reach, Busy
  <2>2. market'[o] = market[o] /\ Behind(o)
    BY <2>1, ReachNow, BehindBefore
  <2>3. /\ run[j].failed[o] > 0
        /\ run[j].failed[o] = run[j].doc.failed[o] => Safe(o)
    BY <1>1, <1>2, <2>1, <2>2 DEF Covered
  <2> QED BY <1>2, <2>3, SafeStays
<1>3. ASSUME NEW p \in Orders, Change(p) PROVE run'[j] = run[j]
  BY <1>3, ChangeEffect
<1>4. ASSUME NEW i \in Instances, NEW new, Becomes(i, new), i # j PROVE run'[j] = run[j]
  BY <1>4, BecomesEffect
<1>5. CASE Load(j)
  <2>1. PICK new \in Run : /\ Becomes(j, new) /\ new.pc = "list" /\ new.doc = cp
                           /\ new.failed = cp.failed
    BY <1>5, LoadEffect
  <2>2. run'[j] = new /\ Reach(j)' = cp.cursor
    BY <2>1, BecomesEffect DEF Reach
  <2>3. market'[o] = market[o] /\ Behind(o)
    BY <2>2, BehindBefore DEF Dated, TypeOK, Checkpoint
  <2>4. Safe(o)
    BY <1>1, <2>2, <2>3 DEF Recorded
  <2> QED BY <2>1, <2>2, <2>4, SafeStays DEF Safe
<1>6. CASE List(j)
  <2>1. PICK new \in Run :
          /\ Becomes(j, new) /\ run[j].pc = "list"
          /\ new.doc = run[j].doc /\ new.failed = run[j].failed
          /\ \/ new.pc = "list" /\ new.left = run[j].left
             \/ /\ new.pc = "ingest"
                /\ \A p \in Delta(run[j].doc.cursor) \ (new.left \cup slipped') :
                     ~(market[p].at <= MaxCursorOf(new.refs, run[j].doc.cursor))
    BY <1>6, ListEffect
  <2>2. run'[j] = new /\ market' = market
    BY <2>1, BecomesEffect
  <2>3. Behind(o)
    BY <1>6, <2>2, LocalFollows DEF Behind
  <2>4. o \notin run[j].left /\ Reach(j) = run[j].doc.cursor /\ Busy(j)
    BY <2>1 DEF Loaded, LoadedRun, Reach, Busy
  <2>5. market[o].at < run[j].doc.cursor
    <3>1. CASE new.pc = "list"
      BY <2>1, <2>2, <3>1 DEF Reach
    <3>2. CASE new.pc = "ingest"
      <4>1. market[o].at < MaxCursorOf(new.refs, run[j].doc.cursor)
        BY <2>1, <2>2, <3>2 DEF Reach
      <4>2. /\ market[o].at \in Nat /\ run[j].doc.cursor \in Nat
            /\ MaxCursorOf(new.refs, run[j].doc.cursor) \in Nat
        BY <2>1, MaxCursor, Numbers DEF TypeOK, Order, Run, Checkpoint
      <4>3. o \notin Delta(run[j].doc.cursor)
        BY <2>1, <2>2, <3>2, <4>1, <4>2
      <4> QED BY <2>3, <4>2, <4>3 DEF Delta, Behind
    <3> QED BY <2>1, <3>1, <3>2
  <2>6. /\ run[j].failed[o] > 0
        /\ run[j].failed[o] = run[j].doc.failed[o] => Safe(o)
    BY <1>1, <2>3, <2>4, <2>5 DEF Covered
  <2> QED BY <2>1, <2>2, <2>6, SafeStays
<1>7. CASE ListFails(j)
  <2>1. PICK new \in Run :
          /\ Becomes(j, new) /\ run[j].pc = "list" /\ new.pc = "ingest" /\ new.refs = {}
          /\ new.left = run[j].left /\ new.doc = run[j].doc /\ new.failed = run[j].failed
    BY <1>7, ListFailsEffect
  <2>2. run'[j] = new /\ market' = market
    BY <2>1, BecomesEffect
  <2>3. Behind(o) /\ Busy(j) /\ Reach(j)' = Reach(j)
    BY <1>7, <2>1, <2>2, LocalFollows DEF Behind, Busy, Reach, MaxCursorOf
  <2>4. /\ run[j].failed[o] > 0
        /\ run[j].failed[o] = run[j].doc.failed[o] => Safe(o)
    BY <1>1, <2>1, <2>2, <2>3 DEF Covered
  <2> QED BY <2>1, <2>2, <2>4, SafeStays
<1>8. ASSUME NEW p \in Orders, NEW n, Tried(j, p, n), p # o,
             \/ Pass(j) \/ Ingest(j) \/ IngestFails(j)
      PROVE  /\ run'[j].failed[o] > 0
             /\ run'[j].failed[o] = run'[j].doc.failed[o] => Safe(o)'
  <2>1. PICK new \in Run :
          /\ Becomes(j, new) /\ run[j].pc = "ingest" /\ new.pc = "ingest"
          /\ new.refs = run[j].refs /\ new.left = run[j].left \ {p} /\ new.doc = run[j].doc
          /\ new.failed = [run[j].failed EXCEPT ![p] = n]
    BY <1>8 DEF Tried
  <2>2. run'[j] = new /\ market' = market
    BY <2>1, BecomesEffect
  <2>3. Behind(o) /\ Busy(j) /\ Reach(j)' = Reach(j) /\ o \notin run[j].left
    BY <1>8, <2>1, <2>2, LocalFollows DEF Behind, Busy, Reach
  <2>4. /\ run[j].failed[o] > 0
        /\ run[j].failed[o] = run[j].doc.failed[o] => Safe(o)
    BY <1>1, <2>2, <2>3 DEF Covered
  <2>5. new.failed[o] = run[j].failed[o]
    BY <1>8, <2>1 DEF TypeOK, Run, Failed
  <2> QED BY <2>1, <2>2, <2>4, <2>5, SafeStays
<1>9. CASE Pass(j)
  <2>1. PICK p \in run[j].left :
          /\ p \in Orders /\ Tried(j, p, run[j].failed[p])
          /\ Attempted(j, p) => run[j].failed[p] > 0
          /\ p \in recovered /\ run[j].failed[p] > 0 => p \in slipped'
          /\ local' = local
    BY <1>9, PassEffect
  <2>2. CASE p # o
    BY <1>8, <1>9, <2>1, <2>2
  <2>3. CASE p = o
    <3>1. market' = market /\ Behind(o)
      BY <1>9, <2>1, LocalFollows DEF Behind
    <3>2. /\ run'[j].failed[o] = run[j].failed[o] /\ run'[j].doc = run[j].doc
          /\ run[j].pc = "ingest"
      <4>1. run[j].failed = [run[j].failed EXCEPT ![o] = run[j].failed[o]]
        BY DEF TypeOK, Run, Failed
      <4> QED BY <2>1, <2>3, <4>1, BecomesEffect DEF Tried
    <3>3. run[j].failed[o] \in Nat /\ run[j].failed[o] = run[j].doc.failed[o]
      BY <2>1, <2>3 DEF TypeOK, Run, Failed, Loaded, LoadedRun
    <3>4. run[j].failed[o] > 0
      <4>1. SUFFICES ASSUME run[j].failed[o] = 0 PROVE FALSE
        BY <3>3
      <4>2. ~Needed(o, 0)
        BY <2>1, <2>3, <4>1, Numbers DEF Attempted, Dead
      <4> QED BY <3>1, <4>2 DEF Needed, Behind, Dated
    <3>5. o \notin recovered
      BY <2>1, <2>3, <3>4
    <3>6. Safe(o)
      <4>1. cp.failed[o] > 0
        BY <3>2, <3>3, <3>4, <3>5 DEF Loaded, LoadedRun, Busy
      <4>2. ASSUME NEW k \in Instances, Current(k) PROVE run[k].failed[o] > 0
        <5>1. run[k].failed[o] \in Nat /\ run[k].doc.failed = cp.failed
          BY <4>2 DEF TypeOK, Run, Failed, Loaded, LoadedRun
        <5> QED BY <3>5, <4>1, <4>2, <5>1 DEF Loaded, LoadedRun
      <4> QED BY <4>1, <4>2 DEF Safe
    <3> QED BY <3>2, <3>4, <3>6, SafeStays
  <2> QED BY <2>2, <2>3
<1>10. CASE Ingest(j)
  <2>1. PICK p \in Orders : Tried(j, p, 0) /\ local' = [local EXCEPT ![p] = market[p]]
    BY <1>10, IngestEffect
  <2>2. p # o
    <3>1. market' = market
      BY <1>10, LocalFollows
    <3> QED BY <2>1, <3>1 DEF Behind, TypeOK
  <2> QED BY <1>8, <1>10, <2>1, <2>2
<1>11. CASE IngestFails(j)
  <2>1. PICK p \in Orders :
          /\ Tried(j, p, run[j].failed[p] + 1)
          /\ p \in run[j].left \/ run[j].failed[p] = run[j].doc.failed[p]
    BY <1>11, IngestFailsEffect
  <2>2. CASE p # o
    BY <1>8, <1>11, <2>1, <2>2
  <2>3. CASE p = o
    <3>1. run'[j].failed = [run[j].failed EXCEPT ![o] = run[j].failed[o] + 1]
          /\ run'[j].doc = run[j].doc
      BY <2>1, <2>3, BecomesEffect DEF Tried
    <3>2. run[j].failed[o] \in Nat /\ run'[j].failed[o] = run[j].failed[o] + 1
      BY <3>1 DEF TypeOK, Run, Failed
    <3>3. run[j].failed[o] = run[j].doc.failed[o]
      BY <2>1, <2>3 DEF Loaded, LoadedRun
    <3> QED BY <3>1, <3>2, <3>3
  <2> QED BY <2>2, <2>3
<1>12. CASE Save(j) \/ Crash(j)
  <2>1. run'[j].pc = "idle"
    BY <1>12, SaveEffect, CrashEffect, BecomesEffect DEF Idle
  <2> QED BY <2>1 DEF Busy
<1>13. ASSUME NEW i \in Instances, i # j,
              \/ Load(i) \/ List(i) \/ ListFails(i) \/ Pass(i)
              \/ Ingest(i) \/ IngestFails(i) \/ Save(i) \/ Crash(i)
       PROVE  run'[j] = run[j]
  <2>1. CASE Load(i) \/ List(i) \/ ListFails(i)
    BY <1>4, <1>13, <2>1, LoadEffect, ListEffect, ListFailsEffect
  <2>2. CASE Pass(i) \/ Ingest(i) \/ IngestFails(i)
    BY <1>4, <1>13, <2>2, PassEffect, IngestEffect, IngestFailsEffect DEF Tried
  <2>3. CASE Save(i) \/ Crash(i)
    BY <1>4, <1>13, <2>3, SaveEffect, CrashEffect
  <2> QED BY <1>13, <2>1, <2>2, <2>3
<1> QED
  BY <1>2, <1>3, <1>5, <1>6, <1>7, <1>9, <1>10, <1>11, <1>12, <1>13 DEF Steps

-----------------------------------------------------------------------------
(* The inductive invariant holds in every reachable state.                 *)
THEOREM Invariance == Spec => []Inv
<1>1. Init => Inv
  <2> SUFFICES ASSUME Init PROVE Inv
    OBVIOUS
  <2>1. TypeOK
    BY InitType
  <2>2. /\ cp = NewCheckpoint /\ cp.cursor = 0 /\ cp.version = 0
        /\ \A i \in Instances : /\ run[i].pc = "idle" /\ run[i].doc = cp
                                /\ run[i].refs = {} /\ run[i].left = {}
    BY DEF Init, Idle, NewCheckpoint
  <2>3. Dated
    BY <2>2, DatesAssumption, Numbers DEF Init, Dated, Now
  <2>4. Loaded
    BY <2>2 DEF Loaded, LoadedRun, Busy, Current
  <2>5. Recorded /\ Covered
    <3>1. \A o \in Orders : market[o].at \in Nat
      BY <2>1, Numbers DEF TypeOK, Order
    <3> QED BY <2>2, <3>1 DEF Recorded, Covered, Busy
  <2> QED BY <2>1, <2>3, <2>4, <2>5 DEF Inv
<1>2. Inv /\ [Next]_vars => Inv'
  <2>1. Inv /\ Next => Inv'
    BY NextSteps, NextType, NextDated, NextLoaded, NextRecorded, NextCovered DEF Inv
  <2>2. Inv /\ UNCHANGED vars => Inv'
    BY DEF Inv, vars, history, TypeOK, Dated, Now, Loaded, LoadedRun, Recorded, Covered,
           Safe, Reach, Busy, Current, Behind
  <2> QED BY <2>1, <2>2
<1> QED BY <1>1, <1>2, PTL DEF Spec

(* OrderReconciler!TypeOK, for every value of the constants.               *)
THEOREM Typed == Spec => []TypeOK
<1>1. Inv => TypeOK
  BY DEF Inv
<1> QED BY <1>1, Invariance, PTL

(* OrderReconciler!NothingIsPassedOver: for any number of orders and       *)
(* overlapping runs, the cursor passes no order that is behind unless its  *)
(* failure is on record, or it slipped in the two ways the history names.  *)
THEOREM PassedOver == Spec => []NothingIsPassedOver
<1>1. Inv => NothingIsPassedOver
  BY DEF Inv, Recorded, Safe, NothingIsPassedOver, InFailed
<1> QED BY <1>1, Invariance, PTL

(* OrderReconciler!FailuresAreRemembered: a run takes a failure off the    *)
(* checkpoint only over the version it loaded, in which it ingested it.    *)
THEOREM Remembered == Spec => FailuresAreRemembered
<1> DEFINE Kept == InFailed(cp.failed) \ InFailed(cp'.failed) \subseteq recovered
<1>1. Inv /\ [Next]_vars => [Kept]_vars
  <2> SUFFICES ASSUME Inv, Next, NEW o \in Orders, cp.failed[o] > 0, ~(cp'.failed[o] > 0)
               PROVE  o \in recovered
    BY DEF InFailed
  <2> TypeOK /\ Loaded
    BY DEF Inv
  <2>1. PICK i \in Instances : Save(i)
    BY NextSteps, CursorMoves
  <2>2. /\ run[i].pc = "ingest" /\ cp.version = run[i].doc.version
        /\ cp'.failed = run[i].failed
    BY <2>1, SaveEffect
  <2>3. Current(i) /\ run[i].doc.failed = cp.failed
    BY <2>2 DEF Current, Busy, Loaded, LoadedRun
  <2>4. run[i].failed[o] = 0
    BY <2>2, Numbers DEF TypeOK, Run, Failed
  <2> QED BY <2>3, <2>4 DEF Loaded, LoadedRun
<1> QED BY <1>1, Invariance, PTL DEF Spec, FailuresAreRemembered

(* OrderReconciler!DeadRefsStay, for every MAX_FAILED_ATTEMPTS.            *)
THEOREM DeadStay == Spec => DeadRefsStay
<1> DEFINE Stay == \A o \in Orders :
                     cp.failed[o] = MaxAttempts => cp'.failed[o] = MaxAttempts
<1>1. Inv /\ [Next]_vars => [Stay]_vars
  <2> SUFFICES ASSUME Inv, Next, NEW o \in Orders, cp.failed[o] = MaxAttempts
               PROVE  cp'.failed[o] = MaxAttempts
    OBVIOUS
  <2> TypeOK /\ Loaded
    BY DEF Inv
  <2>1. CASE cp' = cp
    BY <2>1
  <2>2. ASSUME NEW i \in Instances, Save(i), cp'.failed # cp.failed
        PROVE  cp'.failed[o] = MaxAttempts
    <3>1. /\ run[i].pc = "ingest" /\ cp.version = run[i].doc.version
          /\ cp'.failed = run[i].failed
      BY <2>2, SaveEffect
    <3>2. Busy(i) /\ run[i].doc.failed = cp.failed
      BY <3>1 DEF Current, Busy, Loaded, LoadedRun
    <3> QED BY <3>1, <3>2 DEF Loaded, LoadedRun
  <2> QED BY <2>1, <2>2, NextSteps, CursorMoves
<1> QED BY <1>1, Invariance, PTL DEF Spec, DeadRefsStay
=============================================================================
