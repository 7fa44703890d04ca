------------------------- MODULE OrderIngestProofs -------------------------
(***************************************************************************)
(* For every number of concurrent calls, items, substatuses and faults:    *)
(* the safety properties of OrderIngest.  That stock which is out stays    *)
(* tracked, and that a cancellation settles the order, holds of orders of  *)
(* one item only.                                                          *)
(***************************************************************************)
EXTENDS OrderIngest, WellFoundedInduction, TLAPS

\* A registration that can still save has read an order whose stock is not taken, and
\* it is still so.
FreshCall(c) ==
    calls[c].pc \in {"register", "sell"} /\ calls[c].old # Absent /\ ~calls[c].stale
      => order.logistics # "deducted"
Fresh == \A c \in Ingesters : FreshCall(c)

\* A cancellation in progress returns what is out, and is past the return once that is
\* back or on record.
CancellingCall(c) ==
    /\ calls[c].pc \in {"revert", "cancel"} => out = calls[c].old.linked /\ out # {}
    /\ calls[c].pc = "cancel" => out \subseteq back \cup unreturned
Cancelling == \A c \in Ingesters : CancellingCall(c)

\* All items share one reference, so that one item goes out at most.
SingleOut == \A x, y \in out : x = y

\* A deducted order has an item.
DeductedSome == order.logistics = "deducted" => out # {}

Inv ==
    /\ TypeOK /\ Fresh /\ Cancelling /\ SingleOut /\ DeductedSome
    /\ DeductedMeansTaken /\ ReturnsWereTaken /\ CancelledMeansReturned

-----------------------------------------------------------------------------
Fields == {"status", "logistics", "sub", "linked", "notified"}

(* What save() writes is a document; its items are those of the call, and  *)
(* its logistics status is the new one or the one it had.                  *)
LEMMA SavedType ==
  ASSUME TypeOK, NEW c \in Ingesters, NEW logistics \in {"pending", "deducted", "unresolved"}
  PROVE  /\ Saved(c, logistics) \in Order
         /\ Saved(c, logistics).linked = calls[c].linked
         /\ Saved(c, logistics).logistics \in {logistics, order.logistics}
         /\ calls[c].pc = "sell" => Saved(c, logistics).logistics = logistics
<1> DEFINE new == [status |-> calls[c].got.status, sub |-> calls[c].got.sub,
                   logistics |-> logistics, linked |-> calls[c].linked]
           always == IF calls[c].pc = "sell" THEN {"linked", "logistics"} ELSE {"linked"}
           dirty == {f \in DOMAIN new : new[f] # calls[c].old[f]} \cup always
           saved == [f \in DOMAIN order |-> IF f \in dirty THEN new[f] ELSE order[f]]
<1>1. /\ order \in Order /\ calls[c] \in Call /\ calls[c].got \in Remote
      /\ calls[c].linked \subseteq Items
  BY DEF TypeOK, Call
<1>2. DOMAIN order = Fields
  BY <1>1 DEF Order, Fields
<1>3. DOMAIN new = {"status", "sub", "logistics", "linked"}
  OBVIOUS
<1>4. "notified" \notin dirty
  BY <1>3
<1>5. saved = [f \in Fields |-> IF f \in dirty THEN new[f] ELSE order[f]]
  BY <1>2
<1>6. /\ saved.status \in Statuses \cup {"none"}
      /\ saved.sub \in Substatuses \cup {"none", "cancelled"}
      /\ saved.logistics \in {logistics, order.logistics}
      /\ saved.notified \in BOOLEAN
  <2>1. /\ new.status \in Statuses /\ new.sub \in Substatuses \cup {"none"}
        /\ new.logistics = logistics
    BY <1>1 DEF Remote
  <2>2. /\ order.status \in Statuses \cup {"none"} /\ order.notified \in BOOLEAN
        /\ order.sub \in Substatuses \cup {"none", "cancelled"}
    BY <1>1 DEF Order
  <2>3. saved.status \in {new.status, order.status} /\ saved.sub \in {new.sub, order.sub}
        /\ saved.logistics \in {new.logistics, order.logistics}
    <3> HIDE DEF new, dirty
    <3> QED BY <1>5 DEF Fields
  <2>4. saved.notified = order.notified
    <3> HIDE DEF new, dirty
    <3> QED BY <1>4, <1>5 DEF Fields
  <2> QED BY <2>1, <2>2, <2>3, <2>4
<1>7. saved.linked = calls[c].linked
  <2>1. "linked" \in dirty /\ new.linked = calls[c].linked
    OBVIOUS
  <2> HIDE DEF new, dirty
  <2> QED BY <1>5, <2>1 DEF Fields
<1>8. calls[c].pc = "sell" => saved.logistics = logistics
  <2>1. calls[c].pc = "sell" => "logistics" \in dirty
    OBVIOUS
  <2>2. new.logistics = logistics
    OBVIOUS
  <2> HIDE DEF new, dirty
  <2> QED BY <1>5, <2>1, <2>2 DEF Fields
<1>9. saved \in Order
  <2>1. order.logistics \in {"none", "pending", "deducted", "unresolved", "cancelled"}
    BY <1>1 DEF Order
  <2>2. saved = [status |-> saved.status, logistics |-> saved.logistics, sub |-> saved.sub,
                 linked |-> saved.linked, notified |-> saved.notified]
    <3>1. DOMAIN saved = Fields
      BY <1>2
    <3> HIDE DEF saved
    <3> QED BY <1>5, <3>1 DEF Fields
  <2> HIDE DEF saved
  <2> QED BY <1>1, <1>6, <1>7, <2>1, <2>2 DEF Order
<1>10. Saved(c, logistics) = saved
  BY DEF Saved
<1> QED BY <1>6, <1>7, <1>8, <1>9, <1>10

-----------------------------------------------------------------------------
(* A set of items has a smallest one.                                      *)
LEMMA SmallestItem ==
  ASSUME NEW S \in SUBSET Items, S # {}
  PROVE  Min(S) \in S
<1>1. S \subseteq Nat
  BY ItemsAssumption DEF Items
<1>2. PICK k \in S : \A y \in S : ~(<<y, k>> \in OpToRel(<, Nat))
  BY Zenon, <1>1, NatLessThanWellFounded, WFMin
<1>3. \A y \in S : ~(y < k)
  BY Zenon, <1>1, <1>2 DEF OpToRel
<1>4. \E x \in S : \A y \in S : x <= y
  BY <1>1, <1>3
<1> QED BY <1>4 DEF Min

(* One reference posts one movement, for one of the items it is given.     *)
LEMMA PostedOnce ==
  ASSUME NEW posted, NEW items \in SUBSET Items
  PROVE  /\ Posted(posted, items) \subseteq items
         /\ posted # {} => Posted(posted, items) = {}
         /\ \A x, y \in Posted(posted, items) : x = y
         /\ posted = {} /\ items # {} => Posted(posted, items) # {}
<1>1. CASE posted = {} /\ items # {}
  <2>1. Posted(posted, items) = {Min(items)} /\ Min(items) \in items
    BY <1>1, SmallestItem DEF Posted
  <2> QED BY <1>1, <2>1
<1>2. CASE ~(posted = {} /\ items # {})
  BY <1>2 DEF Posted
<1> QED BY <1>1, <1>2

(* The decision is one of the steps; stock that is held is never sold      *)
(* again, and only held stock is returned.                                 *)
LEMMA Decision ==
  ASSUME NEW old, NEW got
  PROVE  /\ Decide(old, got) \in {"idle", "register", "sell", "status", "shipping",
                                  "revert", "emit"}
         /\ Decide(old, got) \in {"register", "sell"} => old.logistics # "deducted"
         /\ Decide(old, got) = "revert" => old.logistics = "deducted"
  BY DEF Decide, HoldsStock, KnownSubstatus, Announced

(* A call and a new one have the right types.                              *)
LEMMA IdleType == Idle \in Call /\ Absent \in Order /\ Idle.pc = "idle"
<1>1. Absent \in Order
  BY DEF Absent, Order
<1> QED BY <1>1 DEF Idle, Call, Remote, Statuses

(* One call moves on and the others stay as they are.                      *)
LEMMA OneCall ==
  ASSUME TypeOK, NEW c \in Ingesters, NEW x \in Call, calls' = [calls EXCEPT ![c] = x]
  PROVE  /\ calls' \in [Ingesters -> Call]
         /\ calls'[c] = x
         /\ \A d \in Ingesters \ {c} : calls'[d] = calls[d]
  BY DEF TypeOK

(* A call that ends is idle.                                               *)
LEMMA DoneEffect ==
  ASSUME TypeOK, NEW c \in Ingesters, Done(c)
  PROVE  /\ calls' \in [Ingesters -> Call]
         /\ calls'[c].pc = "idle"
         /\ \A d \in Ingesters \ {c} : calls'[d] = calls[d]
  BY Zenon, IdleType, OneCall DEF Done

(* A fault is counted.                                                     *)
LEMMA FaultType == ASSUME TypeOK, Fault PROVE faults' \in 0 .. MaxFaults
  BY BoundAssumption DEF TypeOK, Fault

(* The parts of the invariant that speak of single calls survive a step    *)
(* that ends call c and neither takes stock nor makes the order deducted.  *)
LEMMA OthersKept ==
  ASSUME Inv, NEW c \in Ingesters,
         calls'[c].pc = "idle",
         \A d \in Ingesters \ {c} : calls'[d] = calls[d],
         order'.logistics = "deducted" => order.logistics = "deducted",
         out' = out, back' = back, unreturned' = unreturned
  PROVE  Fresh' /\ Cancelling'
<1>1. ASSUME NEW d \in Ingesters PROVE FreshCall(d)' /\ CancellingCall(d)'
  <2>1. CASE d = c
    BY <2>1 DEF FreshCall, CancellingCall
  <2>2. CASE d # c
    <3>1. calls'[d] = calls[d] /\ FreshCall(d) /\ CancellingCall(d)
      BY <2>2 DEF Inv, Fresh, Cancelling
    <3> QED BY <3>1 DEF FreshCall, CancellingCall
  <2> QED BY <2>1, <2>2
<1> QED BY <1>1 DEF Fresh, Cancelling

-----------------------------------------------------------------------------
(* Every initial state has the invariant.                                  *)
LEMMA InitInv == Init => Inv
<1> SUFFICES ASSUME Init PROVE Inv
  OBVIOUS
<1>1. TypeOK
  BY IdleType, BoundAssumption DEF Init, TypeOK, Remote, Statuses
<1>2. \A c \in Ingesters : calls[c].pc = "idle"
  BY IdleType DEF Init
<1>3. out = {} /\ back = {} /\ order.logistics = "none"
  BY DEF Init, Absent
<1> QED BY <1>1, <1>2, <1>3 DEF Inv, Fresh, FreshCall, Cancelling, CancellingCall, SingleOut,
       DeductedSome, DeductedMeansTaken, ReturnsWereTaken, CancelledMeansReturned

(* The marketplace changes its order.                                      *)
LEMMA RemoteInv == ASSUME Inv, RemoteStatus \/ RemoteShipment PROVE Inv'
<1>1. remote' \in Remote
  <2>1. CASE RemoteStatus
    BY <2>1 DEF RemoteStatus, Inv, TypeOK, Remote
  <2>2. CASE RemoteShipment
    BY <2>2 DEF RemoteShipment, Inv, TypeOK, Remote
  <2> QED BY <2>1, <2>2
<1>2. /\ order' = order /\ out' = out /\ back' = back /\ calls' = calls
      /\ unreturned' = unreturned /\ alone' = alone /\ faults' = faults
  BY DEF RemoteStatus, RemoteShipment
<1> QED BY <1>1, <1>2 DEF Inv, TypeOK, Fresh, FreshCall, Cancelling, CancellingCall, SingleOut,
       DeductedSome, DeductedMeansTaken, ReturnsWereTaken, CancelledMeansReturned

(* A call fetches the order.                                               *)
LEMMA FetchInv == ASSUME Inv, NEW c \in Ingesters, Fetch(c) PROVE Inv'
<1>1. PICK linked \in SUBSET Items :
        calls' = [calls EXCEPT ![c] = [Idle EXCEPT !.pc = "read", !.got = remote,
                                                   !.linked = linked]]
  BY DEF Fetch
<1> DEFINE call == [Idle EXCEPT !.pc = "read", !.got = remote, !.linked = linked]
<1>2. call \in Call /\ call.pc = "read"
  BY IdleType DEF Call, Idle, Inv, TypeOK
<1> HIDE DEF call
<1>3. /\ calls' \in [Ingesters -> Call] /\ calls'[c].pc = "read"
      /\ \A d \in Ingesters \ {c} : calls'[d] = calls[d]
  BY <1>1, <1>2, OneCall DEF Inv, call
<1>4. UNCHANGED <<remote, order, out, back, unreturned, faults>>
  BY DEF Fetch
<1>6. alone' \subseteq Ingesters
  BY DEF Fetch, Inv, TypeOK
<1>5. ASSUME NEW d \in Ingesters PROVE FreshCall(d)' /\ CancellingCall(d)'
  BY <1>3, <1>4 DEF Inv, Fresh, FreshCall, Cancelling, CancellingCall
<1> QED BY <1>3, <1>4, <1>5, <1>6 DEF Inv, TypeOK, Fresh, Cancelling, SingleOut, DeductedSome,
       DeductedMeansTaken, ReturnsWereTaken, CancelledMeansReturned

(* A call reads the document and decides.                                  *)
LEMMA ReadInv == ASSUME Inv, NEW c \in Ingesters, Read(c) PROVE Inv'
<1> DEFINE next == Decide(order, calls[c].got)
           call == IF next = "idle" THEN Idle
                   ELSE [calls[c] EXCEPT !.pc = next, !.old = order]
<1>1. calls[c] \in Call /\ order \in Order
  BY DEF Inv, TypeOK
<1>2. /\ next \in {"idle", "register", "sell", "status", "shipping", "revert", "emit"}
      /\ next \in {"register", "sell"} => order.logistics # "deducted"
      /\ next = "revert" => order.logistics = "deducted"
  <2> HIDE DEF next
  <2> QED BY Decision DEF next
<1>3. calls' = [calls EXCEPT ![c] = call]
  BY DEF Read
<1>4. /\ call \in Call
      /\ call.pc = next
      /\ next # "idle" => call.old = order
  <2> HIDE DEF next
  <2>1. CASE next = "idle"
    BY <2>1, IdleType
  <2>2. CASE next # "idle"
    BY <1>1, <1>2, <2>2 DEF Call
  <2> QED BY <2>1, <2>2
<1>5. UNCHANGED <<remote, order, out, back, unreturned, alone, faults>>
  BY DEF Read
<1> HIDE DEF next, call
<1>6. /\ calls' \in [Ingesters -> Call] /\ calls'[c] = call
      /\ \A d \in Ingesters \ {c} : calls'[d] = calls[d]
  BY <1>3, <1>4, OneCall DEF Inv
<1>7. ASSUME NEW d \in Ingesters PROVE FreshCall(d)' /\ CancellingCall(d)'
  <2>1. CASE d = c
    BY <2>1, <1>2, <1>4, <1>5, <1>6 DEF FreshCall, CancellingCall, Inv, DeductedSome,
       DeductedMeansTaken
  <2>2. CASE d # c
    BY <2>2, <1>5, <1>6 DEF Inv, Fresh, FreshCall, Cancelling, CancellingCall
  <2> QED BY <2>1, <2>2
<1> QED BY <1>5, <1>6, <1>7 DEF Inv, TypeOK, Fresh, Cancelling, SingleOut, DeductedSome,
       DeductedMeansTaken, ReturnsWereTaken, CancelledMeansReturned

-----------------------------------------------------------------------------
(* A registration replaces the document only if that is not deducted: it   *)
(* was created by nobody, or not moved since it was read.                  *)
LEMMA UpsertEffect ==
  ASSUME Inv, NEW c \in Ingesters, calls[c].pc \in {"register", "sell"},
         NEW logistics \in {"pending", "deducted", "unresolved"},
         NEW pc \in {"idle", "emit"}, Upsert(c, logistics, pc)
  PROVE  /\ order' = Saved(c, logistics) /\ order' \in Order
         /\ order.logistics # "deducted"
         /\ calls' \in [Ingesters -> Call] /\ calls'[c].pc = pc
         /\ \A d \in Ingesters \ {c} :
              calls'[d] = [calls[d] EXCEPT !.stale = calls[d].old # Absent]
<1>1. calls \in [Ingesters -> Call] /\ TypeOK
  BY DEF Inv, TypeOK
<1>2. order' = Saved(c, logistics) /\ order' \in Order
  BY <1>1, SavedType DEF Upsert
<1>3. order.logistics # "deducted"
  <2>1. CASE calls[c].old = Absent
    BY <2>1 DEF Upsert, CanSave, Absent
  <2>2. CASE calls[c].old # Absent
    BY <2>2 DEF Upsert, CanSave, Inv, Fresh, FreshCall
  <2> QED BY <2>1, <2>2
<1> DEFINE moved(d) == [calls[d] EXCEPT !.stale = calls[d].old # Absent]
           mine == IF pc = "idle" THEN Idle ELSE [calls[c] EXCEPT !.pc = pc]
<1>4. calls' = [d \in Ingesters |-> IF d # c THEN moved(d) ELSE mine]
  BY DEF Upsert
<1>5. mine \in Call /\ mine.pc = pc
  <2>1. calls[c] \in Call
    BY <1>1
  <2>2. CASE pc = "idle"
    BY <2>2, IdleType
  <2>3. CASE pc = "emit"
    BY <2>1, <2>3 DEF Call
  <2> QED BY <2>2, <2>3
<1>6. ASSUME NEW d \in Ingesters PROVE moved(d) \in Call
  <2>1. calls[d] \in Call
    BY <1>1
  <2> QED BY <2>1 DEF Call
<1> HIDE DEF mine
<1>7. calls' \in [Ingesters -> Call] /\ calls'[c] = mine
  <2> HIDE DEF moved
  <2> QED BY <1>4, <1>5, <1>6
<1>8. \A d \in Ingesters \ {c} : calls'[d] = moved(d)
  BY <1>4
<1> QED BY <1>2, <1>3, <1>5, <1>7, <1>8

(* After a registration the other calls still have theirs: those that have *)
(* read the order can no longer save, and what is out stays what was out.  *)
LEMMA UpsertOthers ==
  ASSUME Inv, NEW c \in Ingesters,
         calls'[c].pc \in {"idle", "emit"},
         \A d \in Ingesters \ {c} :
            calls'[d] = [calls[d] EXCEPT !.stale = calls[d].old # Absent],
         out # {} => out' = out, back' = back, unreturned' = unreturned
  PROVE  Fresh' /\ Cancelling'
<1>1. ASSUME NEW d \in Ingesters PROVE FreshCall(d)' /\ CancellingCall(d)'
  <2>1. CASE d = c
    BY <2>1 DEF FreshCall, CancellingCall
  <2>2. CASE d # c
    <3>1. calls[d] \in Call /\ CancellingCall(d)
      BY DEF Inv, TypeOK, Cancelling
    <3>2. /\ calls'[d].pc = calls[d].pc /\ calls'[d].old = calls[d].old
          /\ calls[d].old # Absent => calls'[d].stale
      <4> DEFINE b == calls[d].old # Absent
      <4>1. calls'[d] = [calls[d] EXCEPT !.stale = b]
        BY <2>2
      <4> HIDE DEF b
      <4>2. calls'[d].pc = calls[d].pc /\ calls'[d].old = calls[d].old /\ (b => calls'[d].stale)
        BY <3>1, <4>1 DEF Call
      <4> QED BY <4>2 DEF b
    <3> QED BY <3>1, <3>2 DEF FreshCall, CancellingCall
  <2> QED BY <2>1, <2>2
<1> QED BY <1>1 DEF Fresh, Cancelling

(* A registration without stock.                                           *)
LEMMA RegisterInv == ASSUME Inv, NEW c \in Ingesters, Register(c) PROVE Inv'
<1>1. /\ calls[c].pc = "register" /\ Upsert(c, "pending", "idle")
      /\ UNCHANGED <<remote, out, back, unreturned, alone, faults>>
  BY DEF Register
<1>2. /\ order' = Saved(c, "pending") /\ order' \in Order
      /\ order.logistics # "deducted"
      /\ calls' \in [Ingesters -> Call] /\ calls'[c].pc = "idle"
      /\ \A d \in Ingesters \ {c} :
           calls'[d] = [calls[d] EXCEPT !.stale = calls[d].old # Absent]
  BY <1>1, UpsertEffect
<1>3. order'.logistics \in {"pending", order.logistics}
  BY <1>2, SavedType DEF Inv
<1>4. Fresh' /\ Cancelling'
  BY <1>1, <1>2, UpsertOthers
<1>5. TypeOK'
  BY <1>1, <1>2 DEF Inv, TypeOK
<1> QED BY <1>1, <1>2, <1>3, <1>4, <1>5 DEF Inv, SingleOut, DeductedSome, DeductedMeansTaken,
       ReturnsWereTaken, CancelledMeansReturned

(* What a sale does to the stock and to the document.                      *)
LEMMA SellEffect ==
  ASSUME Inv, NEW c \in Ingesters, Sell(c)
  PROVE  \E stores \in SUBSET calls[c].linked :
           LET taken == Posted(out, stores)
               logistics == LogisticsAfter(calls[c].linked, taken) IN
           /\ out' = out \cup taken
           /\ taken \subseteq Items
           /\ order' \in Order
           /\ order'.linked = calls[c].linked /\ order'.logistics = logistics
           /\ order.logistics # "deducted"
           /\ calls' \in [Ingesters -> Call] /\ calls'[c].pc = "emit"
           /\ \A d \in Ingesters \ {c} :
                calls'[d] = [calls[d] EXCEPT !.stale = calls[d].old # Absent]
<1>1. PICK stores \in SUBSET calls[c].linked :
        /\ Upsert(c, LogisticsAfter(calls[c].linked, Posted(out, stores)), "emit")
        /\ out' = out \cup Posted(out, stores)
  BY DEF Sell
<1> DEFINE taken == Posted(out, stores)
           logistics == LogisticsAfter(calls[c].linked, taken)
<1>2. logistics \in {"deducted", "unresolved"} /\ calls[c].pc = "sell"
  BY DEF LogisticsAfter, Sell
<1>3. taken \subseteq Items
  <2>1. calls[c].linked \subseteq Items
    BY DEF Inv, TypeOK, Call
  <2> QED BY <2>1, PostedOnce
<1>4. Upsert(c, logistics, "emit") /\ out' = out \cup taken
  BY <1>1
<1> HIDE DEF taken, logistics
<1>5. /\ order' = Saved(c, logistics) /\ order' \in Order
      /\ order.logistics # "deducted"
      /\ calls' \in [Ingesters -> Call] /\ calls'[c].pc = "emit"
      /\ \A d \in Ingesters \ {c} :
           calls'[d] = [calls[d] EXCEPT !.stale = calls[d].old # Absent]
  BY <1>2, <1>4, UpsertEffect
<1>6. order'.linked = calls[c].linked /\ order'.logistics = logistics
  BY <1>2, <1>5, SavedType DEF Inv
<1> QED BY <1>3, <1>4, <1>5, <1>6 DEF taken, logistics

(* A sale: nothing more is taken once something is out, and the order is   *)
(* deducted only if this sale has taken all of it.                         *)
LEMMA SellInv == ASSUME Inv, NEW c \in Ingesters, Sell(c) PROVE Inv'
<1>1. PICK stores \in SUBSET calls[c].linked :
        LET taken == Posted(out, stores)
            logistics == LogisticsAfter(calls[c].linked, taken) IN
        /\ out' = out \cup taken
        /\ taken \subseteq Items
        /\ order' \in Order
        /\ order'.linked = calls[c].linked /\ order'.logistics = logistics
        /\ order.logistics # "deducted"
        /\ calls' \in [Ingesters -> Call] /\ calls'[c].pc = "emit"
        /\ \A d \in Ingesters \ {c} :
             calls'[d] = [calls[d] EXCEPT !.stale = calls[d].old # Absent]
  BY SellEffect
<1> DEFINE taken == Posted(out, stores)
<1>2. UNCHANGED <<remote, back, unreturned, alone, faults>>
  BY DEF Sell
<1>3. out # {} => taken = {}
  <2>1. stores \in SUBSET Items
    BY DEF Inv, TypeOK, Call
  <2> QED BY <2>1, PostedOnce
<1>4. \A x, y \in taken : x = y
  <2>1. stores \in SUBSET Items
    BY DEF Inv, TypeOK, Call
  <2> QED BY <2>1, PostedOnce
<1>5. order'.logistics = LogisticsAfter(calls[c].linked, taken)
  BY <1>1
<1>6. /\ order'.logistics \in {"deducted", "unresolved"}
      /\ order'.logistics = "deducted" => calls[c].linked # {} /\ taken = calls[c].linked
  BY <1>5 DEF LogisticsAfter
<1>7. out' = out \cup taken /\ taken \subseteq Items
  BY <1>1
<1> HIDE DEF taken
<1>8. Fresh' /\ Cancelling'
  BY <1>1, <1>2, <1>3, <1>7, UpsertOthers
<1>9. TypeOK'
  BY <1>1, <1>2, <1>7 DEF Inv, TypeOK
<1>10. SingleOut'
  BY <1>3, <1>4, <1>7 DEF Inv, SingleOut
<1>11. DeductedSome' /\ DeductedMeansTaken'
  BY <1>1, <1>3, <1>6, <1>7 DEF DeductedSome, DeductedMeansTaken
<1>12. ReturnsWereTaken'
  BY <1>2, <1>7 DEF Inv, ReturnsWereTaken
<1>13. CancelledMeansReturned'
  BY <1>6 DEF CancelledMeansReturned
<1> QED BY <1>8, <1>9, <1>10, <1>11, <1>12, <1>13 DEF Inv

-----------------------------------------------------------------------------
(* A registration fails, or the process dies: the call is over.            *)
LEMMA OverInv ==
  ASSUME Inv, NEW c \in Ingesters, RegistrationFails(c) \/ Crash(c)
  PROVE  Inv'
<1>1. Done(c) /\ UNCHANGED <<remote, order, out, back, unreturned>>
  BY DEF RegistrationFails, Crash
<1>2. faults' \in 0 .. MaxFaults
  <2>1. CASE Fault
    BY <2>1, FaultType DEF Inv
  <2>2. CASE UNCHANGED faults
    BY <2>2 DEF Inv, TypeOK
  <2> QED BY <2>1, <2>2 DEF RegistrationFails, Crash
<1>3. /\ calls' \in [Ingesters -> Call] /\ calls'[c].pc = "idle"
      /\ \A d \in Ingesters \ {c} : calls'[d] = calls[d]
  BY <1>1, DoneEffect DEF Inv
<1>4. Fresh' /\ Cancelling'
  BY <1>1, <1>3, OthersKept
<1>5. alone' \subseteq Ingesters
  BY DEF RegistrationFails, Crash, Inv, TypeOK
<1> QED BY <1>1, <1>2, <1>3, <1>4, <1>5 DEF Inv, TypeOK, SingleOut, DeductedSome,
       DeductedMeansTaken, ReturnsWereTaken, CancelledMeansReturned

(* The updates that leave the stock alone: the announcement, the status    *)
(* and the shipment.                                                       *)
LEMMA UpdateInv ==
  ASSUME Inv, NEW c \in Ingesters, Emit(c) \/ UpdateStatus(c) \/ UpdateShipping(c)
  PROVE  Inv'
<1>1. Done(c) /\ UNCHANGED <<remote, out, back, unreturned, alone, faults>>
  BY DEF Emit, UpdateStatus, UpdateShipping
<1>2. /\ order' \in Order
      /\ order'.logistics = order.logistics /\ order'.linked = order.linked
  <2>1. calls[c].got \in Remote /\ order \in Order
    BY DEF Inv, TypeOK, Call
  <2>2. calls[c].got.status \in Statuses /\ calls[c].got.sub \in Substatuses \cup {"none"}
    BY <2>1 DEF Remote
  <2>3. CASE Emit(c)
    BY <2>1, <2>3 DEF Emit, Order
  <2>4. CASE UpdateStatus(c)
    BY <2>1, <2>2, <2>4 DEF UpdateStatus, Order
  <2>5. CASE UpdateShipping(c)
    BY <2>1, <2>2, <2>5 DEF UpdateShipping, Order
  <2> QED BY <2>3, <2>4, <2>5
<1>3. /\ calls' \in [Ingesters -> Call] /\ calls'[c].pc = "idle"
      /\ \A d \in Ingesters \ {c} : calls'[d] = calls[d]
  BY <1>1, DoneEffect DEF Inv
<1>4. Fresh' /\ Cancelling'
  BY <1>1, <1>2, <1>3, OthersKept
<1> QED BY <1>1, <1>2, <1>3, <1>4 DEF Inv, TypeOK, SingleOut, DeductedSome,
       DeductedMeansTaken, ReturnsWereTaken, CancelledMeansReturned

(* A return, or the failure to return, of what the order has taken: what   *)
(* comes back was out, and what does not is on record.                     *)
LEMMA RevertEffect ==
  ASSUME Inv, NEW c \in Ingesters, Revert(c) \/ RevertFails(c)
  PROVE  /\ calls[c].pc = "revert"
         /\ calls' = [calls EXCEPT ![c].pc = "cancel"]
         /\ order' = order /\ out' = out /\ remote' = remote
         /\ back \subseteq back' /\ unreturned \subseteq unreturned'
         /\ back' \subseteq out /\ unreturned' \subseteq Items
         /\ out \subseteq back' \cup unreturned'
         /\ faults' \in 0 .. MaxFaults
<1>1. /\ calls[c].pc = "revert"
      /\ calls' = [calls EXCEPT ![c].pc = "cancel"]
      /\ order' = order /\ out' = out /\ remote' = remote
  BY DEF Revert, RevertFails
<1>2. /\ out = calls[c].old.linked /\ out \subseteq Items /\ back \subseteq out
      /\ unreturned \subseteq Items
      /\ \A x, y \in out : x = y
  BY <1>1 DEF Inv, TypeOK, Cancelling, CancellingCall, SingleOut, ReturnsWereTaken
<1>3. CASE Revert(c)
  <2>1. PICK stores \in SUBSET out :
          /\ back' = back \cup Returned(stores)
          /\ unreturned' = unreturned \cup (out \ stores)
    BY <1>2, <1>3 DEF Revert
  <2>2. stores \in SUBSET Items
    BY <1>2
  <2>3. /\ Returned(stores) \subseteq stores
        /\ back = {} /\ stores # {} => Returned(stores) # {}
    BY <2>2, PostedOnce DEF Returned
  <2>4. out \subseteq back' \cup unreturned'
    BY <1>2, <2>1, <2>3
  <2>5. faults' \in 0 .. MaxFaults
    BY <1>3 DEF Revert, Inv, TypeOK
  <2> QED BY <1>1, <1>2, <2>1, <2>3, <2>4, <2>5
<1>4. CASE RevertFails(c)
  <2>1. back' = back /\ unreturned' = unreturned \cup out /\ Fault
    BY <1>2, <1>4 DEF RevertFails
  <2>2. faults' \in 0 .. MaxFaults
    BY <2>1, FaultType DEF Inv
  <2> QED BY <1>1, <1>2, <2>1, <2>2
<1> QED BY <1>3, <1>4

(* A cancellation has tried to return the stock.                           *)
LEMMA RevertInv ==
  ASSUME Inv, NEW c \in Ingesters, Revert(c) \/ RevertFails(c)
  PROVE  Inv'
<1>1. /\ calls[c].pc = "revert"
      /\ calls' = [calls EXCEPT ![c].pc = "cancel"]
      /\ order' = order /\ out' = out /\ remote' = remote
      /\ back \subseteq back' /\ unreturned \subseteq unreturned'
      /\ back' \subseteq out /\ unreturned' \subseteq Items
      /\ out \subseteq back' \cup unreturned'
      /\ faults' \in 0 .. MaxFaults
  BY RevertEffect
<1> DEFINE call == [calls[c] EXCEPT !.pc = "cancel"]
<1>2. calls[c] \in Call /\ TypeOK
  BY DEF Inv, TypeOK
<1>3. call \in Call /\ call.pc = "cancel" /\ call.old = calls[c].old
  BY <1>2 DEF Call
<1>4. calls' = [calls EXCEPT ![c] = call]
  BY <1>1
<1> HIDE DEF call
<1>5. /\ calls' \in [Ingesters -> Call] /\ calls'[c] = call
      /\ \A d \in Ingesters \ {c} : calls'[d] = calls[d]
  BY <1>2, <1>3, <1>4, OneCall
<1>6. ASSUME NEW d \in Ingesters PROVE FreshCall(d)' /\ CancellingCall(d)'
  <2>1. CancellingCall(c) /\ CancellingCall(d) /\ FreshCall(d)
    BY DEF Inv, Fresh, Cancelling
  <2>2. CASE d = c
    BY <2>2, <1>1, <1>3, <1>5, <2>1 DEF FreshCall, CancellingCall
  <2>3. CASE d # c
    BY <2>3, <1>1, <1>5, <2>1 DEF FreshCall, CancellingCall
  <2> QED BY <2>2, <2>3
<1>7. back' \subseteq Items
  BY <1>1, <1>2 DEF TypeOK
<1>8. alone' = alone
  BY DEF Revert, RevertFails
<1> QED BY <1>1, <1>2, <1>5, <1>6, <1>7, <1>8 DEF Inv, TypeOK, Fresh, Cancelling, SingleOut,
       DeductedSome, DeductedMeansTaken, ReturnsWereTaken, CancelledMeansReturned

(* A cancellation marks the order.                                         *)
LEMMA MarkInv == ASSUME Inv, NEW c \in Ingesters, MarkCancelled(c) PROVE Inv'
<1>1. /\ Done(c) /\ calls[c].pc = "cancel"
      /\ UNCHANGED <<remote, out, back, unreturned, alone, faults>>
  BY DEF MarkCancelled
<1>2. order' \in Order /\ order'.logistics = "cancelled"
  <2>1. order \in Order
    BY DEF Inv, TypeOK
  <2> QED BY <2>1 DEF MarkCancelled, Order, Statuses
<1>3. /\ calls' \in [Ingesters -> Call] /\ calls'[c].pc = "idle"
      /\ \A d \in Ingesters \ {c} : calls'[d] = calls[d]
  BY <1>1, DoneEffect DEF Inv
<1>4. Fresh' /\ Cancelling'
  BY <1>1, <1>2, <1>3, OthersKept
<1>5. out \subseteq back \cup unreturned
  BY <1>1 DEF Inv, Cancelling, CancellingCall
<1> QED BY <1>1, <1>2, <1>3, <1>4, <1>5 DEF Inv, TypeOK, SingleOut, DeductedSome,
       DeductedMeansTaken, ReturnsWereTaken, CancelledMeansReturned

-----------------------------------------------------------------------------
(* Every step keeps the invariant.                                         *)
LEMMA NextInv == Inv /\ [Next]_vars => Inv'
<1> SUFFICES ASSUME Inv, [Next]_vars PROVE Inv'
  OBVIOUS
<1>1. CASE RemoteStatus \/ RemoteShipment
  BY <1>1, RemoteInv
<1>2. CASE \E c \in Ingesters :
             Step(c) \/ RegistrationFails(c) \/ RevertFails(c) \/ Crash(c)
  <2>1. PICK c \in Ingesters :
             Step(c) \/ RegistrationFails(c) \/ RevertFails(c) \/ Crash(c)
    BY <1>2
  <2> QED BY <2>1, FetchInv, ReadInv, RegisterInv, SellInv, OverInv, UpdateInv, RevertInv,
             MarkInv DEF Step
<1>3. CASE UNCHANGED vars
  <2>1. /\ remote' = remote /\ order' = order /\ out' = out /\ back' = back /\ calls' = calls
        /\ unreturned' = unreturned /\ alone' = alone /\ faults' = faults
    BY <1>3 DEF vars
  <2> QED BY <2>1 DEF Inv, TypeOK, Fresh, FreshCall, Cancelling, CancellingCall, SingleOut,
       DeductedSome, DeductedMeansTaken, ReturnsWereTaken, CancelledMeansReturned
<1> QED BY <1>1, <1>2, <1>3 DEF Next

(* The inductive invariant holds of every behaviour.                       *)
THEOREM Invariance == Spec => []Inv
<1> QED BY InitInv, NextInv, PTL DEF Spec

(* The state has its type.                                                 *)
THEOREM Typed == Spec => []TypeOK
<1>1. Inv => TypeOK
  BY DEF Inv
<1> QED BY <1>1, Invariance, PTL

(* A deducted order has the stock of every item it has a product for,      *)
(* whatever concurrent calls of execute() post or replace meanwhile.       *)
THEOREM Deducted == Spec => []DeductedMeansTaken
<1>1. Inv => DeductedMeansTaken
  BY DEF Inv
<1> QED BY <1>1, Invariance, PTL

(* A cancellation returns nothing that was not taken, however often it is  *)
(* delivered and wherever the call before it died.                         *)
THEOREM ReturnsTaken == Spec => []ReturnsWereTaken
<1>1. Inv => ReturnsWereTaken
  BY DEF Inv
<1> QED BY <1>1, Invariance, PTL

(* handleCancellation marks an order cancelled only once its stock is back *)
(* or the return has failed.                                               *)
THEOREM CancelledReturned == Spec => []CancelledMeansReturned
<1>1. Inv => CancelledMeansReturned
  BY DEF Inv
<1> QED BY <1>1, Invariance, PTL

-----------------------------------------------------------------------------
(* The sale of an order of one item takes all of it or nothing.            *)
LEMMA SellTracked ==
  ASSUME NItems = 1, Inv, NEW c \in Ingesters, Sell(c), StockOutIsTracked
  PROVE  StockOutIsTracked'
<1>1. PICK stores \in SUBSET calls[c].linked :
        LET taken == Posted(out, stores)
            logistics == LogisticsAfter(calls[c].linked, taken) IN
        /\ out' = out \cup taken
        /\ taken \subseteq Items
        /\ order' \in Order
        /\ order'.linked = calls[c].linked /\ order'.logistics = logistics
        /\ order.logistics # "deducted"
        /\ calls' \in [Ingesters -> Call] /\ calls'[c].pc = "emit"
        /\ \A d \in Ingesters \ {c} :
             calls'[d] = [calls[d] EXCEPT !.stale = calls[d].old # Absent]
  BY SellEffect
<1> DEFINE taken == Posted(out, stores)
<1>2. calls[c].linked \subseteq {1}
  <2>1. calls[c].linked \subseteq Items
    BY DEF Inv, TypeOK, Call
  <2> QED BY <2>1 DEF Items
<1>3. taken \subseteq stores
  <2>1. stores \in SUBSET Items
    BY DEF Inv, TypeOK, Call
  <2> QED BY <2>1, PostedOnce
<1>4. /\ back' = back /\ unreturned' = unreturned /\ out' = out \cup taken
      /\ order.logistics # "deducted"
      /\ order'.logistics = LogisticsAfter(calls[c].linked, taken)
  BY <1>1 DEF Sell
<1> HIDE DEF taken
<1>5. CASE taken = {}
  BY <1>4, <1>5 DEF StockOutIsTracked
<1>6. CASE taken # {}
  <2>1. taken = calls[c].linked
    BY <1>2, <1>3, <1>6
  <2> QED BY <1>4, <1>6, <2>1 DEF LogisticsAfter, StockOutIsTracked
<1> QED BY <1>5, <1>6

(* No step of an order of one item loses track of stock that is out.       *)
LEMMA NextTracked ==
  ASSUME NItems = 1, Inv, StockOutIsTracked, [Next]_vars
  PROVE  StockOutIsTracked'
<1>1. ASSUME NEW c \in Ingesters, Register(c) PROVE StockOutIsTracked'
  <2>1. /\ calls[c].pc = "register" /\ Upsert(c, "pending", "idle")
        /\ UNCHANGED <<out, back, unreturned>>
    BY <1>1 DEF Register
  <2>2. order.logistics # "deducted"
    BY <2>1, UpsertEffect
  <2> QED BY <2>1, <2>2 DEF StockOutIsTracked
<1>2. ASSUME NEW c \in Ingesters, RegistrationFails(c) \/ Crash(c) PROVE StockOutIsTracked'
  BY <1>2 DEF RegistrationFails, Crash, StockOutIsTracked
<1>3. ASSUME NEW c \in Ingesters, Emit(c) \/ UpdateStatus(c) \/ UpdateShipping(c)
      PROVE  StockOutIsTracked'
  <2>1. UNCHANGED <<out, back, unreturned>>
    BY <1>3 DEF Emit, UpdateStatus, UpdateShipping
  <2>2. order'.logistics = order.logistics
    BY <1>3 DEF Emit, UpdateStatus, UpdateShipping, Inv, TypeOK, Order
  <2> QED BY <2>1, <2>2 DEF StockOutIsTracked
<1>4. ASSUME NEW c \in Ingesters, Revert(c) \/ RevertFails(c) PROVE StockOutIsTracked'
  BY <1>4, RevertEffect DEF StockOutIsTracked
<1>5. ASSUME NEW c \in Ingesters, MarkCancelled(c) PROVE StockOutIsTracked'
  <2>1. calls[c].pc = "cancel" /\ UNCHANGED <<out, back, unreturned>>
    BY <1>5 DEF MarkCancelled
  <2> QED BY <2>1 DEF Inv, Cancelling, CancellingCall, StockOutIsTracked
<1>6. ASSUME UNCHANGED <<order, out, back, unreturned>> PROVE StockOutIsTracked'
  BY <1>6 DEF StockOutIsTracked
<1>7. ASSUME NEW c \in Ingesters,
             Step(c) \/ RegistrationFails(c) \/ RevertFails(c) \/ Crash(c)
      PROVE  StockOutIsTracked'
  <2>1. CASE Fetch(c) \/ Read(c)
    BY <1>6, <2>1 DEF Fetch, Read
  <2> QED BY <1>1, <1>2, <1>3, <1>4, <1>5, <1>7, <2>1, SellTracked DEF Step
<1>8. CASE RemoteStatus \/ RemoteShipment \/ UNCHANGED vars
  BY <1>6, <1>8 DEF RemoteStatus, RemoteShipment, vars
<1> QED BY <1>7, <1>8 DEF Next

(* The stock an order of one item has out is returned by a later           *)
(* cancellation, because the order says that it is deducted.               *)
THEOREM Tracked == NItems = 1 => (Spec => []StockOutIsTracked)
<1> SUFFICES ASSUME NItems = 1 PROVE Spec => []StockOutIsTracked
  OBVIOUS
<1>1. Init => StockOutIsTracked
  BY DEF Init, StockOutIsTracked
<1>2. Inv /\ StockOutIsTracked /\ [Next]_vars => StockOutIsTracked'
  BY NextTracked
<1> QED BY <1>1, <1>2, Invariance, PTL DEF Spec

-----------------------------------------------------------------------------
(* A cancellation that is ingested alone settles the order.                *)

\* What a call is about to do fits what it has fetched and what is out.
ActingCall(c) ==
    /\ calls[c].pc = "sell" => calls[c].got.status \in Confirmed
    /\ calls[c].pc = "status" => calls[c].got.status # "cancelled"
    /\ calls[c].pc \in {"status", "revert", "cancel"} => out # {}

\* Until stock is out, the status that a sale has read is the document's.
SteadyCall(c) ==
    calls[c].pc = "sell" /\ calls[c].old # Absent /\ ~calls[c].stale /\ out = {}
      => order.status = calls[c].old.status

\* No order is cancelled and still deducted, so that every ingestion of a cancelled
\* order returns what is deducted.
HeldOpen == order.logistics = "deducted" => order.status # "cancelled"

Settled == order.status = "cancelled" /\ order.logistics # "deducted"
GotCancelled(c) == calls[c].pc # "idle" => calls[c].got.status = "cancelled"
SettlingCall(c) ==
    /\ calls[c].pc \in {"idle", "read", "register", "revert", "cancel"}
    /\ calls[c].pc = "idle" => Settled
    /\ calls[c].pc = "register" => /\ order.logistics # "deducted"
                                   /\ calls[c].old.status = "cancelled" => Settled

\* Once a call has begun alone on the cancelled order, nobody acts on an older one.
Settling ==
    \A c \in alone :
        /\ remote.status = "cancelled" /\ SettlingCall(c)
        /\ \A d \in Ingesters : GotCancelled(d)

Arriving == HeldOpen /\ Settling /\ \A c \in Ingesters : ActingCall(c) /\ SteadyCall(c)

(* A step of call c that is no registration and no fetch, from what it     *)
(* does to c and to the status of the document.                            *)
LEMMA CallArriving ==
  ASSUME Inv, Arriving, NEW c \in Ingesters,
         \A d \in Ingesters \ {c} : calls'[d] = calls[d],
         out' = out, remote' = remote, alone' \subseteq alone,
         order'.status = order.status \/ out # {},
         HeldOpen', ActingCall(c)', SteadyCall(c)',
         alone # {} => /\ GotCancelled(c)'
                       /\ order.status = "cancelled" => order'.status = "cancelled"
                       /\ order.logistics # "deducted" => order'.logistics # "deducted",
         c \in alone' => SettlingCall(c)'
  PROVE  Arriving'
<1>1. ASSUME NEW d \in Ingesters PROVE ActingCall(d)' /\ SteadyCall(d)'
  <2>1. CASE d = c
    BY <2>1
  <2>2. CASE d # c
    <3>1. calls'[d] = calls[d] /\ ActingCall(d) /\ SteadyCall(d)
      BY <2>2 DEF Arriving
    <3> QED BY <3>1 DEF ActingCall, SteadyCall
  <2> QED BY <2>1, <2>2
<1>2. ASSUME NEW d \in alone' PROVE remote'.status = "cancelled" /\ SettlingCall(d)'
  <2>1. d \in alone /\ d \in Ingesters /\ remote.status = "cancelled" /\ SettlingCall(d)
    BY <1>2 DEF Arriving, Settling, Inv, TypeOK
  <2>2. CASE d = c
    BY <1>2, <2>1, <2>2
  <2>3. CASE d # c
    <3>1. calls'[d] = calls[d]
      BY <2>1, <2>3
    <3> QED BY <2>1, <3>1 DEF SettlingCall, Settled
  <2> QED BY <2>1, <2>2, <2>3
<1>3. ASSUME NEW e \in alone', NEW d \in Ingesters PROVE GotCancelled(d)'
  <2>1. e \in alone /\ GotCancelled(d)
    BY <1>3 DEF Arriving, Settling
  <2>2. CASE d = c
    BY <2>1, <2>2
  <2>3. CASE d # c
    BY <2>1, <2>3 DEF GotCancelled
  <2> QED BY <2>2, <2>3
<1> QED BY <1>1, <1>2, <1>3 DEF Arriving, Settling

(* A call reads the document: one that is cancelled at the marketplace is  *)
(* registered if nothing is deducted, and otherwise cancelled.             *)
LEMMA ReadArriving == ASSUME Inv, Arriving, NEW c \in Ingesters, Read(c) PROVE Arriving'
<1> DEFINE next == Decide(order, calls[c].got)
           call == IF next = "idle" THEN Idle
                   ELSE [calls[c] EXCEPT !.pc = next, !.old = order]
<1>1. calls[c] \in Call /\ calls[c].got \in Remote /\ TypeOK /\ calls[c].pc = "read"
  BY DEF Inv, TypeOK, Call, Read
<1>2. calls' = [calls EXCEPT ![c] = call]
  BY DEF Read
<1>3. UNCHANGED <<remote, order, out, back, unreturned, alone, faults>>
  BY DEF Read
<1>4. /\ next = "sell" => calls[c].got.status \in Confirmed
      /\ next = "status" => calls[c].got.status # "cancelled" /\ order.logistics = "deducted"
      /\ next = "revert" => order.logistics = "deducted"
      /\ next # "cancel"
      /\ next = "register" => order.logistics # "deducted"
  BY DEF Decide, HoldsStock, KnownSubstatus, Announced
<1>5. calls[c].got.status = "cancelled" => next \in {"register", "revert"}
  BY DEF Decide, HoldsStock, Arriving, HeldOpen, Confirmed
<1>6. /\ call \in Call
      /\ call.pc = next
      /\ next # "idle" => call.old = order /\ call.got = calls[c].got
  <2>1. next \in {"idle", "register", "sell", "status", "shipping", "revert", "emit"}
    <3> HIDE DEF next
    <3> QED BY Decision DEF next
  <2>2. order \in Order
    BY <1>1 DEF TypeOK
  <2> HIDE DEF next
  <2>3. CASE next = "idle"
    BY <2>3, IdleType
  <2>4. CASE next # "idle"
    BY <1>1, <2>1, <2>2, <2>4 DEF Call
  <2> QED BY <2>3, <2>4
<1> HIDE DEF next, call
<1>7. calls'[c] = call /\ \A d \in Ingesters \ {c} : calls'[d] = calls[d]
  BY <1>1, <1>2, <1>6, OneCall
<1>8. ActingCall(c)' /\ SteadyCall(c)'
  <2>1. order.logistics = "deducted" => out # {}
    BY DEF Inv, DeductedSome
  <2> QED BY <1>3, <1>4, <1>6, <1>7, <2>1 DEF ActingCall, SteadyCall
<1>9. alone # {} => calls[c].got.status = "cancelled"
  BY <1>1 DEF Arriving, Settling, GotCancelled
<1>10. alone # {} => GotCancelled(c)'
  BY <1>5, <1>6, <1>7, <1>9 DEF GotCancelled
<1>11. c \in alone => SettlingCall(c)'
  <2>1. c \in alone => next \in {"register", "revert"}
    BY <1>5, <1>9
  <2> QED BY <1>3, <1>4, <1>6, <1>7, <2>1 DEF SettlingCall, Settled
<1>12. HeldOpen'
  BY <1>3 DEF Arriving, HeldOpen
<1> QED BY <1>3, <1>7, <1>8, <1>10, <1>11, <1>12, CallArriving

(* A call goes on to the cancellation of the document.                     *)
LEMMA RevertArriving ==
  ASSUME Inv, Arriving, NEW c \in Ingesters, Revert(c) \/ RevertFails(c)
  PROVE  Arriving'
<1>1. /\ calls[c].pc = "revert" /\ calls' = [calls EXCEPT ![c].pc = "cancel"]
      /\ order' = order /\ out' = out /\ remote' = remote /\ alone' = alone
  BY RevertEffect DEF Revert, RevertFails
<1>2. calls[c] \in Call /\ TypeOK
  BY DEF Inv, TypeOK
<1>3. /\ calls'[c].pc = "cancel" /\ calls'[c].got = calls[c].got
      /\ \A d \in Ingesters \ {c} : calls'[d] = calls[d]
  BY <1>1, <1>2 DEF TypeOK, Call
<1>4. ActingCall(c)' /\ SteadyCall(c)' /\ SettlingCall(c)'
  <2>1. out # {}
    BY <1>1 DEF Arriving, ActingCall
  <2> QED BY <1>1, <1>3, <2>1 DEF ActingCall, SteadyCall, SettlingCall
<1>5. alone # {} => GotCancelled(c)'
  BY <1>1, <1>3 DEF Arriving, Settling, GotCancelled
<1>6. HeldOpen'
  BY <1>1 DEF Arriving, HeldOpen
<1> QED BY <1>1, <1>3, <1>4, <1>5, <1>6, CallArriving

(* A call ends.                                                            *)
LEMMA EndArriving ==
  ASSUME Inv, Arriving, NEW c \in Ingesters,
         \/ RegistrationFails(c) \/ Crash(c) \/ Emit(c) \/ UpdateStatus(c)
         \/ UpdateShipping(c) \/ MarkCancelled(c)
  PROVE  Arriving'
<1>1. /\ Done(c) /\ out' = out /\ remote' = remote /\ TypeOK
      /\ alone' \subseteq alone
  BY DEF RegistrationFails, Crash, Emit, UpdateStatus, UpdateShipping, MarkCancelled, Inv
<1>2. calls'[c].pc = "idle" /\ \A d \in Ingesters \ {c} : calls'[d] = calls[d]
  BY <1>1, DoneEffect
<1>3. ActingCall(c)' /\ SteadyCall(c)' /\ GotCancelled(c)'
  BY <1>2 DEF ActingCall, SteadyCall, GotCancelled
<1>4. ActingCall(c) /\ order \in Order
  BY <1>1 DEF Arriving, TypeOK
<1>5. c \in alone => SettlingCall(c)
  BY DEF Arriving, Settling
<1>6. CASE RegistrationFails(c) \/ Crash(c)
  <2>1. order' = order /\ c \notin alone'
    BY <1>6 DEF RegistrationFails, Crash
  <2>2. HeldOpen'
    BY <2>1 DEF Arriving, HeldOpen
  <2> QED BY <1>1, <1>2, <1>3, <2>1, <2>2, CallArriving
<1>7. CASE Emit(c) \/ UpdateShipping(c)
  <2>1. /\ order'.status = order.status /\ order'.logistics = order.logistics
        /\ alone' = alone /\ calls[c].pc \in {"emit", "shipping"}
    BY <1>4, <1>7 DEF Emit, UpdateShipping, Order
  <2>2. HeldOpen'
    BY <2>1 DEF Arriving, HeldOpen
  <2>3. c \notin alone'
    BY <1>5, <2>1 DEF SettlingCall
  <2> QED BY <1>1, <1>2, <1>3, <2>1, <2>2, <2>3, CallArriving
<1>8. CASE UpdateStatus(c)
  <2>1. /\ order'.status = calls[c].got.status /\ order'.logistics = order.logistics
        /\ alone' = alone /\ calls[c].pc = "status"
    BY <1>4, <1>8 DEF UpdateStatus, Order
  <2>2. calls[c].got.status # "cancelled" /\ out # {}
    BY <1>4, <2>1 DEF ActingCall
  <2>3. HeldOpen'
    BY <2>1, <2>2 DEF HeldOpen
  <2>4. alone = {}
    BY <2>1, <2>2 DEF Arriving, Settling, GotCancelled
  <2> QED BY <1>1, <1>2, <1>3, <2>1, <2>2, <2>3, <2>4, CallArriving
<1>9. CASE MarkCancelled(c)
  <2>1. /\ order'.status = "cancelled" /\ order'.logistics = "cancelled"
        /\ alone' = alone /\ calls[c].pc = "cancel"
    BY <1>4, <1>9 DEF MarkCancelled, Order
  <2>2. out # {}
    BY <1>4, <2>1 DEF ActingCall
  <2>3. HeldOpen' /\ SettlingCall(c)'
    BY <1>2, <2>1 DEF HeldOpen, SettlingCall, Settled
  <2> QED BY <1>1, <1>2, <1>3, <2>1, <2>2, <2>3, CallArriving
<1> QED BY <1>6, <1>7, <1>8, <1>9

(* A call fetches the order; if it is cancelled and no other call is in    *)
(* progress, every call in progress has fetched it cancelled from now on.  *)
LEMMA FetchArriving == ASSUME Inv, Arriving, NEW c \in Ingesters, Fetch(c) PROVE Arriving'
<1>1. PICK linked \in SUBSET Items :
        calls' = [calls EXCEPT ![c] = [Idle EXCEPT !.pc = "read", !.got = remote,
                                                   !.linked = linked]]
  BY DEF Fetch
<1> DEFINE call == [Idle EXCEPT !.pc = "read", !.got = remote, !.linked = linked]
<1>2. call \in Call /\ call.pc = "read" /\ call.got = remote
  BY IdleType DEF Call, Idle, Inv, TypeOK
<1> HIDE DEF call
<1>3. /\ calls'[c] = call
      /\ \A d \in Ingesters \ {c} : calls'[d] = calls[d]
  BY <1>1, <1>2, OneCall DEF Inv, call
<1>4. UNCHANGED <<remote, order, out, back, unreturned, faults>>
  BY DEF Fetch
<1>5. ASSUME NEW d \in Ingesters PROVE ActingCall(d)' /\ SteadyCall(d)'
  <2>1. ActingCall(d) /\ SteadyCall(d)
    BY DEF Arriving
  <2> QED BY <1>2, <1>3, <1>4, <2>1 DEF ActingCall, SteadyCall
<1>6. alone' # {} => remote.status = "cancelled" /\ \A d \in Ingesters : GotCancelled(d)'
  <2>1. CASE alone # {}
    <3>1. remote.status = "cancelled" /\ \A d \in Ingesters : GotCancelled(d)
      BY <2>1 DEF Arriving, Settling
    <3> QED BY <1>2, <1>3, <3>1 DEF GotCancelled
  <2>2. CASE alone = {} /\ alone' # {}
    <3>1. remote.status = "cancelled" /\ \A d \in Ingesters \ {c} : calls[d].pc = "idle"
      BY <2>2 DEF Fetch
    <3> QED BY <1>2, <1>3, <3>1 DEF GotCancelled
  <2> QED BY <2>1, <2>2
<1>7. ASSUME NEW d \in alone' PROVE SettlingCall(d)'
  <2>1. CASE d = c
    BY <1>2, <1>3, <2>1 DEF SettlingCall
  <2>2. CASE d # c
    <3>1. d \in alone
      BY <1>7, <2>2 DEF Fetch
    <3>2. d \in Ingesters /\ SettlingCall(d)
      BY <3>1 DEF Arriving, Settling, Inv, TypeOK
    <3> QED BY <1>3, <1>4, <2>2, <3>2 DEF SettlingCall, Settled
  <2> QED BY <2>1, <2>2
<1>8. HeldOpen'
  BY <1>4 DEF Arriving, HeldOpen
<1> QED BY <1>4, <1>5, <1>6, <1>7, <1>8 DEF Arriving, Settling

(* The status that save() writes is the fetched one, unless the call has   *)
(* read that one: then it is left as it is.                                *)
LEMMA SavedStatus ==
  ASSUME TypeOK, NEW c \in Ingesters, NEW logistics \in {"pending", "deducted", "unresolved"}
  PROVE  Saved(c, logistics).status =
           IF calls[c].got.status # calls[c].old.status THEN calls[c].got.status ELSE order.status
<1> DEFINE new == [status |-> calls[c].got.status, sub |-> calls[c].got.sub,
                   logistics |-> logistics, linked |-> calls[c].linked]
           always == IF calls[c].pc = "sell" THEN {"linked", "logistics"} ELSE {"linked"}
           dirty == {f \in DOMAIN new : new[f] # calls[c].old[f]} \cup always
           saved == [f \in DOMAIN order |-> IF f \in dirty THEN new[f] ELSE order[f]]
<1>1. DOMAIN order = Fields
  BY DEF TypeOK, Order, Fields
<1>2. /\ new.status = calls[c].got.status
      /\ "status" \in dirty <=> calls[c].got.status # calls[c].old.status
  OBVIOUS
<1>3. saved = [f \in Fields |-> IF f \in dirty THEN new[f] ELSE order[f]]
  BY <1>1
<1>4. saved.status = IF "status" \in dirty THEN new.status ELSE order.status
  <2> HIDE DEF new, dirty
  <2> QED BY <1>3 DEF Fields
<1>5. Saved(c, logistics) = saved
  BY DEF Saved
<1> QED BY <1>2, <1>4, <1>5

(* A registration leaves the other calls where they are, and makes what    *)
(* they have read too old for a save.                                      *)
LEMMA OthersArriving ==
  ASSUME Inv, Arriving, NEW c \in Ingesters,
         \A d \in Ingesters \ {c} :
           calls'[d] = [calls[d] EXCEPT !.stale = calls[d].old # Absent],
         out \subseteq out',
         NEW d \in Ingesters \ {c}
  PROVE  /\ ActingCall(d)' /\ SteadyCall(d)'
         /\ calls'[d].pc = calls[d].pc /\ calls'[d].got = calls[d].got
         /\ calls'[d].old = calls[d].old
<1>1. calls[d] \in Call /\ ActingCall(d)
  BY DEF Inv, TypeOK, Arriving
<1>2. /\ calls'[d].pc = calls[d].pc /\ calls'[d].got = calls[d].got
      /\ calls'[d].old = calls[d].old /\ calls'[d].stale = (calls[d].old # Absent)
  BY <1>1 DEF Call
<1>3. ActingCall(d)'
  <2>1. out # {} => out' # {}
    OBVIOUS
  <2> QED BY <1>1, <1>2, <2>1 DEF ActingCall
<1>4. CASE calls[d].old = Absent
  <2>1. calls'[d].old = Absent
    BY <1>2, <1>4
  <2> QED BY <1>2, <1>3, <2>1 DEF SteadyCall
<1>5. CASE calls[d].old # Absent
  <2>1. calls'[d].stale
    BY <1>2, <1>5
  <2> QED BY <1>2, <1>3, <2>1 DEF SteadyCall
<1> QED BY <1>4, <1>5

(* A registration without stock writes the fetched status.                 *)
LEMMA RegisterArriving == ASSUME Inv, Arriving, NEW c \in Ingesters, Register(c) PROVE Arriving'
<1>1. /\ calls[c].pc = "register" /\ Upsert(c, "pending", "idle")
      /\ UNCHANGED <<remote, out, back, unreturned, alone, faults>> /\ TypeOK
  BY DEF Register, Inv
<1>2. /\ order' = Saved(c, "pending") /\ order.logistics # "deducted"
      /\ calls'[c].pc = "idle"
      /\ \A d \in Ingesters \ {c} :
           calls'[d] = [calls[d] EXCEPT !.stale = calls[d].old # Absent]
  BY <1>1, UpsertEffect
<1>3. /\ order'.logistics # "deducted"
      /\ order'.status = IF calls[c].got.status # calls[c].old.status
                         THEN calls[c].got.status ELSE order.status
  BY <1>1, <1>2, SavedType, SavedStatus
<1>4. ASSUME NEW d \in Ingesters PROVE ActingCall(d)' /\ SteadyCall(d)'
  <2>1. CASE d = c
    BY <1>2, <2>1 DEF ActingCall, SteadyCall
  <2>2. CASE d # c
    BY <1>1, <1>2, <2>2, OthersArriving
  <2> QED BY <2>1, <2>2
<1>5. ASSUME NEW e \in alone PROVE remote.status = "cancelled" /\ calls[c].got.status = "cancelled"
  BY <1>1 DEF Arriving, Settling, GotCancelled
<1>6. ASSUME NEW e \in alone, NEW d \in Ingesters PROVE GotCancelled(d)'
  <2>1. GotCancelled(d)
    BY <1>6 DEF Arriving, Settling
  <2>2. CASE d = c
    BY <1>2, <2>2 DEF GotCancelled
  <2>3. CASE d # c
    BY <1>1, <1>2, <2>1, <2>3, OthersArriving DEF GotCancelled
  <2> QED BY <2>2, <2>3
<1>7. ASSUME NEW d \in alone PROVE SettlingCall(d)'
  <2>1. d \in Ingesters /\ SettlingCall(d) /\ calls[c].got.status = "cancelled"
    BY <1>5, <1>7 DEF Arriving, Settling, Inv, TypeOK
  <2>2. Settled => Settled'
    BY <1>3, <2>1 DEF Settled
  <2>3. CASE d = c
    <3>1. order'.status = "cancelled"
      BY <1>1, <1>3, <2>1, <2>3 DEF SettlingCall, Settled
    <3> QED BY <1>2, <1>3, <2>3, <3>1 DEF SettlingCall, Settled
  <2>4. CASE d # c
    <3>1. calls'[d].pc = calls[d].pc /\ calls'[d].old = calls[d].old
      BY <1>1, <1>2, <2>1, <2>4, OthersArriving
    <3> QED BY <1>3, <2>1, <2>2, <3>1 DEF SettlingCall
  <2> QED BY <2>3, <2>4
<1>8. HeldOpen'
  BY <1>3 DEF HeldOpen
<1> QED BY <1>1, <1>4, <1>5, <1>6, <1>7, <1>8 DEF Arriving, Settling

(* A sale is of a confirmed order, and nobody sells once a call has begun  *)
(* alone on the cancelled one.                                             *)
LEMMA SellArriving == ASSUME Inv, Arriving, NEW c \in Ingesters, Sell(c) PROVE Arriving'
<1>1. PICK stores \in SUBSET calls[c].linked :
        LET taken == Posted(out, stores)
            logistics == LogisticsAfter(calls[c].linked, taken) IN
        /\ Upsert(c, logistics, "emit") /\ out' = out \cup taken
  BY DEF Sell
<1> DEFINE taken == Posted(out, stores)
           logistics == LogisticsAfter(calls[c].linked, taken)
<1>2. calls[c].pc = "sell" /\ TypeOK /\ alone' = alone
  BY DEF Sell, Inv
<1>3. logistics \in {"deducted", "unresolved"} /\ (logistics = "deducted" => taken # {})
  BY DEF LogisticsAfter
<1>4. out # {} => taken = {}
  <2>1. stores \in SUBSET Items
    BY <1>2 DEF TypeOK, Call
  <2> QED BY <2>1, PostedOnce
<1>5. Upsert(c, logistics, "emit") /\ out \subseteq out'
  BY <1>1
<1> HIDE DEF taken, logistics
<1>6. /\ order' = Saved(c, logistics)
      /\ calls'[c].pc = "emit"
      /\ \A d \in Ingesters \ {c} :
           calls'[d] = [calls[d] EXCEPT !.stale = calls[d].old # Absent]
  BY <1>2, <1>3, <1>5, UpsertEffect
<1>7. /\ order'.logistics = logistics
      /\ order'.status = IF calls[c].got.status # calls[c].old.status
                         THEN calls[c].got.status ELSE order.status
  BY <1>2, <1>3, <1>6, SavedType, SavedStatus
<1>8. calls[c].got.status \in Confirmed
  BY <1>2 DEF Arriving, ActingCall
<1>9. alone = {}
  BY <1>2, <1>8 DEF Arriving, Settling, GotCancelled, Confirmed
<1>10. HeldOpen'
  <2>1. CASE out = {}
    <3>1. order.status = calls[c].old.status
      <4>1. CASE calls[c].old = Absent
        BY <1>5, <4>1 DEF Upsert, CanSave
      <4>2. CASE calls[c].old # Absent
        BY <1>2, <1>5, <2>1, <4>2 DEF Upsert, CanSave, Arriving, SteadyCall
      <4> QED BY <4>1, <4>2
    <3>2. order'.status = calls[c].got.status
      BY <1>7, <3>1
    <3> QED BY <1>8, <3>2 DEF HeldOpen, Confirmed
  <2>2. CASE out # {}
    BY <1>3, <1>4, <1>7, <2>2 DEF HeldOpen
  <2> QED BY <2>1, <2>2
<1>11. ASSUME NEW d \in Ingesters PROVE ActingCall(d)' /\ SteadyCall(d)'
  <2>1. CASE d = c
    BY <1>6, <2>1 DEF ActingCall, SteadyCall
  <2>2. CASE d # c
    BY <1>5, <1>6, <2>2, OthersArriving
  <2> QED BY <2>1, <2>2
<1> QED BY <1>2, <1>9, <1>10, <1>11 DEF Arriving, Settling

(* Every step keeps it; a cancelled order stays cancelled at the           *)
(* marketplace.                                                            *)
LEMMA NextArriving == ASSUME Inv, Arriving, [Next]_vars PROVE Arriving'
<1>1. CASE RemoteStatus \/ RemoteShipment
  <2>1. UNCHANGED <<order, out, back, calls, unreturned, alone, faults>>
    BY <1>1 DEF RemoteStatus, RemoteShipment
  <2>2. remote.status = "cancelled" => remote'.status = "cancelled"
    BY <1>1 DEF RemoteStatus, RemoteShipment, Confirmed, Statuses
  <2> QED BY <2>1, <2>2 DEF Arriving, HeldOpen, Settling, ActingCall, SteadyCall, SettlingCall,
             Settled, GotCancelled
<1>2. CASE \E c \in Ingesters :
             Step(c) \/ RegistrationFails(c) \/ RevertFails(c) \/ Crash(c)
  <2>1. PICK c \in Ingesters :
             Step(c) \/ RegistrationFails(c) \/ RevertFails(c) \/ Crash(c)
    BY <1>2
  <2> QED BY <2>1, FetchArriving, ReadArriving, RegisterArriving, SellArriving, EndArriving,
             RevertArriving DEF Step
<1>3. CASE UNCHANGED vars
  <2>1. UNCHANGED <<remote, order, out, calls, alone>>
    BY <1>3 DEF vars
  <2> QED BY <2>1 DEF Arriving, HeldOpen, Settling, ActingCall, SteadyCall, SettlingCall,
             Settled, GotCancelled
<1> QED BY <1>1, <1>2, <1>3 DEF Next

(* An ingestion of a cancelled order of one item that begins with no other *)
(* in progress, and does not fail, leaves the order cancelled and no stock *)
(* of it out, whatever crashes and late calls have left before, and        *)
(* whatever calls overlap it or follow.                                    *)
THEOREM Arrives == NItems = 1 => (Spec => []CancellationsArrive)
<1> SUFFICES ASSUME NItems = 1 PROVE Spec => []CancellationsArrive
  OBVIOUS
<1>1. Init => Arriving /\ StockOutIsTracked
  <2> SUFFICES ASSUME Init PROVE Arriving /\ StockOutIsTracked
    OBVIOUS
  <2>1. /\ \A c \in Ingesters : calls[c].pc = "idle"
        /\ alone = {} /\ out = {} /\ order.logistics = "none"
    BY IdleType DEF Init, Absent
  <2> QED BY <2>1 DEF Arriving, HeldOpen, Settling, ActingCall, SteadyCall, StockOutIsTracked
<1>2. Inv /\ Arriving /\ [Next]_vars => Arriving'
  BY NextArriving
<1>3. Inv /\ StockOutIsTracked /\ [Next]_vars => StockOutIsTracked'
  BY NextTracked
<1>4. Arriving /\ StockOutIsTracked => CancellationsArrive
  BY DEF Arriving, Settling, SettlingCall, Settled, StockOutIsTracked, CancellationsArrive
<1> QED BY <1>1, <1>2, <1>3, <1>4, Invariance, PTL DEF Spec
=============================================================================
