------------------------ MODULE ProductDeletionProofs ------------------------
(***************************************************************************)
(* For every number of listings, overlapping requests and disturbances,    *)
(* and any prefetch: the safety properties of ProductDeletion.  Each of    *)
(* the three has an inductive invariant of its own.                        *)
(***************************************************************************)
EXTENDS ProductDeletion, TLAPS

-----------------------------------------------------------------------------
(* Types.                                                                  *)

(* The records that callers and listings go through have their types.      *)
LEMMA RecordTypes ==
  /\ Quiet \in Caller /\ Quiet.pc = "idle" /\ Quiet.sent = {}
  /\ Gone \in Listing /\ Gone.status = "gone" /\ ~Gone.externalId
BY DEF Quiet, Caller, Gone, Listing

(* What a caller does after a removal is well typed, and for a request it  *)
(* counts the listing among those sent.                                    *)
LEMMA DoneType ==
  ASSUME TypeOK, NEW p \in Callers, NEW l \in Listings
  PROVE  /\ Done(p, l) \in Caller
         /\ Failed(p, l) \in Caller
         /\ p # "worker" => /\ Done(p, l).pc \in {"remove", "register"}
                            /\ Done(p, l).pc = "register" <=> Done(p, l).todo = {}
                            /\ Done(p, l).todo = caller[p].todo \ {l}
                            /\ Done(p, l).sent = caller[p].sent \cup {l}
                            /\ Failed(p, l) = Quiet
         /\ p = "worker" => Done(p, l).pc = "bump" /\ Failed(p, l).pc = "give_up"
<1>1. caller[p] \in Caller
  BY DEF TypeOK
<1> QED BY <1>1 DEF Done, Failed, Quiet, Caller, Callers

(* A result leaves a listing well typed.                                   *)
LEMMA AppliedType ==
  ASSUME TypeOK, NEW r \in results
  PROVE  Applied(r) \in Listing
<1>1. r \in Result /\ r.job \in Job /\ listing[r.job.id] \in Listing
  BY DEF TypeOK, Result, Job
<1>2. r.success \in BOOLEAN
  BY <1>1 DEF Result
<1> QED BY <1>1, <1>2 DEF Applied, Listing

(* The initial state is well typed.                                        *)
LEMMA InitType == Init => TypeOK
<1> SUFFICES ASSUME Init PROVE TypeOK
  OBVIOUS
<1>1. product \in [status : {"none", "pending", "failed", "deleted"}, pending : SUBSET Listings]
  BY DEF Init
<1>2. listing \in [Listings -> Listing]
  BY DEF Init, Gone, Listing
<1>3. live \subseteq Listings /\ jobs \subseteq Job /\ results \subseteq Result
  BY ListingsAssumption DEF Init
<1>4. caller \in [Callers -> Caller]
  BY RecordTypes DEF Init
<1>5. /\ requests \in 0 .. MaxRequests /\ events \in 0 .. MaxDisturbances
      /\ faults \in 0 .. MaxDisturbances
  BY BoundsAssumption DEF Init
<1>6. created \subseteq Listings /\ excused \subseteq Listings
  BY DEF Init
<1> QED BY <1>1, <1>2, <1>3, <1>4, <1>5, <1>6 DEF TypeOK

(* The documents and the callers are written with well typed values.       *)
LEMMA Parts ==
  ASSUME TypeOK
  PROVE  /\ \A p \in Callers : caller[p] \in Caller
         /\ \A l \in Listings : listing[l] \in Listing
         /\ \A r \in results : r \in Result /\ r.job \in Job /\ r.job.id \in Listings
         /\ \A j \in jobs : j \in Job /\ j.id \in Listings
         /\ Callers = Requesters \cup {"worker"}
BY DEF TypeOK, Callers, Result, Job

(* The bounds keep the counters small.                                     *)
LEMMA CountType ==
  ASSUME TypeOK
  PROVE  /\ Fault => faults' \in 0 .. MaxDisturbances
         /\ Event => events' \in 0 .. MaxDisturbances
         /\ requests \in Serial /\ events \in Serial
BY BoundsAssumption DEF Fault, Event, TypeOK, Serial

(* A request that is sent is well typed.                                   *)
LEMMA JobType ==
  ASSUME NEW l \in Listings, NEW action \in Action, NEW b \in Callers \cup {"sync"},
         NEW n \in Serial
  PROVE  [id |-> l, action |-> action, by |-> b, nr |-> n] \in Job
BY DEF Job

(* removeListing keeps the types.                                          *)
LEMMA RemoveType ==
  ASSUME TypeOK, NEW p \in Callers, Remove(p) \/ NoToken(p) \/ RemovalFails(p)
  PROVE  TypeOK'
<1>1. CASE ReadListing(p)
  <2>1. PICK l \in caller[p].todo :
          /\ listing' = [listing EXCEPT ![l] = IF @.externalId THEN @ ELSE Gone]
          /\ caller' = [caller EXCEPT ![p] =
               IF ~Exists(l) THEN Failed(p, l)
               ELSE IF listing[l].externalId THEN [@ EXCEPT !.pc = "claim", !.on = {l}]
               ELSE Done(p, l)]
    BY <1>1 DEF ReadListing
  <2>2. l \in Listings
    BY Parts DEF Caller
  <2>3. [caller[p] EXCEPT !.pc = "claim", !.on = {l}] \in Caller
    <3>1. caller[p] \in Caller /\ {l} \subseteq Listings
      BY <2>2, Parts
    <3> QED BY <3>1 DEF Caller
  <2>4. listing' \in [Listings -> Listing]
    BY <2>1, <2>2, Parts, RecordTypes DEF TypeOK
  <2>5. caller' \in [Callers -> Caller]
    BY <2>1, <2>2, <2>3, DoneType DEF TypeOK
  <2> QED BY <1>1, <2>1, <2>2, <2>4, <2>5 DEF ReadListing, TypeOK, bounds, history
<1>2. CASE NoToken(p)
  <2>1. PICK l \in caller[p].on :
          /\ listing' = [listing EXCEPT ![l] =
               IF Exists(l) THEN [@ EXCEPT !.status = "removed", !.lock = "free"] ELSE @]
          /\ excused' \in {excused, excused \cup {l}}
          /\ caller' = [caller EXCEPT ![p] = Done(p, l)]
    BY <1>2 DEF NoToken
  <2>2. l \in Listings
    BY Parts DEF Caller
  <2>3. [listing[l] EXCEPT !.status = "removed", !.lock = "free"] \in Listing
    BY <2>2, Parts DEF Listing
  <2>4. listing' \in [Listings -> Listing]
    BY <2>1, <2>2, <2>3, Parts DEF TypeOK
  <2>5. caller' \in [Callers -> Caller]
    BY <2>1, <2>2, DoneType DEF TypeOK
  <2>6. faults' \in 0 .. MaxDisturbances
    BY <1>2, CountType DEF NoToken
  <2>7. /\ UNCHANGED <<product, live, jobs, results, requests, events, created>>
        /\ excused' \subseteq Listings
    BY <1>2, <2>1, <2>2 DEF NoToken, TypeOK
  <2> QED BY <2>4, <2>5, <2>6, <2>7 DEF TypeOK
<1>3. CASE ClaimListing(p)
  <2>1. PICK l \in caller[p].on :
          /\ \/ listing' = [listing EXCEPT ![l] =
                   [@ EXCEPT !.status = "pending_removal", !.lock = "held"]]
             \/ UNCHANGED listing
          /\ \/ caller' = [caller EXCEPT ![p] = [caller[p] EXCEPT !.pc = "enqueue"]]
             \/ caller' = [caller EXCEPT ![p] = Failed(p, l)]
    BY <1>3 DEF ClaimListing
  <2>2. l \in Listings
    BY Parts DEF Caller
  <2>3. [listing[l] EXCEPT !.status = "pending_removal", !.lock = "held"] \in Listing
    BY <2>2, Parts DEF Listing
  <2>4. [caller[p] EXCEPT !.pc = "enqueue"] \in Caller
    BY Parts DEF Caller
  <2>5. listing' \in [Listings -> Listing]
    BY <2>1, <2>2, <2>3 DEF TypeOK
  <2>6. caller' \in [Callers -> Caller]
    <3>1. Failed(p, l) \in Caller
      BY <2>2, DoneType
    <3> QED BY <2>1, <2>4, <3>1 DEF TypeOK
  <2> QED BY <1>3, <2>5, <2>6 DEF ClaimListing, TypeOK, bounds, history
<1>4. CASE Enqueue(p)
  <2>1. PICK l \in caller[p].on :
          /\ jobs' = jobs \cup {[id |-> l, action |-> "DELETE", by |-> p,
                                 nr |-> IF p = "worker" THEN events ELSE requests]}
          /\ caller' = [caller EXCEPT ![p] = Done(p, l)]
    BY <1>4 DEF Enqueue
  <2>2. l \in Listings
    BY Parts DEF Caller
  <2>3. [id |-> l, action |-> "DELETE", by |-> p,
         nr |-> IF p = "worker" THEN events ELSE requests] \in Job
    <3>1. (IF p = "worker" THEN events ELSE requests) \in Serial
      BY CountType
    <3> QED BY <2>2, <3>1, JobType DEF Action
  <2>4. jobs' \subseteq Job
    BY <2>1, <2>3 DEF TypeOK
  <2>5. caller' \in [Callers -> Caller]
    BY <2>1, <2>2, DoneType DEF TypeOK
  <2> QED BY <1>4, <2>4, <2>5 DEF Enqueue, TypeOK, bounds, history
<1>5. CASE RemovalFails(p)
  <2>1. PICK l \in caller[p].on : caller' = [caller EXCEPT ![p] = Failed(p, l)]
    BY <1>5 DEF RemovalFails
  <2>2. l \in Listings
    BY Parts DEF Caller
  <2>3. caller' \in [Callers -> Caller]
    BY <2>1, <2>2, DoneType DEF TypeOK
  <2>4. faults' \in 0 .. MaxDisturbances
    BY <1>5, CountType DEF RemovalFails
  <2> QED BY <1>5, <2>3, <2>4 DEF RemovalFails, TypeOK, history
<1> QED BY <1>1, <1>2, <1>3, <1>4, <1>5 DEF Remove

(* requestDeletion keeps the types.                                        *)
LEMMA AdminType ==
  ASSUME TypeOK, NEW p \in Requesters, Admin(p)
  PROVE  TypeOK'
<1>0. p \in Callers /\ caller[p] \in Caller
  BY Parts
<1>1. CASE ReadListings(p)
  <2>1. [Quiet EXCEPT !.pc = "drop", !.todo = {l \in Listings : listing[l].externalId},
                      !.on = {l \in Listings : Exists(l) /\ ~listing[l].externalId}] \in Caller
    BY DEF Quiet, Caller
  <2>2. caller' \in [Callers -> Caller]
    BY <1>1, <2>1 DEF ReadListings, TypeOK, bounds, history
  <2> QED BY <1>1, <2>2 DEF ReadListings, TypeOK, bounds, history
<1>2. CASE Drop(p)
  <2>1. [caller[p] EXCEPT !.pc = IF caller[p].todo = {} THEN "unlist" ELSE "remove",
                                !.on = {}] \in Caller
    BY <1>0 DEF Caller
  <2>2. caller' \in [Callers -> Caller]
    BY <1>2, <2>1 DEF Drop, TypeOK
  <2>3. listing' \in [Listings -> Listing]
    BY <1>2, RecordTypes, Parts DEF Drop
  <2> QED BY <1>2, <2>2, <2>3 DEF Drop, TypeOK, bounds, history
<1>3. CASE Register(p)
  <2>1. caller' \in [Callers -> Caller]
    BY <1>3, RecordTypes DEF Register, TypeOK
  <2>2. caller[p].sent \subseteq Listings
    BY <1>0 DEF Caller
  <2>3. product' \in [status : {"none", "pending", "failed", "deleted"},
                      pending : SUBSET Listings]
    BY <1>3, <2>2 DEF Register, TypeOK
  <2> QED BY <1>3, <2>1, <2>3 DEF Register, TypeOK, bounds, history
<1>4. CASE Unlist(p)
  <2>1. [caller[p] EXCEPT !.pc = "erase"] \in Caller
    BY <1>0 DEF Caller
  <2>2. caller' \in [Callers -> Caller] /\ listing' \in [Listings -> Listing]
    BY <1>4, <2>1, RecordTypes DEF Unlist, TypeOK
  <2> QED BY <1>4, <2>2 DEF Unlist, TypeOK, bounds, history
<1>5. CASE Erase(p)
  <2>1. caller' \in [Callers -> Caller]
    BY <1>5, RecordTypes DEF Erase, TypeOK
  <2> QED BY <1>5, <2>1 DEF Erase, TypeOK, bounds, history
<1>6. CASE Request(p)
  <2>1. [Quiet EXCEPT !.pc = "list"] \in Caller
    BY DEF Quiet, Caller
  <2>2. caller' \in [Callers -> Caller]
    BY <1>6, <2>1 DEF Request, TypeOK
  <2>3. requests' \in 0 .. MaxRequests
    BY <1>6, BoundsAssumption DEF Request, TypeOK
  <2> QED BY <1>6, <2>2, <2>3 DEF Request, TypeOK, history
<1> QED BY <1>1, <1>2, <1>3, <1>4, <1>5, <1>6 DEF Admin

(* Moderation, its worker, the clock and synchronisations keep the types.  *)
LEMMA EventType ==
  ASSUME TypeOK, \/ WorkerFinds \/ Bump \/ Crash
                 \/ \E l \in Listings : Condemn(l) \/ LockLapses(l) \/ Sync(l)
  PROVE  TypeOK'
<1>1. CASE WorkerFinds
  <2>1. PICK l \in Listings :
          caller' = [caller EXCEPT !["worker"] = [Quiet EXCEPT !.pc = "remove", !.todo = {l}]]
    BY <1>1 DEF WorkerFinds
  <2>2. [Quiet EXCEPT !.pc = "remove", !.todo = {l}] \in Caller
    BY DEF Quiet, Caller
  <2>3. caller' \in [Callers -> Caller]
    BY <2>1, <2>2 DEF TypeOK
  <2>4. events' \in 0 .. MaxDisturbances
    BY <1>1, CountType DEF WorkerFinds
  <2> QED BY <1>1, <2>3, <2>4 DEF WorkerFinds, TypeOK, history
<1>2. CASE Bump
  <2>1. PICK l \in caller["worker"].on :
          listing' \in {listing, [listing EXCEPT ![l].status = "removal_failed"]}
    BY <1>2 DEF Bump
  <2>2. l \in Listings
    BY Parts DEF Caller
  <2>3. [listing[l] EXCEPT !.status = "removal_failed"] \in Listing
    BY <2>2, Parts DEF Listing
  <2>4. listing' \in [Listings -> Listing]
    BY <2>1, <2>2, <2>3 DEF TypeOK
  <2>5. caller' \in [Callers -> Caller]
    BY <1>2, RecordTypes DEF Bump, TypeOK
  <2> QED BY <1>2, <2>4, <2>5 DEF Bump, TypeOK, bounds, history
<1>3. CASE Crash
  <2>1. \A r \in results : Queued(r) \in Result
    BY Parts DEF Queued, Result
  <2>2. results' \subseteq Result
    BY <1>3, <2>1 DEF Crash
  <2>3. faults' \in 0 .. MaxDisturbances
    BY <1>3, CountType DEF Crash
  <2>4. caller' \in [Callers -> Caller]
    BY <1>3, RecordTypes DEF Crash
  <2> QED BY <1>3, <2>2, <2>3, <2>4 DEF Crash, TypeOK, history
<1>4. ASSUME NEW l \in Listings, Condemn(l) PROVE TypeOK'
  <2>1. [listing[l] EXCEPT !.status = "pending_removal", !.lock = "free"] \in Listing
    BY Parts DEF Listing
  <2>2. listing' \in [Listings -> Listing]
    BY <1>4, <2>1 DEF Condemn, TypeOK
  <2>3. events' \in 0 .. MaxDisturbances
    BY <1>4, CountType DEF Condemn
  <2> QED BY <1>4, <2>2, <2>3 DEF Condemn, TypeOK
<1>5. ASSUME NEW l \in Listings, LockLapses(l) PROVE TypeOK'
  <2>1. [listing[l] EXCEPT !.lock = "lapsed"] \in Listing
    BY Parts DEF Listing
  <2>2. listing' \in [Listings -> Listing]
    BY <1>5, <2>1 DEF LockLapses, TypeOK
  <2>3. faults' \in 0 .. MaxDisturbances
    BY <1>5, CountType DEF LockLapses
  <2> QED BY <1>5, <2>2, <2>3 DEF LockLapses, TypeOK
<1>6. ASSUME NEW l \in Listings, Sync(l) PROVE TypeOK'
  <2>1. PICK action \in Action :
          jobs' = jobs \cup {[id |-> l, action |-> action, by |-> "sync", nr |-> events]}
    BY <1>6 DEF Sync, Action
  <2>2. jobs' \subseteq Job
    BY <2>1, JobType, CountType DEF TypeOK
  <2>3. events' \in 0 .. MaxDisturbances
    BY <1>6, CountType DEF Sync
  <2>4. created' \subseteq Listings
    BY <1>6 DEF Sync, TypeOK
  <2> QED BY <1>6, <2>2, <2>3, <2>4 DEF Sync, TypeOK
<1> QED BY <1>1, <1>2, <1>3, <1>4, <1>5, <1>6

(* The orchestrator and SyncResultConsumer keep the types.                 *)
LEMMA ResultType ==
  ASSUME TypeOK, (\E j \in jobs : Perform(j) \/ GiveUpJob(j)) \/ (\E r \in results : Handle(r))
  PROVE  TypeOK'
<1>1. ASSUME NEW j \in jobs, Perform(j) PROVE TypeOK'
  <2>1. PICK success \in BOOLEAN :
          /\ live' \in {live \ {j.id}, live \cup {j.id}, live}
          /\ results' = results \cup {[job |-> j, success |-> success, pc |-> "queued",
                                       remaining |-> {}]}
    BY <1>1 DEF Perform
  <2>2. results' \subseteq Result
    BY <2>1, Parts DEF TypeOK, Result
  <2>3. live' \subseteq Listings /\ jobs' \subseteq Job
    BY <1>1, <2>1, Parts DEF TypeOK, Perform
  <2> QED BY <1>1, <2>2, <2>3 DEF Perform, TypeOK, bounds, history
<1>2. ASSUME NEW r \in results, NEW pc \in {"queued", "read", "write", "unlist", "erase"},
             Moved(r, pc)
      PROVE  results' \subseteq Result
  <2>1. [r EXCEPT !.pc = pc] \in Result
    BY Parts DEF Result
  <2> QED BY <1>2, <2>1 DEF Moved, TypeOK
<1>3. ASSUME NEW r \in results, Acked(r) PROVE results' \subseteq Result
  BY <1>3 DEF Acked, TypeOK
<1>4. ASSUME NEW r \in results, Receive(r) PROVE TypeOK'
  <2>1. listing' \in [Listings -> Listing]
    BY <1>4, AppliedType DEF Receive, TypeOK
  <2>2. results' \subseteq Result
    BY <1>2, <1>3, <1>4 DEF Receive
  <2>3. excused' \subseteq Listings
    BY <1>4, Parts DEF Receive, TypeOK
  <2> QED BY <1>4, <2>1, <2>2, <2>3 DEF Receive, TypeOK, bounds
<1>5. ASSUME NEW r \in results, ReadProduct(r) PROVE TypeOK'
  <2>1. Remaining(product.pending, r.job.id) \subseteq Listings
    BY DEF Remaining, TypeOK
  <2>2. ASSUME NEW pc \in {"unlist", "write"}
        PROVE  [r EXCEPT !.pc = pc, !.remaining = Remaining(product.pending, r.job.id)] \in Result
    BY <2>1, Parts DEF Result
  <2>3. results' \subseteq Result
    BY <1>3, <1>5, <2>2 DEF ReadProduct, TypeOK
  <2> QED BY <1>5, <2>3 DEF ReadProduct, TypeOK, bounds, history
<1>6. ASSUME NEW r \in results, WriteProduct(r) PROVE TypeOK'
  <2>1. r.remaining \subseteq Listings
    BY Parts DEF Result
  <2>2. product' \in [status : {"none", "pending", "failed", "deleted"},
                      pending : SUBSET Listings]
    BY <1>6, <2>1 DEF WriteProduct, StatusAfter, TypeOK
  <2> QED BY <1>3, <1>6, <2>2 DEF WriteProduct, TypeOK, bounds, history
<1>7. ASSUME NEW r \in results, UnlistLast(r) PROVE TypeOK'
  BY <1>2, <1>7, RecordTypes DEF UnlistLast, TypeOK, bounds, history
<1>8. ASSUME NEW r \in results, EraseLast(r) PROVE TypeOK'
  BY <1>3, <1>8 DEF EraseLast, TypeOK, bounds, history
<1>9. ASSUME NEW j \in jobs, GiveUpJob(j) PROVE TypeOK'
  <2>1. jobs' \subseteq Job /\ faults' \in 0 .. MaxDisturbances
    BY <1>9, CountType DEF GiveUpJob, TypeOK
  <2> QED BY <1>9, <2>1 DEF GiveUpJob, TypeOK, history
<1> QED BY <1>1, <1>4, <1>5, <1>6, <1>7, <1>8, <1>9 DEF Handle

(* Every step keeps the types.                                             *)
LEMMA NextType ==
  ASSUME TypeOK, [Next]_vars
  PROVE  TypeOK'
<1>1. CASE UNCHANGED vars
  BY <1>1 DEF TypeOK, vars, bounds, history
<1> QED BY <1>1, RemoveType, AdminType, EventType, ResultType DEF Next

(* The state has its type.                                                 *)
THEOREM Typed == Spec => []TypeOK
<1> QED BY InitType, NextType, PTL DEF Spec

-----------------------------------------------------------------------------
(* No product is erased early.                                             *)

\* The items for sale that no requested publication accounts for.
Open == live \ created

\* The listing of such an item is published, so that a request finds it.
Listed == \A l \in Open : listing[l].externalId

Publications == \A j \in jobs : j.action = "CREATE" => j.id \in created

\* A removal that succeeded has closed its item, and who reads a list of pending
\* removals reads one that has all open items, or, from then on, those that remain.
ClosedBy(r) ==
    /\ r.pc # "queued" => r.job.action = "DELETE"
    /\ r.job.action = "DELETE" /\ r.success => r.job.id \notin Open
    /\ r.pc = "write" => Open \subseteq r.remaining \cup {r.job.id}
    /\ r.pc \in {"unlist", "erase"} => Open = {}
Closing == \A r \in results : ClosedBy(r)

\* A request has all open items before it or behind it, whatever the others do.
AskedBy(c, open) ==
    /\ c.pc = "drop" => open \subseteq c.todo /\ open \cap c.on = {}
    /\ c.pc \in {"remove", "claim", "enqueue", "register"} => open \subseteq c.todo \cup c.sent
    /\ c.pc = "register" => c.todo = {}
    /\ c.pc \in {"unlist", "erase"} => open = {}
AskedFor == \A p \in Requesters : AskedBy(caller[p], Open)

Pending == product.status = "pending" => Open \subseteq product.pending

Erasing == Listed /\ Publications /\ Closing /\ AskedFor /\ Pending /\ ErasedMeansClosed

(* Nothing is published yet when the system starts.                        *)
LEMMA InitErasing == Init => Erasing
<1> SUFFICES ASSUME Init PROVE Erasing
  OBVIOUS
<1>1. /\ \A p \in Requesters : caller[p] = Quiet
      /\ jobs = {} /\ results = {}
      /\ product.status = "none" /\ live = Published /\ live \subseteq Listings
  BY ListingsAssumption DEF Init, Callers
<1>2. \A l \in Published : listing[l].externalId
  <2>1. ASSUME NEW l \in Published PROVE listing[l].externalId
    <3>1. listing[l] = [Gone EXCEPT !.status = "active", !.externalId = TRUE]
      BY ListingsAssumption, <2>1 DEF Init
    <3> QED BY <3>1, RecordTypes DEF Listing
  <2> QED BY <2>1
<1> QED BY <1>1, <1>2, RecordTypes DEF Erasing, Open, Listed, Publications, Closing, AskedFor,
                                       AskedBy, Pending, ErasedMeansClosed

(* Open items become fewer only.  What does not touch listings, products,  *)
(* results, callers or publications cannot harm.                           *)
LEMMA Fewer ==
  ASSUME Erasing, Open' \subseteq Open
  PROVE  /\ UNCHANGED listing => Listed'
         /\ jobs' \subseteq jobs /\ created \subseteq created' => Publications'
         /\ \A r \in results : ClosedBy(r)'
         /\ results' \subseteq results => Closing'
         /\ \A p \in Requesters : AskedBy(caller[p], Open')
         /\ (\A p \in Requesters : caller'[p] \in {caller[p], Quiet}) => AskedFor'
         /\ UNCHANGED product => Pending' /\ ErasedMeansClosed'
<1>1. \A r \in results : ClosedBy(r) => ClosedBy(r)'
  BY DEF ClosedBy
<1>2. /\ \A p \in Requesters : AskedBy(caller[p], Open')
      /\ (\A p \in Requesters : caller'[p] \in {caller[p], Quiet}) => AskedFor'
  BY RecordTypes DEF Erasing, AskedFor, AskedBy
<1>3. UNCHANGED product => Pending' /\ ErasedMeansClosed'
  BY DEF Erasing, Pending, ErasedMeansClosed, Open
<1>4. UNCHANGED listing => Listed'
  BY DEF Erasing, Listed
<1>5. jobs' \subseteq jobs /\ created \subseteq created' => Publications'
  BY DEF Erasing, Publications
<1> QED BY <1>1, <1>2, <1>3, <1>4, <1>5 DEF Erasing, Closing

(* The removal of a listing leaves what is published published, and asks   *)
(* for nothing but removals.                                               *)
LEMMA RemoveEffect ==
  ASSUME TypeOK, NEW p \in Callers, Remove(p) \/ NoToken(p) \/ RemovalFails(p)
  PROVE  /\ UNCHANGED <<product, live, created, results>>
         /\ \A j \in jobs' \ jobs : j.action = "DELETE"
         /\ \A l \in Listings : listing[l].externalId => listing'[l].externalId
         /\ \A q \in Callers \ {p} : caller'[q] = caller[q]
<1> USE Parts
<1>1. CASE ReadListing(p)
  BY <1>1 DEF ReadListing, TypeOK, bounds, Caller, history
<1>2. CASE NoToken(p)
  <2>1. PICK l \in caller[p].on :
          listing' = [listing EXCEPT ![l] =
            IF Exists(l) THEN [@ EXCEPT !.status = "removed", !.lock = "free"] ELSE @]
    BY <1>2 DEF NoToken
  <2>2. l \in Listings
    BY DEF Caller
  <2>3. listing'[l].externalId = listing[l].externalId
    BY <2>1, <2>2 DEF TypeOK, Listing
  <2>4. \A k \in Listings : listing[k].externalId => listing'[k].externalId
    BY <2>1, <2>3 DEF TypeOK
  <2> QED BY <1>2, <2>4 DEF NoToken, TypeOK
<1>3. CASE ClaimListing(p)
  <2>1. PICK l \in caller[p].on :
          \/ listing' = [listing EXCEPT ![l] =
               [@ EXCEPT !.status = "pending_removal", !.lock = "held"]]
          \/ UNCHANGED listing
    BY <1>3 DEF ClaimListing
  <2>2. l \in Listings
    BY DEF Caller
  <2>3. listing'[l].externalId = listing[l].externalId
    <3>1. [listing[l] EXCEPT !.status = "pending_removal", !.lock = "held"].externalId
            = listing[l].externalId
      BY <2>2 DEF Listing
    <3> QED BY <2>1, <2>2, <3>1 DEF TypeOK
  <2>4. \A k \in Listings : listing[k].externalId => listing'[k].externalId
    BY <2>1, <2>3 DEF TypeOK
  <2> QED BY <1>3, <2>4 DEF ClaimListing, TypeOK, bounds, history
<1>4. CASE Enqueue(p)
  BY <1>4 DEF Enqueue, TypeOK, bounds, history
<1>5. CASE RemovalFails(p)
  BY <1>5 DEF RemovalFails, TypeOK, history
<1> QED BY <1>1, <1>2, <1>3, <1>4, <1>5 DEF Remove

(* The loop of removals, and the worker's.                                 *)
LEMMA RemoveErasing ==
  ASSUME TypeOK, Erasing, NEW p \in Callers, Remove(p) \/ NoToken(p) \/ RemovalFails(p)
  PROVE  Erasing'
<1>1. UNCHANGED <<product, live, created, results>> /\ Open' = Open /\ Open \subseteq Listings
  BY RemoveEffect DEF Open, TypeOK
<1>2. Closing' /\ Pending' /\ ErasedMeansClosed'
  BY <1>1, Fewer
<1>3. Publications'
  BY <1>1, RemoveEffect DEF Erasing, Publications
<1>4. Listed'
  BY <1>1, RemoveEffect DEF Erasing, Listed
<1>5. AskedFor'
  <2>1. CASE p = "worker"
    <3>1. \A q \in Requesters : caller'[q] = caller[q]
      BY <2>1, RemoveEffect, RequestersAssumption DEF Callers
    <3> QED BY <1>1, <3>1, Fewer
  <2>2. CASE p \in Requesters
    <3> DEFINE c == caller[p]
    <3>1. /\ c.pc \in {"remove", "claim", "enqueue"}
          /\ \E l \in Listings :
               \/ caller'[p] = Quiet
               \/ caller'[p] = [c EXCEPT !.pc = "claim", !.on = {l}]
               \/ caller'[p] = [c EXCEPT !.pc = "enqueue"]
               \/ caller'[p] = Done(p, l)
      <4>1. caller[p] \in Caller /\ p # "worker"
        BY <2>2, Parts, RequestersAssumption
      <4>2. c.todo \subseteq Listings /\ c.on \subseteq Listings
        BY <4>1 DEF Caller
      <4>3. \A l \in Listings : Failed(p, l) = Quiet
        BY <4>1, DoneType
      <4>4. CASE ReadListing(p)
        <5>1. PICK l \in c.todo :
                caller' = [caller EXCEPT ![p] =
                  IF ~Exists(l) THEN Failed(p, l)
                  ELSE IF listing[l].externalId THEN [c EXCEPT !.pc = "claim", !.on = {l}]
                  ELSE Done(p, l)]
          BY <4>4 DEF ReadListing
        <5>2. caller'[p] \in {Failed(p, l), [c EXCEPT !.pc = "claim", !.on = {l}],
                                    Done(p, l)}
          BY <4>1, <5>1 DEF TypeOK
        <5>3. c.pc = "remove"
          BY <4>4 DEF ReadListing
        <5> QED BY <4>2, <4>3, <5>2, <5>3
      <4>5. CASE ClaimListing(p)
        BY <2>2, <4>1, <4>2, <4>3, <4>5 DEF ClaimListing, TypeOK
      <4>6. CASE Enqueue(p)
        BY <2>2, <4>1, <4>2, <4>6 DEF Enqueue, TypeOK
      <4>7. CASE NoToken(p)
        BY <2>2, <4>1, <4>2, <4>7 DEF NoToken, TypeOK
      <4>8. CASE RemovalFails(p)
        BY <2>2, <4>1, <4>2, <4>3, <4>8 DEF RemovalFails, TypeOK
      <4> QED BY <4>4, <4>5, <4>6, <4>7, <4>8 DEF Remove
    <3>2. Open \subseteq c.todo \cup c.sent
      BY <2>2, <3>1 DEF Erasing, AskedFor, AskedBy
    <3>3. c \in Caller /\ p # "worker"
      BY <2>2, Parts, RequestersAssumption
    <3>4. ASSUME AskedBy(caller'[p], Open) PROVE AskedFor'
      <4>1. \A q \in Requesters \ {p} : caller'[q] = caller[q]
        BY RemoveEffect DEF Callers
      <4>2. \A q \in Requesters : AskedBy(caller'[q], Open)
        BY <3>4, <4>1 DEF Erasing, AskedFor
      <4> QED BY <1>1, <4>2 DEF AskedFor
    <3>5. ASSUME NEW l \in Listings, caller'[p] = Done(p, l) PROVE AskedBy(caller'[p], Open)
      BY <1>1, <3>2, <3>3, <3>5, DoneType DEF AskedBy
    <3>6. ASSUME caller'[p] = Quiet PROVE AskedBy(caller'[p], Open)
      BY <3>6, RecordTypes DEF AskedBy
    <3>7. ASSUME NEW l \in Listings, \/ caller'[p] = [c EXCEPT !.pc = "claim", !.on = {l}]
                                     \/ caller'[p] = [c EXCEPT !.pc = "enqueue"]
          PROVE  AskedBy(caller'[p], Open)
      <4>1. /\ caller'[p].pc \in {"claim", "enqueue"}
            /\ caller'[p].todo = c.todo /\ caller'[p].sent = c.sent
        BY <3>3, <3>7 DEF Caller
      <4> QED BY <3>2, <4>1 DEF AskedBy
    <3> QED BY <3>1, <3>4, <3>5, <3>6, <3>7
  <2> QED BY <2>1, <2>2 DEF Callers
<1> QED BY <1>2, <1>3, <1>4, <1>5 DEF Erasing

(* requestDeletion.                                                        *)
LEMMA AdminErasing ==
  ASSUME TypeOK, Erasing, NEW p \in Requesters, Admin(p)
  PROVE  Erasing'
<1>1. UNCHANGED <<live, created, jobs, results>> /\ Open' = Open /\ Open \subseteq Listings
  BY DEF Admin, Request, ReadListings, Drop, Register, Unlist, Erase, Open, bounds, history, TypeOK
<1>2. Closing' /\ Publications'
  BY <1>1, Fewer
<1>3. caller[p] \in Caller /\ p \in Callers /\ AskedBy(caller[p], Open)
  BY Parts DEF Erasing, AskedFor
<1> DEFINE Others == \A q \in Requesters \ {p} : caller'[q] = caller[q]
<1>0. ASSUME Others, AskedBy(caller'[p], Open) PROVE AskedFor'
  <2>1. \A q \in Requesters : AskedBy(caller'[q], Open)
    BY <1>0 DEF Erasing, AskedFor
  <2> QED BY <1>1, <2>1 DEF AskedFor
<1>9. Others
  BY DEF Admin, Request, ReadListings, Drop, Register, Unlist, Erase, TypeOK, Callers
<1> HIDE DEF Others
<1>4. CASE ReadListings(p)
  <2>1. caller'[p] =
          [Quiet EXCEPT !.pc = "drop", !.todo = {l \in Listings : listing[l].externalId},
                        !.on = {l \in Listings : Exists(l) /\ ~listing[l].externalId}]
    BY <1>3, <1>4 DEF ReadListings, TypeOK
  <2>2. /\ caller'[p].pc = "drop"
        /\ caller'[p].todo = {l \in Listings : listing[l].externalId}
        /\ caller'[p].on = {l \in Listings : Exists(l) /\ ~listing[l].externalId}
    BY <2>1 DEF Quiet
  <2>3. AskedFor'
    <3>1. AskedBy(caller'[p], Open)
      BY <1>1, <2>2 DEF AskedBy, Erasing, Listed
    <3> QED BY <1>0, <1>9, <3>1
  <2>4. UNCHANGED <<product, listing>>
    BY <1>4 DEF ReadListings
  <2> QED BY <1>1, <1>2, <2>3, <2>4, Fewer DEF Erasing
<1>5. CASE Drop(p)
  <2>1. /\ UNCHANGED product
        /\ Open \subseteq caller[p].todo /\ Open \cap caller[p].on = {}
        /\ \A l \in Listings : listing'[l] = IF l \in caller[p].on THEN Gone ELSE listing[l]
    BY <1>3, <1>5 DEF Drop, AskedBy
  <2>2. caller'[p] =
          [caller[p] EXCEPT !.pc = IF caller[p].todo = {} THEN "unlist" ELSE "remove",
                                  !.on = {}]
    BY <1>3, <1>5 DEF Drop, TypeOK
  <2>3. /\ caller'[p].pc = IF caller[p].todo = {} THEN "unlist" ELSE "remove"
        /\ caller'[p].todo = caller[p].todo
    BY <1>3, <2>2 DEF Caller
  <2>4. AskedFor'
    <3>1. AskedBy(caller'[p], Open)
      BY <2>1, <2>3 DEF AskedBy
    <3> QED BY <1>0, <1>9, <3>1
  <2>5. Listed'
    BY <1>1, <2>1 DEF Listed, Erasing
  <2> QED BY <1>1, <1>2, <2>1, <2>4, <2>5, Fewer DEF Erasing
<1>6. CASE Register(p)
  <2>1. caller'[p] = Quiet /\ UNCHANGED listing
    BY <1>3, <1>6 DEF Register, TypeOK
  <2>2. AskedFor' /\ Listed'
    <3>1. AskedBy(caller'[p], Open)
      BY <2>1, RecordTypes DEF AskedBy
    <3> QED BY <1>0, <1>1, <1>9, <2>1, <3>1, Fewer
  <2>3. Open \subseteq caller[p].sent
    BY <1>3, <1>6 DEF Register, AskedBy
  <2>4. Pending' /\ ErasedMeansClosed'
    BY <1>1, <1>6, <2>3 DEF Register, Erasing, Pending, ErasedMeansClosed
  <2> QED BY <1>2, <2>2, <2>4 DEF Erasing
<1>7. CASE Unlist(p)
  <2>1. Open = {} /\ UNCHANGED product
    BY <1>3, <1>7 DEF Unlist, AskedBy
  <2>2. caller'[p] = [caller[p] EXCEPT !.pc = "erase"]
    BY <1>3, <1>7 DEF Unlist, TypeOK
  <2>3. caller'[p].pc = "erase"
    BY <1>3, <2>2 DEF Caller
  <2>4. AskedFor'
    <3>1. AskedBy(caller'[p], Open)
      BY <2>1, <2>3 DEF AskedBy
    <3> QED BY <1>0, <1>9, <3>1
  <2> QED BY <1>1, <1>2, <2>1, <2>4, Fewer DEF Erasing, Listed
<1>8. CASE Erase(p)
  <2>1. Open = {} /\ UNCHANGED listing /\ product' = [status |-> "deleted", pending |-> {}]
    BY <1>3, <1>8 DEF Erase, AskedBy
  <2>2. caller'[p] = Quiet
    BY <1>3, <1>8 DEF Erase, TypeOK
  <2>3. AskedFor' /\ Listed'
    <3>1. AskedBy(caller'[p], Open)
      BY <2>2, RecordTypes DEF AskedBy
    <3> QED BY <1>0, <1>1, <1>9, <2>1, <3>1, Fewer
  <2>4. Pending' /\ ErasedMeansClosed'
    BY <1>1, <2>1 DEF Pending, ErasedMeansClosed, Open
  <2> QED BY <1>2, <2>3, <2>4 DEF Erasing
<1>10. CASE Request(p)
  <2>1. UNCHANGED <<product, listing>> /\ caller'[p] = [Quiet EXCEPT !.pc = "list"]
    BY <1>3, <1>10 DEF Request, TypeOK
  <2>2. caller'[p].pc = "list"
    BY <2>1 DEF Quiet
  <2>3. AskedFor'
    <3>1. AskedBy(caller'[p], Open)
      BY <2>2 DEF AskedBy
    <3> QED BY <1>0, <1>9, <3>1
  <2> QED BY <1>1, <1>2, <2>1, <2>3, Fewer DEF Erasing
<1> QED BY <1>4, <1>5, <1>6, <1>7, <1>8, <1>10 DEF Admin

(* Moderation, its worker, the clock, synchronisations and crashes.        *)
LEMMA EventErasing ==
  ASSUME TypeOK, Erasing,
         \/ WorkerFinds \/ Bump \/ Crash
         \/ \E l \in Listings : Condemn(l) \/ LockLapses(l) \/ Sync(l)
  PROVE  Erasing'
<1>1. /\ UNCHANGED <<product, live>> /\ created \subseteq created'
      /\ Open' \subseteq Open /\ Open \subseteq Listings
      /\ UNCHANGED <<jobs, created>> \/ \E l \in Listings : Sync(l)
  BY DEF WorkerFinds, Bump, Crash, Condemn, LockLapses, Sync, Open, TypeOK, bounds, history
<1>2. Pending' /\ ErasedMeansClosed'
  BY <1>1, Fewer
<1>3. Publications'
  <2>1. CASE \E l \in Listings : Sync(l)
    BY <2>1 DEF Sync, Erasing, Publications
  <2> QED BY <1>1, <2>1, Fewer
<1>4. Closing'
  <2>1. CASE Crash
    <3>1. \A r \in results : /\ Queued(r).job = r.job /\ Queued(r).success = r.success
                            /\ Queued(r).pc = "queued"
      BY Parts DEF Queued, Result
    <3> QED BY <1>1, <2>1, <3>1 DEF Crash, Erasing, Closing, ClosedBy
  <2>2. CASE ~Crash
    BY <1>1, <2>2, Fewer DEF WorkerFinds, Bump, Condemn, LockLapses, Sync, history, bounds
  <2> QED BY <2>1, <2>2
<1>5. AskedFor'
  <2>1. \A p \in Requesters : caller'[p] \in {caller[p], Quiet}
    BY RequestersAssumption
       DEF WorkerFinds, Bump, Crash, Condemn, LockLapses, Sync, TypeOK, Callers
  <2> QED BY <1>1, <2>1, Fewer
<1>6. Listed'
  <2>1. CASE Bump
    <3>1. PICK l \in caller["worker"].on :
            listing' \in {listing, [listing EXCEPT ![l].status = "removal_failed"]}
      BY <2>1 DEF Bump
    <3>2. l \in Listings
      BY Parts DEF Caller
    <3>3. [listing[l] EXCEPT !.status = "removal_failed"].externalId = listing[l].externalId
      BY <3>2, Parts DEF Listing
    <3>4. \A k \in Listings : listing'[k].externalId = listing[k].externalId
      BY <3>1, <3>2, <3>3 DEF TypeOK
    <3> QED BY <1>1, <3>4 DEF Erasing, Listed
  <2>2. ASSUME NEW l \in Listings, Condemn(l) \/ LockLapses(l) PROVE Listed'
    <3>1. /\ [listing[l] EXCEPT !.status = "pending_removal", !.lock = "free"].externalId
                = listing[l].externalId
          /\ [listing[l] EXCEPT !.lock = "lapsed"].externalId = listing[l].externalId
      BY Parts DEF Listing
    <3>2. \A k \in Listings : listing'[k].externalId = listing[k].externalId
      BY <2>2, <3>1 DEF Condemn, LockLapses, TypeOK
    <3> QED BY <1>1, <3>2 DEF Erasing, Listed
  <2>3. CASE UNCHANGED listing
    BY <1>1, <2>3, Fewer
  <2> QED BY <2>1, <2>2, <2>3 DEF WorkerFinds, Crash, Sync
<1> QED BY <1>2, <1>3, <1>4, <1>5, <1>6 DEF Erasing

(* The orchestrator closes items, or opens those it was asked to publish;  *)
(* jobs that are given up change nothing else.                             *)
LEMMA PerformErasing ==
  ASSUME TypeOK, Erasing, NEW j \in jobs, Perform(j) \/ GiveUpJob(j)
  PROVE  Erasing'
<1>7. CASE GiveUpJob(j)
  BY <1>7, Fewer DEF GiveUpJob, history, Erasing, Open
<1> SUFFICES ASSUME Perform(j) PROVE Erasing'
  BY <1>7
<1>1. PICK success \in BOOLEAN :
        /\ live' = CASE success /\ j.action = "DELETE" -> live \ {j.id}
                     [] success /\ j.action = "CREATE" -> live \cup {j.id}
                     [] OTHER -> live
        /\ results' = results \cup {[job |-> j, success |-> success, pc |-> "queued",
                                     remaining |-> {}]}
  BY DEF Perform
<1>2. UNCHANGED <<product, listing, caller, created>> /\ jobs' \subseteq jobs
  BY DEF Perform, bounds, history
<1>3. j.action = "CREATE" => j.id \in created
  BY DEF Erasing, Publications
<1>4. Open' \subseteq Open
  BY <1>1, <1>2, <1>3 DEF Open
<1>5. success /\ j.action = "DELETE" => j.id \notin Open'
  BY <1>1, <1>2 DEF Open
<1>6. Closing'
  BY <1>1, <1>4, <1>5, Fewer DEF Closing, ClosedBy
<1> QED BY <1>2, <1>4, <1>6, Fewer DEF Erasing

(* The consumer of the results.                                            *)
LEMMA HandleErasing ==
  ASSUME TypeOK, Erasing, NEW r \in results, Handle(r)
  PROVE  Erasing'
<1>1. UNCHANGED <<live, created, jobs, caller>> /\ Open' = Open /\ Open \subseteq Listings
  BY DEF Handle, Receive, ReadProduct, WriteProduct, UnlistLast, EraseLast, Open, TypeOK,
         bounds, history
<1>2. Publications' /\ AskedFor'
  BY <1>1, Fewer
<1>3. r \in Result /\ r.job \in Job /\ r.job.id \in Listings /\ ClosedBy(r)
  BY Parts DEF Erasing, Closing
<1>4. ASSUME NEW s \in Result, results' = (results \ {r}) \cup {s}, ClosedBy(s)'
      PROVE  Closing'
  BY <1>1, <1>4, Fewer DEF Closing
<1>5. Acked(r) => Closing'
  BY <1>1, Fewer DEF Acked
<1>6. CASE Receive(r)
  <2>1. Listed'
    <3>1. ASSUME NEW l \in Open PROVE listing'[l].externalId
      <4>1. l \in Listings /\ listing[l].externalId
        BY <1>1 DEF Erasing, Listed
      <4>2. CASE l = r.job.id
        <5>1. ~(r.job.action = "DELETE" /\ r.success)
          BY <1>3, <4>2 DEF ClosedBy
        <5>2. listing[l] \in Listing
          BY <4>1, Parts
        <5>3. Applied(r).externalId
          BY <4>1, <4>2, <5>1, <5>2, <1>3 DEF Applied, Listing, Result
        <5> QED BY <1>6, <4>1, <4>2, <5>3 DEF Receive, TypeOK
      <4>3. CASE l # r.job.id
        BY <1>6, <4>1, <4>3 DEF Receive, TypeOK
      <4> QED BY <4>2, <4>3
    <3> QED BY <1>1, <3>1 DEF Listed
  <2>2. Closing'
    <3>1. CASE r.job.action = "DELETE"
      <4>1. PICK s \in Result : /\ results' = (results \ {r}) \cup {s}
                                /\ s.job = r.job /\ s.success = r.success /\ s.pc = "read"
        <5>1. /\ [r EXCEPT !.pc = "read"] \in Result
              /\ [r EXCEPT !.pc = "read"].job = r.job /\ [r EXCEPT !.pc = "read"].pc = "read"
              /\ [r EXCEPT !.pc = "read"].success = r.success
          BY <1>3 DEF Result
        <5> QED BY <1>6, <3>1, <5>1 DEF Receive, Moved
      <4>2. ClosedBy(s)'
        BY <1>1, <1>3, <3>1, <4>1 DEF ClosedBy
      <4> QED BY <1>4, <4>1, <4>2
    <3> QED BY <1>5, <1>6, <3>1 DEF Receive
  <2>3. UNCHANGED product
    BY <1>6 DEF Receive
  <2> QED BY <1>1, <1>2, <2>1, <2>2, <2>3, Fewer DEF Erasing
<1>7. CASE ReadProduct(r)
  <2>1. UNCHANGED <<product, listing>>
    BY <1>7 DEF ReadProduct
  <2>2. CASE product.status = "pending"
    <3>1. PICK left \in SUBSET Listings : left = product.pending \ {r.job.id}
      BY DEF TypeOK
    <3>2. PICK s \in Result : /\ results' = (results \ {r}) \cup {s}
                              /\ s.job = r.job /\ s.success = r.success
                              /\ s.pc = IF r.success /\ left = {} THEN "unlist" ELSE "write"
                              /\ s.remaining = left
      <4> DEFINE t == [r EXCEPT !.pc = IF r.success /\ left = {} THEN "unlist" ELSE "write",
                                !.remaining = left]
      <4>1. results' = (results \ {r}) \cup {t}
        BY <1>7, <2>2, <3>1 DEF ReadProduct, Remaining, IsLast
      <4>2. /\ t \in Result /\ t.job = r.job /\ t.success = r.success
            /\ t.pc = IF r.success /\ left = {} THEN "unlist" ELSE "write"
            /\ t.remaining = left
        BY <1>3 DEF Result
      <4> HIDE DEF t
      <4> QED BY <4>1, <4>2
    <3>3. r.pc = "read" /\ r.job.action = "DELETE"
      BY <1>3, <1>7 DEF ReadProduct, ClosedBy
    <3>4. Open \subseteq product.pending /\ (r.success => r.job.id \notin Open)
      BY <1>3, <2>2, <3>3 DEF Erasing, Pending, ClosedBy
    <3>5. ClosedBy(s)'
      BY <1>1, <3>1, <3>2, <3>3, <3>4 DEF ClosedBy
    <3> QED BY <1>1, <1>2, <1>4, <2>1, <3>2, <3>5, Fewer DEF Erasing
  <2>3. CASE product.status # "pending"
    BY <1>1, <1>2, <1>5, <1>7, <2>1, <2>3, Fewer DEF Erasing, ReadProduct
  <2> QED BY <2>2, <2>3
<1>8. CASE WriteProduct(r)
  <2>1. /\ UNCHANGED listing /\ Acked(r)
        /\ product' = IF product.status = "deleted" THEN product
                      ELSE [status |-> IF r.success THEN product.status ELSE "failed",
                            pending |-> r.remaining]
    BY <1>8 DEF WriteProduct, StatusAfter
  <2>2. /\ Open \subseteq r.remaining \cup {r.job.id}
        /\ r.success => r.job.id \notin Open
    BY <1>3, <1>8 DEF WriteProduct, ClosedBy
  <2>3. Pending' /\ ErasedMeansClosed'
    BY <1>1, <2>1, <2>2 DEF Erasing, Pending, ErasedMeansClosed
  <2> QED BY <1>1, <1>2, <1>5, <2>1, <2>3, Fewer DEF Erasing
<1>9. CASE UnlistLast(r)
  <2>1. /\ UNCHANGED product /\ Open = {}
        /\ r.job.action = "DELETE"
    BY <1>3, <1>9 DEF UnlistLast, ClosedBy
  <2>2. PICK s \in Result : /\ results' = (results \ {r}) \cup {s}
                            /\ s.job = r.job /\ s.pc = "erase"
    <3>1. /\ [r EXCEPT !.pc = "erase"] \in Result
          /\ [r EXCEPT !.pc = "erase"].job = r.job /\ [r EXCEPT !.pc = "erase"].pc = "erase"
      BY <1>3 DEF Result
    <3> QED BY <1>9, <3>1 DEF UnlistLast, Moved
  <2>3. Closing'
    <3>1. ClosedBy(s)'
      BY <1>1, <1>3, <2>1, <2>2 DEF ClosedBy
    <3> QED BY <1>4, <2>2, <3>1
  <2>4. Listed'
    BY <1>1, <2>1 DEF Listed
  <2> QED BY <1>1, <1>2, <2>1, <2>3, <2>4, Fewer DEF Erasing
<1>10. CASE EraseLast(r)
  <2>1. /\ UNCHANGED listing /\ Acked(r) /\ Open = {}
        /\ product' = [status |-> "deleted", pending |-> {}]
    BY <1>3, <1>10 DEF EraseLast, ClosedBy
  <2>2. Pending' /\ ErasedMeansClosed'
    BY <1>1, <2>1 DEF Pending, ErasedMeansClosed, Open
  <2> QED BY <1>1, <1>2, <1>5, <2>1, <2>2, Fewer DEF Erasing
<1> QED BY <1>6, <1>7, <1>8, <1>9, <1>10 DEF Handle

(* Every step keeps the invariant.                                         *)
LEMMA NextErasing ==
  ASSUME TypeOK, Erasing, [Next]_vars
  PROVE  Erasing'
<1>1. CASE UNCHANGED vars
  BY <1>1, Fewer DEF vars, bounds, history, Erasing, Open
<1> QED BY <1>1, RemoveErasing, AdminErasing, EventErasing, PerformErasing, HandleErasing DEF Next

(* A product is erased only when none of its items is for sale, but for    *)
(* those whose publication was under way.                                  *)
THEOREM Erased == Spec => []ErasedMeansClosed
<1>1. Erasing => ErasedMeansClosed
  BY DEF Erasing
<1> QED BY <1>1, InitType, InitErasing, NextType, NextErasing, PTL DEF Spec

-----------------------------------------------------------------------------
(* Who removed a listing.                                                  *)

\* Removals are sent on behalf of moderation only for listings that are excused.
Moderated ==
    /\ \A j \in jobs : j.by = "worker" => j.id \in excused
    /\ \A r \in results : r.job.by = "worker" => r.job.id \in excused

\* The worker has one listing in hand.
Single ==
    caller["worker"].pc \in {"claim", "enqueue"} =>
      \E l \in Listings : caller["worker"].on = {l}

\* A removal that is pending holds the lock, and the worker gets no further than it.
Locked(l) ==
    /\ listing[l].status = "pending_removal" => listing[l].lock = "held"
    /\ listing[l].status # "removed_by_moderation"
    /\ /\ caller["worker"].pc \in {"remove", "claim"} /\ Exists(l)
       /\ l \in caller["worker"].todo \cup caller["worker"].on
       => listing[l].lock = "held"
    /\ caller["worker"].pc = "enqueue" => l \notin caller["worker"].on

Locking == Moderated /\ Single /\ \A l \in Listings \ excused : Locked(l)

(* Nothing is being removed when the system starts.                        *)
LEMMA InitLocking == Init => Locking
<1> SUFFICES ASSUME Init PROVE Locking
  OBVIOUS
<1>1. caller["worker"] = Quiet /\ jobs = {} /\ results = {}
  BY DEF Init, Callers
<1>2. \A l \in Listings : listing[l].status \in {"active", "error"}
  BY DEF Init, Gone
<1> QED BY <1>1, <1>2, RecordTypes DEF Locking, Moderated, Single, Locked

(* A listing that is left alone or deleted stays locked, unless the worker *)
(* takes a step towards it.                                                *)
LEMMA StaysLocked ==
  ASSUME NEW l \in Listings, Locked(l), listing'[l] \in {listing[l], Gone},
         \/ caller'["worker"] = caller["worker"]
         \/ caller'["worker"].pc \in {"idle", "bump", "give_up"}
  PROVE  Locked(l)'
BY RecordTypes DEF Locked, Exists

(* The loop of removals.                                                   *)
LEMMA AdminRemoveLocking ==
  ASSUME TypeOK, Locking, NEW p \in Requesters,
         Remove(p) \/ NoToken(p) \/ RemovalFails(p)
  PROVE  Locking'
<1>1. p \in Callers /\ "worker" \in Callers /\ p # "worker"
  BY RequestersAssumption DEF Callers
<1>2. caller'["worker"] = caller["worker"] /\ UNCHANGED results
  BY <1>1, RemoveEffect DEF Callers
<1>3. excused \subseteq excused'
  BY DEF Remove, ReadListing, ClaimListing, Enqueue, NoToken, RemovalFails, history
<1>4. Single'
  BY <1>2 DEF Locking, Single
<1>5. caller[p].on \subseteq Listings /\ caller[p].todo \subseteq Listings
  BY <1>1, Parts DEF Caller
<1>6. Moderated'
  <2>1. CASE UNCHANGED jobs
    BY <1>2, <1>3, <2>1 DEF Locking, Moderated
  <2>2. CASE Enqueue(p)
    <3>1. PICK j : jobs' = jobs \cup {j} /\ j.by # "worker"
      <4>1. PICK l \in caller[p].on :
              jobs' = jobs \cup {[id |-> l, action |-> "DELETE", by |-> p,
                                  nr |-> requests]}
        BY <1>1, <2>2 DEF Enqueue
      <4> DEFINE t == [id |-> l, action |-> "DELETE", by |-> p, nr |-> requests]
      <4>2. jobs' = jobs \cup {t} /\ t.by # "worker"
        BY <1>1, <4>1
      <4> HIDE DEF t
      <4> QED BY <4>2
    <3> QED BY <1>2, <1>3, <3>1 DEF Locking, Moderated
  <2> QED BY <2>1, <2>2 DEF Remove, ReadListing, ClaimListing, NoToken, RemovalFails
<1>7. ASSUME NEW l \in Listings \ excused' PROVE Locked(l)'
  <2>1. Locked(l) /\ listing[l] \in Listing
    BY <1>3, <1>7, Parts DEF Locking
  <2>2. CASE listing'[l] \in {listing[l], Gone}
    BY <1>2, <2>1, <2>2, StaysLocked
  <2>3. CASE NoToken(p)
    <3>1. PICK k \in caller[p].on :
            /\ listing' = [listing EXCEPT ![k] =
                 IF Exists(k) THEN [@ EXCEPT !.status = "removed", !.lock = "free"] ELSE @]
            /\ listing[k].lock = "free" \/ k \in excused'
      BY <2>3 DEF NoToken
    <3>2. CASE k = l /\ Exists(l)
      <4>1. listing[l].lock = "free"
        BY <1>7, <3>1, <3>2
      <4>2. listing'[l] = [listing[l] EXCEPT !.status = "removed", !.lock = "free"]
        BY <3>1, <3>2 DEF TypeOK
      <4>3. listing'[l].status = "removed" /\ listing'[l].lock = "free"
        BY <2>1, <4>2 DEF Listing
      <4> QED BY <1>2, <2>1, <3>2, <4>1, <4>3 DEF Locked
    <3>3. CASE ~(k = l /\ Exists(l))
      <4>1. listing'[l] = listing[l]
        BY <1>5, <3>1, <3>3 DEF TypeOK
      <4> QED BY <2>2, <4>1
    <3> QED BY <3>2, <3>3
  <2>4. CASE ClaimListing(p)
    <3>1. PICK k \in caller[p].on :
            \/ listing' = [listing EXCEPT ![k] =
                 [@ EXCEPT !.status = "pending_removal", !.lock = "held"]]
            \/ UNCHANGED listing
      BY <2>4 DEF ClaimListing
    <3>2. CASE k = l /\ listing'[l] # listing[l]
      <4>1. listing'[l] = [listing[l] EXCEPT !.status = "pending_removal", !.lock = "held"]
        BY <3>1, <3>2 DEF TypeOK
      <4>2. listing'[l].status = "pending_removal" /\ listing'[l].lock = "held"
        BY <2>1, <4>1 DEF Listing
      <4> QED BY <1>2, <2>1, <4>2 DEF Locked
    <3>3. CASE k # l \/ listing'[l] = listing[l]
      <4>1. listing'[l] = listing[l]
        BY <1>5, <3>1, <3>3 DEF TypeOK
      <4> QED BY <2>2, <4>1
    <3> QED BY <3>2, <3>3
  <2>5. CASE ReadListing(p)
    <3>1. PICK k \in caller[p].todo :
            listing' = [listing EXCEPT ![k] = IF @.externalId THEN @ ELSE Gone]
      BY <2>5 DEF ReadListing
    <3>2. listing'[l] \in {listing[l], Gone}
      BY <1>5, <3>1 DEF TypeOK
    <3> QED BY <2>2, <3>2
  <2>6. CASE Enqueue(p) \/ RemovalFails(p)
    BY <2>2, <2>6 DEF Enqueue, RemovalFails
  <2> QED BY <2>3, <2>4, <2>5, <2>6 DEF Remove
<1> QED BY <1>4, <1>6, <1>7 DEF Locking

(* The worker's removal.                                                   *)
LEMMA WorkerRemoveLocking ==
  ASSUME TypeOK, Locking, Remove("worker") \/ NoToken("worker") \/ RemovalFails("worker")
  PROVE  Locking'
<1> DEFINE w == caller["worker"]
<1>1. /\ "worker" \in Callers /\ w \in Caller
      /\ w.on \subseteq Listings /\ w.todo \subseteq Listings
  BY Parts DEF Callers, Caller
<1>2. UNCHANGED results /\ excused \subseteq excused'
  BY <1>1, RemoveEffect
     DEF Remove, ReadListing, ClaimListing, Enqueue, NoToken, RemovalFails, history
<1>3. \A l \in Listings : Done("worker", l).pc = "bump" /\ Failed("worker", l).pc = "give_up"
  BY <1>1, DoneType
<1>4. ASSUME UNCHANGED jobs PROVE Moderated'
  BY <1>2, <1>4 DEF Locking, Moderated
<1>5. CASE ReadListing("worker")
  <2>1. PICK k \in w.todo :
          /\ listing' = [listing EXCEPT ![k] = IF @.externalId THEN @ ELSE Gone]
          /\ caller' = [caller EXCEPT !["worker"] =
               IF ~Exists(k) THEN Failed("worker", k)
               ELSE IF listing[k].externalId THEN [w EXCEPT !.pc = "claim", !.on = {k}]
               ELSE Done("worker", k)]
    BY <1>5 DEF ReadListing
  <2>2. caller'["worker"] = IF ~Exists(k) THEN Failed("worker", k)
               ELSE IF listing[k].externalId THEN [w EXCEPT !.pc = "claim", !.on = {k}]
               ELSE Done("worker", k)
    BY <1>1, <2>1 DEF TypeOK
  <2>3. \A l \in Listings : listing'[l] \in {listing[l], Gone}
    BY <1>1, <2>1 DEF TypeOK
  <2>4. Moderated' /\ UNCHANGED excused
    BY <1>4, <1>5 DEF ReadListing, history
  <2>5. CASE caller'["worker"].pc \in {"bump", "give_up"}
    <3>1. \A l \in Listings \ excused' : Locked(l)'
      BY <2>3, <2>4, <2>5, StaysLocked DEF Locking
    <3>2. Single'
      BY <2>5 DEF Single
    <3> QED BY <2>4, <3>1, <3>2 DEF Locking
  <2>6. CASE Exists(k) /\ listing[k].externalId
    <3>1. /\ caller'["worker"].pc = "claim" /\ caller'["worker"].on = {k}
          /\ caller'["worker"].todo = w.todo
      BY <1>1, <2>2, <2>6 DEF Caller
    <3>2. UNCHANGED listing
      BY <1>1, <2>1, <2>6 DEF TypeOK
    <3>3. w.pc = "remove"
      BY <1>5 DEF ReadListing
    <3>4. ASSUME NEW l \in Listings \ excused' PROVE Locked(l)'
      BY <2>4, <3>1, <3>2, <3>3, <3>4 DEF Locking, Locked, Exists
    <3>5. Single'
      BY <1>1, <3>1 DEF Single
    <3> QED BY <2>4, <3>4, <3>5 DEF Locking
  <2> QED BY <1>1, <1>3, <2>2, <2>5, <2>6
<1>6. CASE NoToken("worker")
  <2>1. PICK k \in w.on :
          /\ listing' = [listing EXCEPT ![k] =
               IF Exists(k) THEN [@ EXCEPT !.status = "removed", !.lock = "free"] ELSE @]
          /\ listing[k].lock = "free" \/ k \in excused'
          /\ caller' = [caller EXCEPT !["worker"] = Done("worker", k)]
    BY <1>6 DEF NoToken
  <2>2. caller'["worker"].pc = "bump"
    BY <1>1, <1>3, <2>1 DEF TypeOK
  <2>3. ASSUME NEW l \in Listings \ excused' PROVE Locked(l)'
    <3>1. Locked(l) /\ w.pc = "claim"
      BY <1>2, <1>6, <2>3 DEF Locking, NoToken
    <3>2. ~(l = k /\ Exists(k))
      BY <2>1, <2>3, <3>1 DEF Locked
    <3>3. listing'[l] = listing[l]
      BY <1>1, <2>1, <3>2 DEF TypeOK
    <3> QED BY <2>2, <3>1, <3>3, StaysLocked
  <2>4. Moderated' /\ Single'
    BY <1>4, <1>6, <2>2 DEF NoToken, Single
  <2> QED BY <2>3, <2>4 DEF Locking
<1>7. CASE ClaimListing("worker")
  <2>1. PICK k \in w.on :
          IF Lockable(k)
          THEN /\ listing' = [listing EXCEPT ![k] =
                    [@ EXCEPT !.status = "pending_removal", !.lock = "held"]]
               /\ caller' = [caller EXCEPT !["worker"] = [w EXCEPT !.pc = "enqueue"]]
          ELSE /\ caller' = [caller EXCEPT !["worker"] = Failed("worker", k)]
               /\ UNCHANGED listing
    BY <1>7 DEF ClaimListing
  <2>2. Moderated' /\ UNCHANGED excused /\ w.pc = "claim" /\ k \in Listings
    BY <1>1, <1>4, <1>7 DEF ClaimListing, history
  <2>3. CASE ~Lockable(k)
    <3>1. caller'["worker"].pc = "give_up" /\ UNCHANGED listing
      BY <1>1, <1>3, <2>1, <2>3 DEF TypeOK
    <3>2. \A l \in Listings \ excused' : Locked(l)'
      BY <2>2, <3>1, StaysLocked DEF Locking
    <3> QED BY <2>2, <3>1, <3>2 DEF Locking, Single
  <2>4. CASE Lockable(k)
    <3>1. caller'["worker"] = [w EXCEPT !.pc = "enqueue"]
      BY <1>1, <2>1, <2>4 DEF TypeOK
    <3>2. /\ caller'["worker"].pc = "enqueue" /\ caller'["worker"].on = w.on
          /\ w.on = {k}
      BY <1>1, <2>2, <3>1 DEF Caller, Locking, Single
    <3>3. ASSUME NEW l \in Listings \ excused' PROVE Locked(l)'
      <4>1. Locked(l)
        BY <2>2, <3>3 DEF Locking
      <4>2. l # k
        BY <2>2, <2>4, <4>1 DEF Locked, Lockable
      <4>3. listing'[l] = listing[l]
        BY <2>1, <2>4, <4>2 DEF TypeOK
      <4> QED BY <3>2, <4>1, <4>2, <4>3 DEF Locked
    <3>4. Single'
      BY <2>2, <3>2 DEF Single
    <3> QED BY <2>2, <3>3, <3>4 DEF Locking
  <2> QED BY <2>3, <2>4
<1>8. CASE Enqueue("worker")
  <2>1. PICK k \in w.on : /\ jobs' = jobs \cup {[id |-> k, action |-> "DELETE",
                                                 by |-> "worker", nr |-> events]}
                          /\ caller' = [caller EXCEPT !["worker"] = Done("worker", k)]
    BY <1>8 DEF Enqueue
  <2>2. UNCHANGED <<listing, excused>> /\ w.pc = "enqueue" /\ caller'["worker"].pc = "bump"
    BY <1>1, <1>3, <1>8, <2>1 DEF Enqueue, history, TypeOK
  <2>3. k \in excused
    BY <1>1, <2>2 DEF Locking, Locked
  <2>4. Moderated'
    <3> DEFINE t == [id |-> k, action |-> "DELETE", by |-> "worker", nr |-> events]
    <3>1. jobs' = jobs \cup {t} /\ t.id = k
      BY <2>1
    <3> HIDE DEF t
    <3> QED BY <1>2, <2>3, <3>1 DEF Locking, Moderated
  <2>5. \A l \in Listings \ excused' : Locked(l)'
    BY <2>2, StaysLocked DEF Locking
  <2> QED BY <2>2, <2>4, <2>5 DEF Locking, Single
<1>9. CASE RemovalFails("worker")
  <2>1. UNCHANGED <<listing, excused, jobs>> /\ caller'["worker"].pc = "give_up"
    BY <1>1, <1>3, <1>9 DEF RemovalFails, history, TypeOK
  <2>2. \A l \in Listings \ excused' : Locked(l)'
    BY <2>1, StaysLocked DEF Locking
  <2> QED BY <1>4, <2>1, <2>2 DEF Locking, Single
<1> QED BY <1>5, <1>6, <1>7, <1>8, <1>9 DEF Remove

(* requestDeletion.                                                        *)
LEMMA AdminLocking ==
  ASSUME TypeOK, Locking, NEW p \in Requesters, Admin(p)
  PROVE  Locking'
<1>1. UNCHANGED <<jobs, results, excused>>
  BY DEF Admin, Request, ReadListings, Drop, Register, Unlist, Erase, bounds, history
<1>2. caller'["worker"] = caller["worker"]
  BY RequestersAssumption
     DEF Admin, Request, ReadListings, Drop, Register, Unlist, Erase, TypeOK, Callers
<1>3. \A l \in Listings : listing'[l] \in {listing[l], Gone}
  BY DEF Admin, Request, ReadListings, Drop, Register, Unlist, Erase
<1>4. \A l \in Listings \ excused' : Locked(l)'
  BY <1>1, <1>2, <1>3, StaysLocked DEF Locking
<1> QED BY <1>1, <1>2, <1>4 DEF Locking, Moderated, Single

(* Moderation, its worker, the clock, synchronisations, crashes and the    *)
(* orchestrator.                                                           *)
LEMMA EventLocking ==
  ASSUME TypeOK, Locking,
         \/ WorkerFinds \/ Bump \/ Crash
         \/ \E l \in Listings : Condemn(l) \/ LockLapses(l) \/ Sync(l)
         \/ \E j \in jobs : Perform(j) \/ GiveUpJob(j)
  PROVE  Locking'
<1>1. "worker" \in Callers /\ caller["worker"].on \subseteq Listings
  BY Parts DEF Callers, Caller
<1>2. CASE WorkerFinds
  <2>1. PICK k \in Listings :
          /\ listing[k].status = "pending_removal"
          /\ caller' = [caller EXCEPT !["worker"] = [Quiet EXCEPT !.pc = "remove", !.todo = {k}]]
    BY <1>2 DEF WorkerFinds
  <2>2. caller'["worker"] = [Quiet EXCEPT !.pc = "remove", !.todo = {k}]
    BY <1>1, <2>1 DEF TypeOK
  <2>3. /\ caller'["worker"].pc = "remove" /\ caller'["worker"].todo = {k}
        /\ caller'["worker"].on = {}
    BY <2>2 DEF Quiet
  <2>4. UNCHANGED <<listing, jobs, results, excused>>
    BY <1>2 DEF WorkerFinds, history
  <2>5. ASSUME NEW l \in Listings \ excused' PROVE Locked(l)'
    <3>1. Locked(l)
      BY <2>4, <2>5 DEF Locking
    <3> QED BY <2>1, <2>3, <2>4, <3>1 DEF Locked
  <2> QED BY <2>3, <2>4, <2>5 DEF Locking, Moderated, Single
<1>3. CASE Bump
  <2>1. PICK k \in caller["worker"].on :
          listing' \in {listing, [listing EXCEPT ![k].status = "removal_failed"]}
    BY <1>3 DEF Bump
  <2>2. caller'["worker"].pc = "idle" /\ UNCHANGED <<jobs, results, excused>>
    BY <1>1, <1>3, RecordTypes DEF Bump, history, TypeOK
  <2>3. ASSUME NEW l \in Listings \ excused' PROVE Locked(l)'
    <3>1. Locked(l) /\ listing[l] \in Listing
      BY <2>2, <2>3, Parts DEF Locking
    <3>2. CASE listing'[l] = listing[l]
      BY <2>2, <3>1, <3>2, StaysLocked
    <3>3. CASE listing'[l] # listing[l]
      <4>1. listing'[l] = [listing[l] EXCEPT !.status = "removal_failed"]
        BY <1>1, <2>1, <3>3 DEF TypeOK
      <4>2. listing'[l].status = "removal_failed"
        BY <3>1, <4>1 DEF Listing
      <4> QED BY <2>2, <4>2 DEF Locked
    <3> QED BY <3>2, <3>3
  <2> QED BY <2>2, <2>3 DEF Locking, Moderated, Single
<1>4. CASE Crash
  <2>1. caller'["worker"].pc = "idle" /\ UNCHANGED <<listing, jobs, excused>>
    BY <1>1, <1>4, RecordTypes DEF Crash, history
  <2>2. \A r \in results : Queued(r).job = r.job
    BY Parts DEF Queued, Result
  <2>3. Moderated'
    BY <1>4, <2>1, <2>2 DEF Crash, Locking, Moderated
  <2>4. \A l \in Listings \ excused' : Locked(l)'
    BY <2>1, StaysLocked DEF Locking
  <2> QED BY <2>1, <2>3, <2>4 DEF Locking, Single
<1>5. ASSUME NEW k \in Listings, Condemn(k) \/ LockLapses(k) PROVE Locking'
  <2>1. /\ UNCHANGED <<caller, jobs, results>> /\ excused' = excused \cup {k}
        /\ \A l \in Listings \ {k} : listing'[l] = listing[l]
    BY <1>5 DEF Condemn, LockLapses, TypeOK
  <2>2. ASSUME NEW l \in Listings \ excused' PROVE Locked(l)'
    <3>1. Locked(l) /\ listing'[l] = listing[l]
      BY <2>1, <2>2 DEF Locking
    <3> QED BY <2>1, <3>1, StaysLocked
  <2> QED BY <2>1, <2>2 DEF Locking, Moderated, Single
<1>6. ASSUME NEW k \in Listings, Sync(k) PROVE Locking'
  <2>1. UNCHANGED <<listing, caller, results, excused>>
    BY <1>6 DEF Sync
  <2>2. PICK j : jobs' = jobs \cup {j} /\ j.by = "sync"
    <3>1. PICK action \in Action :
            jobs' = jobs \cup {[id |-> k, action |-> action, by |-> "sync",
                                nr |-> events]}
      BY <1>6 DEF Sync, Action
    <3> DEFINE t == [id |-> k, action |-> action, by |-> "sync", nr |-> events]
    <3>2. jobs' = jobs \cup {t} /\ t.by = "sync"
      BY <3>1
    <3> HIDE DEF t
    <3> QED BY <3>2
  <2>3. \A l \in Listings \ excused' : Locked(l)'
    BY <2>1, StaysLocked DEF Locking
  <2> QED BY <2>1, <2>2, <2>3 DEF Locking, Moderated, Single
<1>7. ASSUME NEW j \in jobs, Perform(j) PROVE Locking'
  <2>1. UNCHANGED <<listing, caller, excused>> /\ jobs' = jobs \ {j}
    BY <1>7 DEF Perform, history
  <2>2. PICK s : results' = results \cup {s} /\ s.job = j
    <3>1. PICK success \in BOOLEAN :
            results' = results \cup {[job |-> j, success |-> success, pc |-> "queued",
                                     remaining |-> {}]}
      BY <1>7 DEF Perform
    <3> DEFINE t == [job |-> j, success |-> success, pc |-> "queued", remaining |-> {}]
    <3>2. results' = results \cup {t} /\ t.job = j
      BY <3>1
    <3> HIDE DEF t
    <3> QED BY <3>2
  <2>3. \A l \in Listings \ excused' : Locked(l)'
    BY <2>1, StaysLocked DEF Locking
  <2> QED BY <2>1, <2>2, <2>3 DEF Locking, Moderated, Single
<1>8. ASSUME NEW j \in jobs, GiveUpJob(j) PROVE Locking'
  <2>1. UNCHANGED <<listing, caller, results, excused>> /\ jobs' = jobs \ {j}
    BY <1>8 DEF GiveUpJob, history
  <2>2. \A l \in Listings \ excused' : Locked(l)'
    BY <2>1, StaysLocked DEF Locking
  <2> QED BY <2>1, <2>2 DEF Locking, Moderated, Single
<1> QED BY <1>2, <1>3, <1>4, <1>5, <1>6, <1>7, <1>8

(* The consumer of the results.                                            *)
LEMMA HandleLocking ==
  ASSUME TypeOK, Locking, NEW r \in results, Handle(r)
  PROVE  Locking'
<1>1. UNCHANGED <<jobs, caller>> /\ excused \subseteq excused'
  BY DEF Handle, Receive, ReadProduct, WriteProduct, UnlistLast, EraseLast, bounds, history
<1>2. r \in Result /\ r.job \in Job /\ r.job.id \in Listings
  BY Parts
<1>3. Moderated'
  <2>1. ASSUME NEW s, s.job = r.job, results' = (results \ {r}) \cup {s} PROVE Moderated'
    BY <1>1, <2>1 DEF Locking, Moderated
  <2>2. ASSUME Acked(r) PROVE Moderated'
    BY <1>1, <2>2 DEF Acked, Locking, Moderated
  <2>3. ASSUME NEW pc, Moved(r, pc) PROVE Moderated'
    <3>1. [r EXCEPT !.pc = pc].job = r.job
      BY <1>2 DEF Result
    <3> QED BY <2>1, <2>3, <3>1 DEF Moved
  <2>4. CASE ReadProduct(r) /\ product.status = "pending"
    <3> DEFINE left == Remaining(product.pending, r.job.id)
               t == [r EXCEPT !.pc = IF IsLast(r, left) THEN "unlist" ELSE "write",
                              !.remaining = left]
    <3>1. results' = (results \ {r}) \cup {t}
      BY <2>4 DEF ReadProduct
    <3>2. t.job = r.job
      BY <1>2 DEF Result
    <3> HIDE DEF t
    <3> QED BY <2>1, <3>1, <3>2
  <2> QED BY <2>2, <2>3, <2>4
          DEF Handle, Receive, ReadProduct, WriteProduct, UnlistLast, EraseLast
<1>4. ASSUME NEW l \in Listings \ excused' PROVE Locked(l)'
  <2>1. Locked(l)
    BY <1>1, <1>4 DEF Locking
  <2>2. CASE listing'[l] \in {listing[l], Gone}
    BY <1>1, <2>1, <2>2, StaysLocked
  <2>3. CASE Receive(r) /\ r.job.id = l /\ Exists(l)
    <3>1. listing'[l] = Applied(r)
      BY <2>3 DEF Receive, TypeOK
    <3>2. r.job.by # "worker"
      BY <1>1, <1>4, <2>3 DEF Locking, Moderated
    <3>3. listing'[l].status \in {"removed", "removal_failed", "active", "error"}
      <4>1. listing[l] \in Listing
        BY Parts
      <4> QED BY <2>3, <3>1, <3>2, <4>1 DEF Applied, Exists, Listing
    <3>4. \/ listing[l].lock = "free"
          \/ l \notin caller["worker"].todo \cup caller["worker"].on
      BY <1>4, <2>3 DEF Receive
    <3> QED BY <1>1, <2>1, <2>3, <3>3, <3>4 DEF Locked
  <2>4. CASE Receive(r) /\ ~(r.job.id = l /\ Exists(l))
    <3>1. listing'[l] = listing[l]
      BY <1>2, <2>4 DEF Receive, TypeOK, Applied, Exists
    <3> QED BY <2>2, <3>1
  <2>5. CASE ~Receive(r)
    BY <2>2, <2>5 DEF Handle, ReadProduct, WriteProduct, UnlistLast, EraseLast
  <2> QED BY <2>3, <2>4, <2>5
<1> QED BY <1>1, <1>3, <1>4 DEF Locking, Single

(* Every step keeps the invariant.                                         *)
LEMMA NextLocking ==
  ASSUME TypeOK, Locking, [Next]_vars
  PROVE  Locking'
<1>1. CASE UNCHANGED vars
  BY <1>1 DEF vars, history, Locking, Moderated, Single, Locked, Exists
<1>2. ASSUME NEW p \in Callers, Remove(p) \/ NoToken(p) \/ RemovalFails(p) PROVE Locking'
  BY <1>2, AdminRemoveLocking, WorkerRemoveLocking DEF Callers
<1> QED BY <1>1, <1>2, AdminLocking, EventLocking, HandleLocking DEF Next

(* A listing is taken for one that moderation removed only if moderation   *)
(* marked it, or its lock was opened too early.                            *)
THEOREM ManualStays == Spec => []ManualRemovalStaysManual
<1>1. Locking => ManualRemovalStaysManual
  BY DEF Locking, Locked, ManualRemovalStaysManual
<1> QED BY <1>1, InitType, InitLocking, NextType, NextLocking, PTL DEF Spec
=============================================================================
