-------------------------- MODULE ProductDeletion --------------------------
(***************************************************************************)
(* Deleting a product: src/src/product-deletion, with the removal of       *)
(* listings and the results of marketplace jobs it waits for.              *)
(*                                                                         *)
(* requestDeletion asks for the removal of every published listing, then   *)
(* writes down which results the product waits for; that none is waited    *)
(* for already was read at its beginning, so that requests overlap.  The   *)
(* orchestrator, another service, does the jobs in any order, those that   *)
(* the outbox does not give up; SyncResultConsumer, with                   *)
(* several messages in hand at a time, applies each result to the listing  *)
(* and tells ProductDeletionService, which erases the product after the    *)
(* last one.  A timer (ModerationRemovalWorker) sends removals that are    *)
(* pending again, whoever asked for them.                                  *)
(*                                                                         *)
(* One product and its listings.  Blocking references (orders, boxes),     *)
(* prices, titles and notices are left out, and so is the path of          *)
(* marketplaces that publish asynchronously.                               *)
(* A definition marked "fault" is the one below it with a plausible bug.   *)
(***************************************************************************)
EXTENDS Integers, FiniteSets

CONSTANTS
    Listings,     \* the product's listings
    Published,    \* those with an externalId at the start
    Requesters,   \* calls of requestDeletion under way at a time
    Prefetch,     \* messages of q.sync.results in hand at a time
    MaxRequests,  \* bound: deletions requested
    MaxDisturbances  \* bound: publications, updates, moderations and runs of the timer,
                     \* crashes, missing tokens, failed writes, lost jobs and slow removals

ASSUME ListingsAssumption == Published \subseteq Listings
ASSUME RequestersAssumption == {"worker", "sync"} \cap Requesters = {}
ASSUME BoundsAssumption == {MaxRequests, MaxDisturbances} \subseteq Nat

VARIABLES
    product,   \* its document: deletionStatus and deletionPendingListingIds
    listing,   \* the documents of its listings
    live,      \* items at the marketplaces
    jobs,      \* requests on their way to the orchestrator
    results,   \* messages in q.sync.results; those in hand are with SyncResultConsumer
    caller,    \* who calls removeListing: the requests and the worker
    requests, events, faults,
    created,   \* history: listings for which a publication was requested
    excused    \* history: listings that moderation has marked for removal, or whose
               \* lock was opened too early (NoToken, LockLapses, Receive)

bounds == <<requests, events, faults>>
history == <<created, excused>>
vars == <<product, listing, live, jobs, results, caller, bounds, history>>

Callers == Requesters \cup {"worker"}
Action == {"CREATE", "UPDATE", "DELETE"}
Serial == 0 .. MaxRequests + MaxDisturbances        \* tells alike jobs apart
Job == [id : Listings, action : Action, by : Callers \cup {"sync"}, nr : Serial]
Result == [job : Job, success : BOOLEAN,
           pc : {"queued", "read", "write", "unlist", "erase"},   \* handle, if in hand
           remaining : SUBSET Listings]

Gone == [status |-> "gone", externalId |-> FALSE, lock |-> "free"]
Listing == [status : {"gone", "active", "error", "pending_removal", "removal_failed",
                      "removed", "removed_by_moderation"},
            externalId : BOOLEAN,                  \* it has one
            lock : {"free", "held", "lapsed"}]     \* publishingAt, against LOCK_TTL_MS
Quiet == [pc |-> "idle", todo |-> {}, on |-> {}, sent |-> {}]
Caller == [pc : {"idle", "list", "drop", "remove", "claim", "enqueue", "register", "bump",
                 "give_up", "unlist", "erase"},
           todo : SUBSET Listings,                 \* listings to go
           on : SUBSET Listings,                   \* those being removed
           sent : SUBSET Listings]                 \* pendingListingIds of requestDeletion
Init ==
    /\ product = [status |-> "none", pending |-> {}]
    /\ listing = [l \in Listings |->
         IF l \in Published THEN [Gone EXCEPT !.status = "active", !.externalId = TRUE]
         ELSE [Gone EXCEPT !.status = "error"]]
    /\ live = Published
    /\ jobs = {} /\ results = {}
    /\ caller = [p \in Callers |-> Quiet]
    /\ requests = 0 /\ events = 0 /\ faults = 0
    /\ created = {} /\ excused = {}

Fault == events + faults < MaxDisturbances /\ faults' = faults + 1
Event == events + faults < MaxDisturbances /\ events' = events + 1
Exists(l) == listing[l].status # "gone"

-----------------------------------------------------------------------------
(* removeListing, called by requestDeletion and by the worker.             *)

\* What the caller does once removeListing is done with l, and when it throws.
Done(p, l) == LET todo == caller[p].todo \ {l} IN
    IF p = "worker" THEN [Quiet EXCEPT !.pc = "bump", !.on = {l}]
    ELSE [Quiet EXCEPT !.pc = IF todo = {} THEN "register" ELSE "remove",
                       !.todo = todo, !.sent = caller[p].sent \cup {l}]
Failed(p, l) == IF p = "worker" THEN [Quiet EXCEPT !.pc = "give_up", !.on = {l}] ELSE Quiet

\* The next listing of the loop: findById, and the tests up to the lock.  A listing
\* without externalId is deleted.
ReadListing(p) ==
    /\ caller[p].pc = "remove"
    /\ \E l \in caller[p].todo :
         /\ listing' = [listing EXCEPT ![l] = IF @.externalId THEN @ ELSE Gone]
         /\ caller' = [caller EXCEPT ![p] =
              IF ~Exists(l) THEN Failed(p, l)
              ELSE IF listing[l].externalId THEN [@ EXCEPT !.pc = "claim", !.on = {l}]
              ELSE Done(p, l)]
    /\ UNCHANGED <<product, live, jobs, results, bounds, history>>

\* There is no token of the owner's account: the listing is called removed, no job
\* is sent, and the caller is not told apart.
NoToken(p) ==
    /\ Fault
    /\ caller[p].pc = "claim"
    /\ \E l \in caller[p].on :
         /\ listing' = [listing EXCEPT ![l] =
              IF Exists(l) THEN [@ EXCEPT !.status = "removed", !.lock = "free"] ELSE @]
         /\ excused' = IF listing[l].lock = "free" THEN excused ELSE excused \cup {l}
         /\ caller' = [caller EXCEPT ![p] = Done(p, l)]
    /\ UNCHANGED <<product, live, jobs, results, requests, events, created>>

LockableAlways(l) == Exists(l)                                        \* fault
Lockable(l) == Exists(l) /\ listing[l].lock # "held"

\* The findOneAndUpdate that takes the lock; it looks at nothing else.
ClaimListing(p) ==
    /\ caller[p].pc = "claim"
    /\ \E l \in caller[p].on :
         IF Lockable(l)
         THEN /\ listing' = [listing EXCEPT ![l] =
                   [@ EXCEPT !.status = "pending_removal", !.lock = "held"]]
              /\ caller' = [caller EXCEPT ![p].pc = "enqueue"]
         ELSE /\ caller' = [caller EXCEPT ![p] = Failed(p, l)]
              /\ UNCHANGED listing
    /\ UNCHANGED <<product, live, jobs, results, bounds, history>>

\* requestSync puts the job in the outbox.
Enqueue(p) ==
    /\ caller[p].pc = "enqueue"
    /\ \E l \in caller[p].on :
         /\ jobs' = jobs \cup {[id |-> l, action |-> "DELETE", by |-> p,
                                nr |-> IF p = "worker" THEN events ELSE requests]}
         /\ caller' = [caller EXCEPT ![p] = Done(p, l)]
    /\ UNCHANGED <<product, listing, live, results, bounds, history>>

\* No account is set up for its store, or the outbox cannot be written.
RemovalFails(p) ==
    /\ Fault
    /\ caller[p].pc \in {"claim", "enqueue"}
    /\ \E l \in caller[p].on : caller' = [caller EXCEPT ![p] = Failed(p, l)]
    /\ UNCHANGED <<product, listing, live, jobs, results, requests, events, history>>

-----------------------------------------------------------------------------
(* requestDeletion.                                                        *)

\* It is refused while a deletion is pending.
Request(p) ==
    /\ caller[p].pc = "idle"
    /\ requests < MaxRequests
    /\ product.status \in {"none", "failed"}
    /\ requests' = requests + 1
    /\ caller' = [caller EXCEPT ![p] = [Quiet EXCEPT !.pc = "list"]]
    /\ UNCHANGED <<product, listing, live, jobs, results, events, faults, history>>

\* findByProduct: the listings with an externalId, and those without.
ReadListings(p) ==
    /\ caller[p].pc = "list"
    /\ caller' = [caller EXCEPT ![p] =
         [Quiet EXCEPT !.pc = "drop", !.todo = {l \in Listings : listing[l].externalId},
                       !.on = {l \in Listings : Exists(l) /\ ~listing[l].externalId}]]
    /\ UNCHANGED <<product, listing, live, jobs, results, bounds, history>>

\* Those that were read without externalId are deleted; if there are no others, so
\* is the product.
Drop(p) ==
    /\ caller[p].pc = "drop"
    /\ listing' = [l \in Listings |-> IF l \in caller[p].on THEN Gone ELSE listing[l]]
    /\ caller' = [caller EXCEPT ![p] =
         [@ EXCEPT !.pc = IF caller[p].todo = {} THEN "unlist" ELSE "remove", !.on = {}]]
    /\ UNCHANGED <<product, live, jobs, results, bounds, history>>

\* The updateOne after the loop, which looks at no status.
Register(p) ==
    /\ caller[p].pc = "register"
    /\ product' = IF product.status = "deleted" THEN product
                  ELSE [status |-> "pending", pending |-> caller[p].sent]
    /\ caller' = [caller EXCEPT ![p] = Quiet]
    /\ UNCHANGED <<listing, live, jobs, results, bounds, history>>

\* finalizeDeletion, called by requestDeletion: the listings, then the product.
Unlist(p) ==
    /\ caller[p].pc = "unlist"
    /\ listing' = [l \in Listings |-> Gone]
    /\ caller' = [caller EXCEPT ![p].pc = "erase"]
    /\ UNCHANGED <<product, live, jobs, results, bounds, history>>

Erase(p) ==
    /\ caller[p].pc = "erase"
    /\ product' = [status |-> "deleted", pending |-> {}]
    /\ caller' = [caller EXCEPT ![p] = Quiet]
    /\ UNCHANGED <<listing, live, jobs, results, bounds, history>>

-----------------------------------------------------------------------------
(* Moderation: the handler of a wrong category, and the worker.            *)

Condemn(l) ==
    /\ Event
    /\ listing[l].externalId
    /\ listing[l].status \notin {"pending_removal", "removed"}
    /\ listing' = [listing EXCEPT ![l] = [@ EXCEPT !.status = "pending_removal", !.lock = "free"]]
    /\ excused' = excused \cup {l}
    /\ UNCHANGED <<product, live, jobs, results, caller, requests, faults, created>>

\* run: a listing that is pending_removal and published, if its backoff is over.
\* The others of the same run are found by further ones.
WorkerFinds ==
    /\ Event
    /\ caller["worker"].pc = "idle"
    /\ \E l \in Listings :
         /\ listing[l].status = "pending_removal" /\ listing[l].externalId
         /\ caller' = [caller EXCEPT !["worker"] =
              [Quiet EXCEPT !.pc = "remove", !.todo = {l}]]
    /\ UNCHANGED <<product, listing, live, jobs, results, requests, faults, history>>

\* bump, after the removal was sent or refused; whether it was refused for the last
\* time (MAX_ATTEMPTS) is left open.
Bump ==
    /\ caller["worker"].pc \in {"bump", "give_up"}
    /\ \E l \in caller["worker"].on :
         \/ UNCHANGED listing
         \/ /\ caller["worker"].pc = "give_up" /\ Exists(l)
            /\ listing' = [listing EXCEPT ![l].status = "removal_failed"]
    /\ caller' = [caller EXCEPT !["worker"] = Quiet]
    /\ UNCHANGED <<product, live, jobs, results, bounds, history>>

\* LOCK_TTL_MS go by without a result.
LockLapses(l) ==
    /\ Fault
    /\ listing[l].lock = "held"
    /\ listing' = [listing EXCEPT ![l].lock = "lapsed"]
    /\ excused' = excused \cup {l}
    /\ UNCHANGED <<product, live, jobs, results, caller, requests, events, created>>

-----------------------------------------------------------------------------
(* The orchestrator and the marketplaces.                                  *)

\* A synchronisation of the product creates or updates the item of a listing.
Sync(l) ==
    /\ Event
    /\ Exists(l) /\ listing[l].status \notin {"removed", "pending_removal"}
    /\ LET action == IF listing[l].externalId THEN "UPDATE" ELSE "CREATE" IN
       /\ jobs' = jobs \cup {[id |-> l, action |-> action, by |-> "sync", nr |-> events]}
       /\ created' = IF action = "CREATE" THEN created \cup {l} ELSE created
    /\ UNCHANGED <<product, listing, live, results, caller, requests, faults, excused>>

\* A job is done, or fails, and its result is sent.
Perform(j) ==
    /\ \E success \in BOOLEAN :
         /\ j.action = "UPDATE" /\ success => j.id \in live
         /\ live' = CASE success /\ j.action = "DELETE" -> live \ {j.id}
                      [] success /\ j.action = "CREATE" -> live \cup {j.id}
                      [] OTHER -> live
         /\ results' = results \cup {[job |-> j, success |-> success, pc |-> "queued",
                                      remaining |-> {}]}
    /\ jobs' = jobs \ {j}
    /\ UNCHANGED <<product, listing, caller, bounds, history>>

\* The outbox gives it up after maxAttempts, and nothing is heard of it again.
GiveUpJob(j) ==
    /\ Fault
    /\ jobs' = jobs \ {j}
    /\ UNCHANGED <<product, listing, live, results, caller, requests, events, history>>

-----------------------------------------------------------------------------
(* SyncResultConsumer.handle for message r.                                *)

Queued(r) == [r EXCEPT !.pc = "queued", !.remaining = {}]
Moved(r, pc) == results' = (results \ {r}) \cup {[r EXCEPT !.pc = pc]}
Acked(r) == results' = results \ {r}

\* The update of the listing's document, if it still exists.
Applied(r) == LET old == listing[r.job.id] IN
    CASE old.status = "gone" -> old
      [] old.status # "gone" /\ r.job.action = "DELETE" /\ r.success ->
           [status |-> IF r.job.by = "worker" THEN "removed_by_moderation" ELSE "removed",
            externalId |-> FALSE, lock |-> "free"]
      [] old.status # "gone" /\ r.job.action = "DELETE" /\ ~r.success ->
           [old EXCEPT !.status = "removal_failed", !.lock = "free"]
      [] old.status # "gone" /\ r.job.action # "DELETE" /\ r.success ->
           [old EXCEPT !.status = "active", !.externalId = TRUE, !.lock = "free"]
      [] old.status # "gone" /\ r.job.action # "DELETE" /\ ~r.success ->
           [old EXCEPT !.status = "error", !.lock = "free"]

\* A message is taken and its listing updated.  The result of another job opens the
\* lock of a removal that is under way, and that of the removal opens it for a worker
\* that has read the listing as it was.
Receive(r) ==
    /\ r.pc = "queued"
    /\ Cardinality({m \in results : m.pc # "queued"}) < Prefetch
    /\ listing' = [listing EXCEPT ![r.job.id] = Applied(r)]
    /\ IF r.job.action = "DELETE" THEN Moved(r, "read") ELSE Acked(r)
    /\ excused' = IF \/ listing[r.job.id].lock = "free"
                     \/ /\ r.job.action = "DELETE"
                        /\ r.job.id \notin caller["worker"].todo \cup caller["worker"].on
                  THEN excused ELSE excused \cup {r.job.id}
    /\ UNCHANGED <<product, live, jobs, caller, bounds, created>>

Remaining(pending, l) == pending \ {l}

IsLastWhatever(r, left) == left = {}                                  \* fault
IsLast(r, left) == r.success /\ left = {}

\* onListingRemovalResult reads the product; it returns if no deletion is pending,
\* be it that the request has not registered what it waits for yet.
ReadProduct(r) ==
    /\ r.pc = "read"
    /\ IF product.status = "pending"
       THEN LET left == Remaining(product.pending, r.job.id) IN
            results' = (results \ {r}) \cup
                 {[r EXCEPT !.pc = IF IsLast(r, left) THEN "unlist" ELSE "write",
                            !.remaining = left]}
       ELSE Acked(r)
    /\ UNCHANGED <<product, listing, live, jobs, caller, bounds, history>>

StatusAfterMistyped(success) ==                                       \* fault
    IF success THEN product.status ELSE "removal_failed"
StatusAfter(success) == IF success THEN product.status ELSE "failed"

\* It writes what remains, computed from what was read.
WriteProduct(r) ==
    /\ r.pc = "write"
    /\ product' = IF product.status = "deleted" THEN product
                  ELSE [status |-> StatusAfter(r.success), pending |-> r.remaining]
    /\ Acked(r)
    /\ UNCHANGED <<listing, live, jobs, caller, bounds, history>>

\* Nothing remains: finalizeDeletion.
UnlistLast(r) ==
    /\ r.pc = "unlist"
    /\ listing' = [l \in Listings |-> Gone]
    /\ Moved(r, "erase")
    /\ UNCHANGED <<product, live, jobs, caller, bounds, history>>

EraseLast(r) ==
    /\ r.pc = "erase"
    /\ product' = [status |-> "deleted", pending |-> {}]
    /\ Acked(r)
    /\ UNCHANGED <<listing, live, jobs, caller, bounds, history>>

-----------------------------------------------------------------------------
\* The process dies: calls are lost, messages in hand are delivered again.
Crash ==
    /\ Fault
    /\ caller' = [p \in Callers |-> Quiet]
    /\ results' = {Queued(r) : r \in results}
    /\ UNCHANGED <<product, listing, live, jobs, requests, events, history>>

Admin(p) == \/ Request(p) \/ ReadListings(p) \/ Drop(p) \/ Register(p)
            \/ Unlist(p) \/ Erase(p)
Remove(p) == ReadListing(p) \/ ClaimListing(p) \/ Enqueue(p)
Handle(r) == Receive(r) \/ ReadProduct(r) \/ WriteProduct(r) \/ UnlistLast(r) \/ EraseLast(r)

Next ==
    \/ WorkerFinds \/ Bump \/ Crash
    \/ \E p \in Requesters : Admin(p)
    \/ \E p \in Callers : Remove(p) \/ NoToken(p) \/ RemovalFails(p)
    \/ \E l \in Listings : Condemn(l) \/ LockLapses(l) \/ Sync(l)
    \/ \E j \in jobs : Perform(j) \/ GiveUpJob(j)
    \/ \E r \in results : Handle(r)

Spec == Init /\ [][Next]_vars

-----------------------------------------------------------------------------
TypeOK ==
    /\ product \in [status : {"none", "pending", "failed", "deleted"}, pending : SUBSET Listings]
    /\ listing \in [Listings -> Listing]
    /\ live \subseteq Listings
    /\ jobs \subseteq Job
    /\ results \subseteq Result
    /\ caller \in [Callers -> Caller]
    /\ requests \in 0 .. MaxRequests
    /\ events \in 0 .. MaxDisturbances /\ faults \in 0 .. MaxDisturbances
    /\ created \subseteq Listings /\ excused \subseteq Listings

\* A product is erased only when none of its items is for sale any more: results of
\* earlier deletions, repeated removals and lists written back late never add up to
\* an early erasure.  A publication that was under way escapes it.
ErasedMeansClosed == product.status = "deleted" => live \subseteq created

\* A listing that its owner removed is taken for one that moderation removed, and so
\* may be published again, only if its lock was opened too early: the worker finds
\* manual removals as well as those of moderation, and only the lock turns it away.
ManualRemovalStaysManual ==
    \A l \in Listings : listing[l].status = "removed_by_moderation" => l \in excused
=============================================================================
