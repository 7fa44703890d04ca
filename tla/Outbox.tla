------------------------------- MODULE Outbox -------------------------------
(***************************************************************************)
(* The transactional outbox: src/src/outbox.  Producers insert messages in *)
(* the transaction that changes their own data.  Every relay instance runs *)
(* drainOnce on a timer that does not wait for the previous call, so calls *)
(* overlap inside an instance and between instances; each claims a batch,  *)
(* publishes it to RabbitMQ through a confirm channel and records the      *)
(* outcome.  Only a claim filters on the status: the outcomes are written  *)
(* by _id, whoever holds the document by then.                             *)
(*                                                                         *)
(* An updateMany is one step here: its filter is evaluated per document    *)
(* and no step of a relay depends on two documents.  The TTL index that    *)
(* removes documents published a week ago is left out.                     *)
(*                                                                         *)
(* A definition marked "fault" is the one below it with a plausible bug;   *)
(* no action uses it.  The README tells which property each one breaks.    *)
(***************************************************************************)
EXTENDS Integers, FiniteSets

CONSTANTS
    Msgs,          \* outbox messages
    Relays,        \* instances of OutboxRelayService
    Calls,         \* drainOnce calls that may be in flight at a time
    RelayOf,       \* the instance a call runs in
    MaxAttempts,   \* maxAttempts of the schema (8)
    BatchSize,     \* BATCH_SIZE (20)
    RecoverEvery,  \* RECOVERY_EVERY_N (30)
    MaxFaults,     \* bound: crashes, failed database writes and stalled calls
    NoClaim        \* claimId is null, or no call in flight knows it

ASSUME RelayOfAssumption == RelayOf \in [Calls -> Relays]
ASSUME BoundsAssumption ==
    /\ {MaxAttempts, BatchSize, RecoverEvery} \subseteq Nat \ {0}
    /\ MaxFaults \in Nat
ASSUME NoClaimAssumption == NoClaim \notin Calls

VARIABLES
    doc,        \* the outbox_messages collection
    delivered,  \* messages of which the broker has stored a copy
    call,       \* per drainOnce call: its program counter and candidate ids
    work,       \* per call and message: where publishing that message stands
    seen,       \* per call and message: attempts as read by the claim
    cycle,      \* the field `cycle` of each instance (modulo RecoverEvery)
    faults,     \* crashes, failed writes and stalls so far
    recovered   \* history: messages taken back from a call by the recovery

vars == <<doc, delivered, call, work, seen, cycle, faults, recovered>>

\* No document yet; the other fields are the schema's defaults.
Absent == [status |-> "absent", attempts |-> 0, due |-> FALSE,
           claim |-> NoClaim, stale |-> FALSE]
Document == [status   : {"absent", "pending", "publishing", "published", "failed"},
             attempts : Nat,
             due      : BOOLEAN,              \* scheduledAt has passed
             claim    : Calls \cup {NoClaim},
             stale    : BOOLEAN]              \* publishing for too long
Idle == [pc |-> "idle", ids |-> {}]
CallState == [pc : {"idle", "recover", "find", "claim", "fetch", "publish"},
              ids : SUBSET Msgs]

Init ==
    /\ doc = [m \in Msgs |-> Absent]
    /\ delivered = {}
    /\ call = [c \in Calls |-> Idle]
    /\ work = [c \in Calls |-> [m \in Msgs |-> "none"]]
    /\ seen = [c \in Calls |-> [m \in Msgs |-> 0]]
    /\ cycle = [r \in Relays |-> 0]
    /\ faults = 0
    /\ recovered = {}

Fault == faults < MaxFaults /\ faults' = faults + 1

-----------------------------------------------------------------------------
(* The producer's side and the clock.                                      *)

\* enqueue, at the moment the caller's transaction commits.
Enqueue(m) ==
    /\ doc[m].status = "absent"
    /\ doc' = [doc EXCEPT ![m].status = "pending", ![m].due = TRUE]
    /\ UNCHANGED <<delivered, call, work, seen, cycle, faults, recovered>>

\* scheduledAt passes.
BecomeDue(m) ==
    /\ doc[m].status = "pending" /\ ~doc[m].due
    /\ doc' = [doc EXCEPT ![m].due = TRUE]
    /\ UNCHANGED <<delivered, call, work, seen, cycle, faults, recovered>>

\* A call is on its way to publish m, or to record what came of it.
Handling(c, m) ==
    \/ work[c][m] # "none"
    \/ doc[m].claim = c /\ call[c].pc = "fetch"

\* STALE_PUBLISHING_MS pass after the claim of a message nobody handles.
Age(m) ==
    /\ doc[m].status = "publishing" /\ ~doc[m].stale
    /\ \A c \in Calls : ~Handling(c, m)
    /\ doc' = [doc EXCEPT ![m].stale = TRUE]
    /\ UNCHANGED <<delivered, call, work, seen, cycle, faults, recovered>>

\* They pass while a call still waits for the broker or the database.
Stall(m) ==
    /\ Fault
    /\ doc[m].status = "publishing" /\ ~doc[m].stale
    /\ \E c \in Calls : Handling(c, m)
    /\ doc' = [doc EXCEPT ![m].stale = TRUE]
    /\ UNCHANGED <<delivered, call, work, seen, cycle, recovered>>

-----------------------------------------------------------------------------
(* One call of drainOnce.                                                  *)

NextCycleUnwrapped(n) == n + 1                         \* fault
NextCycle(n) == (n + 1) % RecoverEvery

\* The timer fires.
Start(c) ==
    LET r == RelayOf[c] IN
    /\ call[c].pc = "idle"
    /\ cycle' = [cycle EXCEPT ![r] = NextCycle(@)]
    /\ call' = [call EXCEPT ![c].pc = IF NextCycle(cycle[r]) = 0
                                      THEN "recover" ELSE "find"]
    /\ UNCHANGED <<doc, delivered, work, seen, faults, recovered>>

StalePublishingMissed == {}                             \* fault
StalePublishing == {m \in Msgs : doc[m].status = "publishing" /\ doc[m].stale}

\* recoverStalePublishing: whoever claimed the message, it is pending again.
Recover(c) ==
    /\ call[c].pc = "recover"
    /\ doc' = [m \in Msgs |->
                 IF m \in StalePublishing
                 THEN [doc[m] EXCEPT !.status = "pending", !.claim = NoClaim,
                                     !.stale = FALSE]
                 ELSE doc[m]]
    /\ recovered' = recovered \cup StalePublishing
    /\ call' = [call EXCEPT ![c].pc = "find"]
    /\ UNCHANGED <<delivered, work, seen, cycle, faults>>

Due == {m \in Msgs : doc[m].status = "pending" /\ doc[m].due}

\* The candidates of claimBatch: at most BatchSize of the messages that are due.
Find(c) ==
    /\ call[c].pc = "find"
    /\ \E ids \in SUBSET Due :
         /\ Cardinality(ids) <= BatchSize
         /\ ids = Due \/ Cardinality(ids) = BatchSize
         /\ call' = [call EXCEPT ![c] = IF ids = {} THEN Idle
                                        ELSE [pc |-> "claim", ids |-> ids]]
    /\ UNCHANGED <<doc, delivered, work, seen, cycle, faults, recovered>>

ClaimableAgain(m) == doc[m].status \in {"pending", "publishing"}   \* fault
Claimable(m) == doc[m].status = "pending"

\* The updateMany of claimBatch: another call may have claimed a candidate.
Claim(c) ==
    /\ call[c].pc = "claim"
    /\ doc' = [m \in Msgs |->
                 IF m \in call[c].ids /\ Claimable(m)
                 THEN [doc[m] EXCEPT !.status = "publishing", !.claim = c,
                                     !.stale = FALSE]
                 ELSE doc[m]]
    /\ call' = [call EXCEPT ![c] = [pc |-> "fetch", ids |-> {}]]
    /\ UNCHANGED <<delivered, work, seen, cycle, faults, recovered>>

Claimed(c) == {m \in Msgs : doc[m].claim = c /\ doc[m].status = "publishing"}

\* The second find of claimBatch, by claimId; every message found is published
\* concurrently from here on, with the attempts read now.
Fetch(c) ==
    /\ call[c].pc = "fetch"
    /\ work' = [work EXCEPT ![c] = [m \in Msgs |->
                  IF m \in Claimed(c) THEN "sending" ELSE "none"]]
    /\ seen' = [seen EXCEPT ![c] = [m \in Msgs |->
                  IF m \in Claimed(c) THEN doc[m].attempts ELSE 0]]
    /\ call' = [call EXCEPT ![c].pc = "publish"]
    /\ UNCHANGED <<doc, delivered, cycle, faults, recovered>>

\* The broker stores the message; its confirm may be lost on the way back.
BrokerStores(c, m) ==
    /\ work[c][m] = "sending"
    /\ delivered' = delivered \cup {m}
    /\ work' = [work EXCEPT ![c][m] = "stored"]
    /\ UNCHANGED <<doc, call, seen, cycle, faults, recovered>>

ConfirmableUnawaited(c, m) == work[c][m] \in {"sending", "stored"}  \* fault
Confirmable(c, m) == work[c][m] = "stored"

\* amqp.publish resolves.
Confirm(c, m) ==
    /\ Confirmable(c, m)
    /\ work' = [work EXCEPT ![c][m] = "confirmed"]
    /\ UNCHANGED <<doc, delivered, call, seen, cycle, faults, recovered>>

\* amqp.publish rejects, with or without a copy on the broker.
PublishFails(c, m) ==
    /\ work[c][m] \in {"sending", "stored"}
    /\ work' = [work EXCEPT ![c][m] = "error"]
    /\ UNCHANGED <<doc, delivered, call, seen, cycle, faults, recovered>>

\* The write of markPublished.
MarkPublished(c, m) ==
    /\ work[c][m] = "confirmed"
    /\ doc' = [doc EXCEPT ![m] = [@ EXCEPT !.status = "published", !.claim = NoClaim,
                                           !.stale = FALSE]]
    /\ work' = [work EXCEPT ![c][m] = "none"]
    /\ UNCHANGED <<delivered, call, seen, cycle, faults, recovered>>

\* markPublished throws: the catch block treats it as a failed publish.
MarkPublishedFails(c, m) ==
    /\ Fault
    /\ work[c][m] = "confirmed"
    /\ work' = [work EXCEPT ![c][m] = "error"]
    /\ UNCHANGED <<doc, delivered, call, seen, cycle, recovered>>

LastAttemptEarly(attempts) == attempts + 2 >= MaxAttempts           \* fault
LastAttempt(attempts) == attempts + 1 >= MaxAttempts

\* The document after markFailedOrReschedule: the decision uses the attempts read
\* by the claim, the counter in the document is incremented.
Rescheduled(d, attempts) ==
    IF LastAttempt(attempts)
    THEN [d EXCEPT !.status = "failed", !.claim = NoClaim, !.stale = FALSE,
                   !.attempts = d.attempts + 1]
    ELSE [d EXCEPT !.status = "pending", !.claim = NoClaim, !.stale = FALSE,
                   !.attempts = d.attempts + 1, !.due = FALSE]

Reschedule(c, m) ==
    /\ work[c][m] = "error"
    /\ doc' = [doc EXCEPT ![m] = Rescheduled(doc[m], seen[c][m])]
    /\ work' = [work EXCEPT ![c][m] = "none"]
    /\ UNCHANGED <<delivered, call, seen, cycle, faults, recovered>>

\* markFailedOrReschedule throws inside the catch block: Promise.all rejects
\* and the document stays as it is until it is stale.
RescheduleFails(c, m) ==
    /\ Fault
    /\ work[c][m] = "error"
    /\ work' = [work EXCEPT ![c][m] = "none"]
    /\ UNCHANGED <<doc, delivered, call, seen, cycle, recovered>>

\* The claimId of a call that is over is known to no one.
Forget(calls) ==
    [m \in Msgs |-> IF doc[m].claim \in calls
                    THEN [doc[m] EXCEPT !.claim = NoClaim] ELSE doc[m]]

\* drainOnce returns.
Finish(c) ==
    /\ call[c].pc = "publish"
    /\ \A m \in Msgs : work[c][m] = "none"
    /\ call' = [call EXCEPT ![c] = Idle]
    /\ doc' = Forget({c})
    /\ seen' = [seen EXCEPT ![c] = [m \in Msgs |-> 0]]
    /\ UNCHANGED <<delivered, work, cycle, faults, recovered>>

\* The process of instance r dies and starts again.
Crash(r) ==
    LET dead == {c \in Calls : RelayOf[c] = r} IN
    /\ Fault
    /\ call' = [c \in Calls |-> IF c \in dead THEN Idle ELSE call[c]]
    /\ work' = [c \in Calls |-> IF c \in dead THEN [m \in Msgs |-> "none"]
                                              ELSE work[c]]
    /\ seen' = [c \in Calls |-> IF c \in dead THEN [m \in Msgs |-> 0] ELSE seen[c]]
    /\ doc' = Forget(dead)
    /\ cycle' = [cycle EXCEPT ![r] = 0]
    /\ UNCHANGED <<delivered, recovered>>

-----------------------------------------------------------------------------
Outcome(c, m) ==
    \/ BrokerStores(c, m) \/ Confirm(c, m) \/ PublishFails(c, m)
    \/ MarkPublished(c, m) \/ Reschedule(c, m)

Step(c) == Start(c) \/ Recover(c) \/ Find(c) \/ Claim(c) \/ Fetch(c) \/ Finish(c)

Next ==
    \/ \E m \in Msgs : Enqueue(m) \/ BecomeDue(m) \/ Age(m) \/ Stall(m)
    \/ \E c \in Calls : Step(c)
    \/ \E c \in Calls, m \in Msgs :
         Outcome(c, m) \/ MarkPublishedFails(c, m) \/ RescheduleFails(c, m)
    \/ \E r \in Relays : Crash(r)

\* The timer keeps firing, an awaited call settles, and time passes.  Nothing
\* is assumed of the producers, of what the broker answers or of faults.
Fairness ==
    /\ \A m \in Msgs : WF_vars(BecomeDue(m)) /\ WF_vars(Age(m))
    /\ \A c \in Calls : WF_vars(Step(c))
    /\ \A c \in Calls, m \in Msgs : WF_vars(Outcome(c, m))

Spec == Init /\ [][Next]_vars
FairSpec == Spec /\ Fairness

-----------------------------------------------------------------------------
TypeOK ==
    /\ doc \in [Msgs -> Document]
    /\ delivered \subseteq Msgs
    /\ call \in [Calls -> CallState]
    /\ work \in [Calls -> [Msgs -> {"none", "sending", "stored", "confirmed", "error"}]]
    /\ seen \in [Calls -> [Msgs -> Nat]]
    /\ cycle \in [Relays -> 0 .. RecoverEvery - 1]
    /\ faults \in Nat
    /\ recovered \subseteq Msgs

\* A document that says published is on the broker, whatever overlaps, fails or
\* is recovered in between (drainOnce marks only after the awaited confirm).
PublishedMeansDelivered ==
    \A m \in Msgs : doc[m].status = "published" => m \in delivered

\* A message is given up only after MaxAttempts failures were counted on it,
\* although the decision uses a counter read before other calls moved it.
GivesUpOnlyAfterMaxAttempts ==
    \A m \in Msgs : doc[m].status = "failed" => doc[m].attempts >= MaxAttempts

\* Two calls handle one message at a time only if the stale recovery took it
\* from a call that was slow (claimBatch's filtered update hands it out once).
ExclusiveWork ==
    \A m \in Msgs : \A c, d \in Calls :
        c # d /\ work[c][m] # "none" /\ work[d][m] # "none" => m \in recovered

\* A message that is waiting is published or given up in the end, even when the
\* relay that claimed it dies or cannot record the outcome.
EveryMessageSettles ==
    \A m \in Msgs : doc[m].status = "pending" ~> doc[m].status \in {"published", "failed"}

\* The outbox keeps its promise: what happened to a message, seen from outside.
stateBar == [m \in Msgs |->
    CASE doc[m].status = "absent"                       -> "none"
      [] doc[m].status # "absent" /\ m \in delivered    -> "sent"
      [] doc[m].status = "failed" /\ m \notin delivered -> "given_up"
      [] OTHER                                          -> "owed"]
Promise == INSTANCE OutboxPromise WITH state <- stateBar
KeepsPromise == Promise!Spec
=============================================================================
