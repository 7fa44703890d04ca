---------------------------- MODULE WebhookInbox ----------------------------
(***************************************************************************)
(* Marketplace webhooks: src/src/webhook.  The ingress parses a            *)
(* notification and stores it in the collection webhook_inbox under an     *)
(* eventId made of the marketplace, the topic and the resource; only then  *)
(* it is acknowledged.  Every backend instance runs processPending on a    *)
(* timer: it finds the entries that are due or whose lease has ended,      *)
(* claims one at a time, dispatches it and records the outcome.  Claims    *)
(* look at the status and the lease; outcomes are written by _id, whoever  *)
(* holds the entry by then.                                                *)
(*                                                                         *)
(* To dispatch is to emit a command in the process.  The listeners of      *)
(* orders, packs, shipments, questions and returns are registered with     *)
(* {async: true}: the emitter starts them later, detached, and drops their *)
(* errors, so that emitAsync returns at once and never rejects.  The entry *)
(* is marked done beside its handler, and the catch block of the worker    *)
(* sees nothing but a failed write of "done".                              *)
(*                                                                         *)
(* An event is here the eventId, and a notification carries no more than   *)
(* that.  Signatures, kinds that are ignored, and the two kinds whose      *)
(* listener is awaited (moderation, listing status) are left out.          *)
(* A definition marked "fault" is the one below it with a plausible bug.   *)
(***************************************************************************)
EXTENDS Integers, FiniteSets

CONSTANTS
    Events,       \* eventIds
    Malformed,    \* those whose payload does not parse, or names no resource
    Workers,      \* instances of WebhookInboxWorker
    MaxAttempts,  \* maxAttempts (8)
    BatchSize,    \* WEBHOOK_INBOX_BATCH_SIZE (50)
    MaxChanges,   \* bound: changes of a resource at the marketplace
    MaxFaults     \* bound: crashes, failed database writes and overrun leases

ASSUME EventsAssumption == Malformed \subseteq Events
ASSUME BoundsAssumption ==
    /\ {MaxAttempts, BatchSize, MaxChanges} \subseteq Nat \ {0}
    /\ MaxFaults \in Nat

VARIABLES
    changes,     \* changes of each resource, each of which is notified
    fetched,     \* the last change of it that a handler has fetched
    wire,        \* notifications that are not acknowledged yet
    inbox,       \* the collection webhook_inbox
    run,         \* processPending in each instance
    handlers,    \* executions of each event's handler under way in each instance
    faults,      \* faults so far
    failed,      \* history: events an execution of whose handler has thrown
    dispatches,  \* history: commands emitted for each event
    failures,    \* history: rounds of each event that ended in the catch block
    losses,      \* history: rounds of it cut off by a crash or the end of the lease
    overrun      \* history: events whose lease ended under a worker

external == <<changes, fetched, wire>>
rounds == <<dispatches, failures, losses, overrun>>
vars == <<external, inbox, run, handlers, faults, failed, rounds>>

Absent == [status |-> "absent", attempts |-> 0, due |-> FALSE, lapsed |-> FALSE]
Entry == [status   : {"absent", "pending", "processing", "done", "dead"},
          attempts : Nat,
          due      : BOOLEAN,        \* nextRetryAt has passed
          lapsed   : BOOLEAN]        \* leaseUntil has passed
Idle == [pc |-> "idle", todo |-> {}, known |-> {}, on |-> {}, attempts |-> 0]
Run == [pc       : {"idle", "claim", "dispatch", "mark", "error"},
        todo     : SUBSET Events,    \* candidates not taken up yet
        known    : SUBSET Events,    \* those with leaseUntil <= now, the `now` of the run
        on       : SUBSET Events,    \* the entry being processed, if any
        attempts : Nat]              \* its attempts, as claimed

Init ==
    /\ changes = [e \in Events |-> 0]
    /\ fetched = [e \in Events |-> 0]
    /\ wire = {}
    /\ inbox = [e \in Events |-> Absent]
    /\ run = [w \in Workers |-> Idle]
    /\ handlers = [w \in Workers |-> [e \in Events |-> 0]]
    /\ faults = 0
    /\ dispatches = [e \in Events |-> 0]
    /\ failures = [e \in Events |-> 0] /\ losses = [e \in Events |-> 0]
    /\ failed = {} /\ overrun = {}

Fault == faults < MaxFaults /\ faults' = faults + 1

-----------------------------------------------------------------------------
(* The marketplace, the ingress and the clock.                             *)

\* The resource changes, and the marketplace notifies it.
Change(e) ==
    /\ e \notin Malformed
    /\ changes[e] < MaxChanges
    /\ changes' = [changes EXCEPT ![e] = @ + 1]
    /\ wire' = wire \cup {e}
    /\ UNCHANGED <<fetched, inbox, run, handlers, faults, failed, rounds>>

AppendedAgain(e) == [Absent EXCEPT !.status = "pending", !.due = TRUE]   \* fault
\* append and appendDead: an eventId that is known keeps its document.
Appended(e) ==
    IF inbox[e].status # "absent" THEN inbox[e]
    ELSE IF e \in Malformed THEN [Absent EXCEPT !.status = "dead"]
    ELSE [Absent EXCEPT !.status = "pending", !.due = TRUE]

\* ingest: a notification is acknowledged once it is stored.  The marketplace may
\* deliver one that it has sent at any time again.
Ingest(e) ==
    /\ changes[e] > 0 \/ e \in Malformed
    /\ inbox' = [inbox EXCEPT ![e] = Appended(e)]
    /\ wire' = wire \ {e}
    /\ UNCHANGED <<changes, fetched, run, handlers, faults, failed, rounds>>

\* The backoff of a failed entry is over.
BecomeDue(e) ==
    /\ inbox[e].status = "pending" /\ ~inbox[e].due
    /\ inbox' = [inbox EXCEPT ![e].due = TRUE]
    /\ UNCHANGED <<external, run, handlers, faults, failed, rounds>>

Held(e) == \E w \in Workers : e \in run[w].on

\* The lease of an entry that no worker is processing any more ends.
Lapse(e) ==
    /\ inbox[e].status = "processing" /\ ~inbox[e].lapsed
    /\ ~Held(e)
    /\ inbox' = [inbox EXCEPT ![e].lapsed = TRUE]
    /\ UNCHANGED <<external, run, handlers, faults, failed, rounds>>

\* It ends while a worker still waits for the database: nothing renews it.
Overrun(e) ==
    /\ Fault
    /\ inbox[e].status = "processing" /\ ~inbox[e].lapsed
    /\ Held(e)
    /\ inbox' = [inbox EXCEPT ![e].lapsed = TRUE]
    /\ overrun' = overrun \cup {e}
    /\ losses' = [losses EXCEPT ![e] = @ + 1]
    /\ UNCHANGED <<external, run, handlers, failed, dispatches, failures>>

-----------------------------------------------------------------------------
(* processPending in instance w.                                           *)

LapsedOrNot == {e \in Events : inbox[e].status = "processing"}         \* fault
Lapsed == {e \in Events : inbox[e].status = "processing" /\ inbox[e].lapsed}
NeverReaped == {}                                                     \* fault
Reaped == Lapsed
Candidates == {e \in Events : inbox[e].status = "pending" /\ inbox[e].due} \cup Reaped

\* The find, at most BatchSize candidates.
Find(w) ==
    /\ run[w].pc = "idle"
    /\ \E todo \in SUBSET Candidates \ {{}} :
         /\ Cardinality(todo) <= BatchSize
         /\ todo = Candidates \/ Cardinality(todo) = BatchSize
         /\ run' = [run EXCEPT ![w] = [Idle EXCEPT !.pc = "claim", !.todo = todo,
                                                   !.known = Lapsed]]
    /\ UNCHANGED <<external, inbox, handlers, faults, failed, rounds>>

\* What is left of the run once e is dealt with.
Rest(w, e) == LET todo == run[w].todo \ {e} IN
    IF todo = {} THEN Idle
    ELSE [Idle EXCEPT !.pc = "claim", !.todo = todo, !.known = run[w].known \ {e}]

ClaimableTwice(w, e) == inbox[e].status \in {"pending", "processing"}  \* fault
\* The filter of the claim: a lease counts as ended if it had when the run began.
Claimable(w, e) ==
    \/ inbox[e].status = "pending"
    \/ inbox[e].status = "processing" /\ e \in run[w].known

\* The findOneAndUpdate of one candidate.  Its new lease ends after the `now` of
\* every run in progress.
Claim(w) ==
    /\ run[w].pc = "claim"
    /\ \E e \in run[w].todo :
         /\ Claimable(w, e)
         /\ inbox' = [inbox EXCEPT ![e] = [@ EXCEPT !.status = "processing",
                                                    !.lapsed = FALSE]]
         /\ run' = [v \in Workers |->
              IF v = w THEN [run[w] EXCEPT !.pc = "dispatch", !.on = {e},
                                           !.attempts = inbox[e].attempts]
              ELSE [run[v] EXCEPT !.known = @ \ {e}]]
    /\ UNCHANGED <<external, handlers, faults, failed, rounds>>

\* Another instance has taken the candidate.
ClaimLost(w) ==
    /\ run[w].pc = "claim"
    /\ \E e \in run[w].todo :
         /\ ~Claimable(w, e)
         /\ run' = [run EXCEPT ![w] = Rest(w, e)]
    /\ UNCHANGED <<external, inbox, handlers, faults, failed, rounds>>

\* dispatch: the command is emitted, which starts a handler and waits for nothing.
Dispatch(w) ==
    /\ run[w].pc = "dispatch"
    /\ \E e \in run[w].on :
         /\ handlers' = [handlers EXCEPT ![w][e] = @ + 1]
         /\ dispatches' = [dispatches EXCEPT ![e] = @ + 1]
    /\ run' = [run EXCEPT ![w].pc = "mark"]
    /\ UNCHANGED <<external, inbox, faults, failed, failures, losses, overrun>>

\* The write of the status "done".
MarkDone(w) ==
    /\ run[w].pc = "mark"
    /\ \E e \in run[w].on :
         /\ inbox' = [inbox EXCEPT ![e] = [@ EXCEPT !.status = "done", !.lapsed = FALSE]]
         /\ run' = [run EXCEPT ![w] = Rest(w, e)]
    /\ UNCHANGED <<external, handlers, faults, failed, rounds>>

\* It throws inside the try block, the one thing there that can: the round counts as
\* failed, although the command is out.
MarkDoneFails(w) ==
    /\ Fault
    /\ run[w].pc = "mark"
    /\ \E e \in run[w].on : failures' = [failures EXCEPT ![e] = @ + 1]
    /\ run' = [run EXCEPT ![w].pc = "error"]
    /\ UNCHANGED <<external, inbox, handlers, failed, dispatches, losses, overrun>>

LastAttemptEarly(attempts) == attempts + 2 >= MaxAttempts             \* fault
LastAttempt(attempts) == attempts + 1 >= MaxAttempts

StatusAfterFailed(attempts) == IF LastAttempt(attempts) THEN "dead" ELSE "failed"   \* fault
StatusAfter(attempts) == IF LastAttempt(attempts) THEN "dead" ELSE "pending"

\* The catch block: attempts is the claimed one plus one, whatever the entry says.
Retry(w) ==
    /\ run[w].pc = "error"
    /\ \E e \in run[w].on :
         /\ inbox' = [inbox EXCEPT ![e] =
              [status |-> StatusAfter(run[w].attempts), attempts |-> run[w].attempts + 1,
               due |-> FALSE, lapsed |-> FALSE]]
         /\ run' = [run EXCEPT ![w] = Rest(w, e)]
    /\ UNCHANGED <<external, handlers, faults, failed, rounds>>

\* It throws too: the run is over, and the entry waits for its lease to end.
RetryFails(w) ==
    /\ Fault
    /\ run[w].pc = "error"
    /\ run' = [run EXCEPT ![w] = Idle]
    /\ UNCHANGED <<external, inbox, handlers, failed, rounds>>

Busy(w) == run[w].pc # "idle" \/ \E e \in Events : handlers[w][e] > 0

\* The instance dies, and its handlers with it.
Crash(w) ==
    /\ Fault
    /\ Busy(w)
    /\ run' = [run EXCEPT ![w] = Idle]
    /\ handlers' = [handlers EXCEPT ![w] = [e \in Events |-> 0]]
    /\ losses' = [e \in Events |-> IF e \in run[w].on THEN losses[e] + 1 ELSE losses[e]]
    /\ UNCHANGED <<external, inbox, failed, dispatches, failures, overrun>>

-----------------------------------------------------------------------------
(* The handlers: OrderIngestListener for orders, packs and shipments.      *)

\* An execution in instance w ends.
Ends(w, e) ==
    /\ handlers[w][e] > 0
    /\ handlers' = [handlers EXCEPT ![w][e] = @ - 1]
    /\ UNCHANGED <<changes, wire, inbox, run, faults, rounds>>

\* It has fetched the resource as it is now, and ingested it.
HandlerFetches(w, e) ==
    /\ Ends(w, e)
    /\ fetched' = [fetched EXCEPT ![e] = changes[e]]
    /\ UNCHANGED failed

\* It returns: the marketplace or the account is not known, or the API call that
\* finds the order of a shipment or the orders of a pack has failed.
HandlerDeclines(w, e) == Ends(w, e) /\ UNCHANGED <<fetched, failed>>

\* It throws, before or after it has done its work.
HandlerFails(w, e) ==
    /\ Ends(w, e)
    /\ fetched' \in {fetched, [fetched EXCEPT ![e] = changes[e]]}
    /\ failed' = failed \cup {e}

Handler(w, e) == HandlerFetches(w, e) \/ HandlerDeclines(w, e) \/ HandlerFails(w, e)

-----------------------------------------------------------------------------
Step(w) == \/ Find(w) \/ Claim(w) \/ ClaimLost(w) \/ Dispatch(w)
           \/ MarkDone(w) \/ Retry(w)

Next ==
    \/ \E e \in Events : \/ Change(e) \/ Ingest(e) \/ BecomeDue(e)
                         \/ Lapse(e) \/ Overrun(e)
    \/ \E w \in Workers : Step(w) \/ MarkDoneFails(w) \/ RetryFails(w) \/ Crash(w)
    \/ \E w \in Workers, e \in Events : Handler(w, e)

\* Marketplaces deliver until they are acknowledged, the timers keep firing, an
\* awaited write settles and time passes.  Nothing is assumed of the handlers.
Fairness ==
    /\ \A e \in Events : WF_vars(Ingest(e)) /\ WF_vars(BecomeDue(e)) /\ WF_vars(Lapse(e))
    /\ \A w \in Workers : WF_vars(Step(w))

Spec == Init /\ [][Next]_vars
FairSpec == Spec /\ Fairness

-----------------------------------------------------------------------------
TypeOK ==
    /\ changes \in [Events -> 0 .. MaxChanges]
    /\ fetched \in [Events -> 0 .. MaxChanges]
    /\ wire \subseteq Events
    /\ inbox \in [Events -> Entry]
    /\ run \in [Workers -> Run]
    /\ handlers \in [Workers -> [Events -> Nat]]
    /\ faults \in 0 .. MaxFaults
    /\ dispatches \in [Events -> Nat]
    /\ failures \in [Events -> Nat] /\ losses \in [Events -> Nat]
    /\ failed \subseteq Events /\ overrun \subseteq Events

\* A handler is started a second time only for a reason: every dispatch of a webhook
\* but one is paid for by a round of it that failed, died or outlived its lease.
\* Redeliveries, the batches of several instances and their claims add none.
DispatchedAgainForAReason ==
    \A e \in Events : dispatches[e] <= 1 + failures[e] + losses[e]

\* A webhook is given up only after MaxAttempts rounds of it have ended in the catch
\* block, although a worker that was slow counts on the attempts it claimed.
GivesUpAfterMaxAttempts ==
    \A e \in Events \ Malformed : inbox[e].status = "dead" => failures[e] >= MaxAttempts

\* Two instances hold one entry at a time only if its lease ended under the first
\* (the claim hands an entry out once).  Of the entry, not of the detached handlers.
ExclusiveUnlessOverrun ==
    \A v, w \in Workers : v # w => run[v].on \cap run[w].on \subseteq overrun

\* A webhook that is done is never taken up again: what can undo it is a worker
\* whose lease ended under it, and nothing else, redeliveries included.
DoneIsFinal ==
    [][\A e \in Events : inbox[e].status = "done" /\ e \notin overrun =>
                           inbox'[e].status = "done"]_vars

\* The inbox keeps the promise of an at-least-once queue towards the emitter: a
\* notification that was acknowledged is owed, and its command is emitted or it is
\* given up on, wherever a worker dies.  One that is malformed is not accepted.
\* What becomes of the command is the two properties below.
Emitted(e) == dispatches[e] > 0
Fate(e) ==
    CASE Emitted(e) -> "sent"
      [] ~Emitted(e) /\ (inbox[e].status = "absent" \/ e \in Malformed) -> "none"
      [] ~Emitted(e) /\ inbox[e].status = "dead" /\ e \notin Malformed -> "given_up"
      [] OTHER -> "owed"
stateBar == [e \in Events |-> Fate(e)]
Promise == INSTANCE OutboxPromise WITH Msgs <- Events, state <- stateBar
KeepsPromise == Promise!Spec

Unattended(e) == \A w \in Workers : handlers[w][e] = 0

\* The design of the ingress (2026-06-06-webhook-ingress-layer-design.md:78, 251):
\* whatever may fail for a while happens in the worker, with retries.  So an entry
\* whose handler has failed is not done before a handler has fetched the resource.
FailedHandlersAreRetried ==
    \A e \in Events : inbox[e].status = "done" /\ Unattended(e) /\ e \in failed =>
                       fetched[e] > 0

\* The comment on the topic "shipments" (mercadolivre.adapter.ts): without its
\* notifications the shipping status would stay frozen at the last sync.  So, when
\* every notification is acknowledged, and every entry is done and its handler has
\* fetched, what was fetched is what the marketplace has.
NotifiedChangesAreFetched ==
    /\ wire = {}
    /\ \A e \in Events : inbox[e].status = "done" /\ Unattended(e) /\ fetched[e] > 0
    => fetched = changes
=============================================================================
