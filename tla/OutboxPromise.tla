--------------------------- MODULE OutboxPromise ---------------------------
(***************************************************************************)
(* What a work queue of the backend promises the rest of it, with no word  *)
(* about polling, claims or retries: a message that was accepted is owed   *)
(* to its receiver, and it is either sent, which can never be undone, or   *)
(* given up after repeated failures.  A worker that was slow may take up a *)
(* message another has given up.  The transactional outbox (src/src/outbox *)
(* with the broker as receiver) and the webhook inbox (src/src/webhook,    *)
(* the handlers) keep this promise.                                        *)
(***************************************************************************)
CONSTANT Msgs          \* the messages producers enqueue

VARIABLE state         \* what has become of each message

States == {"none", "owed", "sent", "given_up"}

Init == state = [m \in Msgs |-> "none"]

\* A producer's transaction commits with the message in it.
Accept(m) == /\ state[m] = "none"
             /\ state' = [state EXCEPT ![m] = "owed"]

\* The broker stores a first copy of the message.
Send(m) == /\ state[m] \in {"owed", "given_up"}
           /\ state' = [state EXCEPT ![m] = "sent"]

\* No further attempt will be made.
GiveUp(m) == /\ state[m] = "owed"
             /\ state' = [state EXCEPT ![m] = "given_up"]

\* A late relay, which counts on older data, schedules the message again.
Resume(m) == /\ state[m] = "given_up"
             /\ state' = [state EXCEPT ![m] = "owed"]

Next == \E m \in Msgs : Accept(m) \/ Send(m) \/ GiveUp(m) \/ Resume(m)

\* What is owed is settled in the end.
Settle(m) == state[m] = "owed" /\ (Send(m) \/ GiveUp(m))

SafeSpec == Init /\ [][Next]_state

Spec == SafeSpec /\ \A m \in Msgs : WF_state(Settle(m))

TypeOK == state \in [Msgs -> States]
=============================================================================
