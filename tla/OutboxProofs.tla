---------------------------- MODULE OutboxProofs ----------------------------
(***************************************************************************)
(* For every number of messages, instances and overlapping calls, and for  *)
(* every bound: the safety properties of Outbox, and that it implements    *)
(* the safety part of OutboxPromise.                                       *)
(***************************************************************************)
EXTENDS Outbox, TLAPS

\* Work on a message, and a copy of it on the broker, presuppose its document;
\* a call past the confirm has its copy on the broker.
Accounted ==
    /\ \A m \in Msgs : m \in delivered => doc[m].status # "absent"
    /\ \A c \in Calls, m \in Msgs :
         /\ work[c][m] # "none" => doc[m].status # "absent"
         /\ work[c][m] \in {"stored", "confirmed"} => m \in delivered

\* Unless the recovery interfered, who works on a message holds its claim.
Owned ==
    \A c \in Calls, m \in Msgs :
        work[c][m] # "none" /\ m \notin recovered =>
            doc[m].status = "publishing" /\ doc[m].claim = c

\* The counter a call read is at most the counter in the document.
SeenBehind ==
    \A c \in Calls, m \in Msgs : seen[c][m] <= doc[m].attempts

Inv == /\ TypeOK /\ Accounted /\ Owned /\ SeenBehind
       /\ PublishedMeansDelivered /\ GivesUpOnlyAfterMaxAttempts

-----------------------------------------------------------------------------
(* Every initial state has the right types.                                *)
LEMMA InitType == Init => TypeOK
  BY RelayOfAssumption, BoundsAssumption
  DEF Init, TypeOK, Document, CallState, Absent, Idle

(* The counter of an instance stays below RecoverEvery.                    *)
LEMMA CycleWraps ==
  ASSUME NEW n \in 0 .. RecoverEvery - 1
  PROVE  NextCycle(n) \in 0 .. RecoverEvery - 1
  BY BoundsAssumption DEF NextCycle

(* Forgetting claims keeps the types of the documents.                     *)
LEMMA ForgetType ==
  ASSUME doc \in [Msgs -> Document], NEW dead
  PROVE  Forget(dead) \in [Msgs -> Document]
  BY DEF Forget, Document

(* A document stays well formed and its counter grows when it is           *)
(* rescheduled; it is given up only with the last attempt.                 *)
LEMMA RescheduledType ==
  ASSUME NEW d \in Document, NEW attempts \in Nat
  PROVE  /\ Rescheduled(d, attempts) \in Document
         /\ Rescheduled(d, attempts).attempts = d.attempts + 1
         /\ Rescheduled(d, attempts).status \in {"failed", "pending"}
         /\ Rescheduled(d, attempts).status = "failed" => attempts + 1 >= MaxAttempts
<1> PICK n \in Nat : n = d.attempts + 1
  BY DEF Document
<1>1. CASE LastAttempt(attempts)
  <2>1. attempts + 1 >= MaxAttempts
    BY <1>1 DEF LastAttempt
  <2>2. Rescheduled(d, attempts) =
          [d EXCEPT !.status = "failed", !.claim = NoClaim, !.stale = FALSE,
                    !.attempts = n]
    BY <1>1 DEF Rescheduled
  <2> QED BY <2>1, <2>2 DEF Document
<1>2. CASE ~LastAttempt(attempts)
  <2>1. Rescheduled(d, attempts) =
          [d EXCEPT !.status = "pending", !.claim = NoClaim, !.stale = FALSE,
                    !.attempts = n, !.due = FALSE]
    BY <1>2 DEF Rescheduled
  <2> QED BY <2>1 DEF Document
<1> QED BY <1>1, <1>2

(* Every step keeps the types.                                             *)
LEMMA NextType == TypeOK /\ [Next]_vars => TypeOK'
<1> SUFFICES ASSUME TypeOK, [Next]_vars PROVE TypeOK'
  OBVIOUS
<1>1. ASSUME NEW m \in Msgs, Enqueue(m) PROVE TypeOK'
  <2>1. doc' \in [Msgs -> Document]
    BY ZenonT(60), <1>1 DEF TypeOK, Enqueue, Document
  <2> QED BY <1>1, <2>1 DEF TypeOK, Enqueue
<1>2. ASSUME NEW m \in Msgs, BecomeDue(m) PROVE TypeOK'
  <2>1. doc' \in [Msgs -> Document]
    BY ZenonT(60), <1>2 DEF TypeOK, BecomeDue, Document
  <2> QED BY <1>2, <2>1 DEF TypeOK, BecomeDue
<1>3. ASSUME NEW m \in Msgs, Age(m) PROVE TypeOK'
  <2>1. doc' \in [Msgs -> Document]
    BY ZenonT(60), <1>3 DEF TypeOK, Age, Document
  <2> QED BY <1>3, <2>1 DEF TypeOK, Age
<1>4. ASSUME NEW m \in Msgs, Stall(m) PROVE TypeOK'
  <2>1. doc' \in [Msgs -> Document]
    BY ZenonT(60), <1>4 DEF TypeOK, Stall, Document
  <2>2. faults' \in Nat
    BY <1>4 DEF TypeOK, Stall, Fault
  <2> QED BY <1>4, <2>1, <2>2 DEF TypeOK, Stall
<1>5. ASSUME NEW c \in Calls, Start(c) PROVE TypeOK'
  <2>1. cycle' \in [Relays -> 0 .. RecoverEvery - 1]
    BY <1>5, CycleWraps, RelayOfAssumption DEF TypeOK, Start
  <2>2. call' \in [Calls -> CallState]
    BY ZenonT(60), <1>5 DEF TypeOK, Start, CallState
  <2> QED BY <1>5, <2>1, <2>2 DEF TypeOK, Start
<1>6. ASSUME NEW c \in Calls, Recover(c) PROVE TypeOK'
  <2>1. doc' \in [Msgs -> Document]
    BY ZenonT(60), <1>6 DEF TypeOK, Recover, Document
  <2>2. call' \in [Calls -> CallState]
    BY ZenonT(60), <1>6 DEF TypeOK, Recover, CallState
  <2> QED BY <1>6, <2>1, <2>2 DEF TypeOK, Recover, StalePublishing
<1>7. ASSUME NEW c \in Calls, Find(c) PROVE TypeOK'
  <2>1. call' \in [Calls -> CallState]
    BY <1>7 DEF TypeOK, Find, Due, CallState, Idle
  <2> QED BY <1>7, <2>1 DEF TypeOK, Find
<1>8. ASSUME NEW c \in Calls, Claim(c) PROVE TypeOK'
  <2>1. doc' \in [Msgs -> Document]
    BY ZenonT(60), <1>8 DEF TypeOK, Claim, Document
  <2>2. call' \in [Calls -> CallState]
    BY <1>8 DEF TypeOK, Claim, CallState
  <2> QED BY <1>8, <2>1, <2>2 DEF TypeOK, Claim
<1>9. ASSUME NEW c \in Calls, Fetch(c) PROVE TypeOK'
  <2>1. work' \in [Calls -> [Msgs -> {"none", "sending", "stored", "confirmed", "error"}]]
    BY <1>9 DEF TypeOK, Fetch
  <2>2. seen' \in [Calls -> [Msgs -> Nat]]
    BY <1>9 DEF TypeOK, Fetch, Document
  <2>3. call' \in [Calls -> CallState]
    BY ZenonT(60), <1>9 DEF TypeOK, Fetch, CallState
  <2> QED BY <1>9, <2>1, <2>2, <2>3 DEF TypeOK, Fetch
<1>10. ASSUME NEW c \in Calls, Finish(c) PROVE TypeOK'
  <2>1. doc' \in [Msgs -> Document]
    BY <1>10, ForgetType DEF TypeOK, Finish
  <2>2. call' \in [Calls -> CallState] /\ seen' \in [Calls -> [Msgs -> Nat]]
    BY <1>10 DEF TypeOK, Finish, CallState, Idle
  <2> QED BY <1>10, <2>1, <2>2 DEF TypeOK, Finish
<1>11. ASSUME NEW c \in Calls, NEW m \in Msgs,
              BrokerStores(c, m) \/ Confirm(c, m) \/ PublishFails(c, m)
       PROVE TypeOK'
  <2>1. CASE BrokerStores(c, m)
    BY <2>1 DEF TypeOK, BrokerStores
  <2>2. CASE Confirm(c, m)
    BY <2>2 DEF TypeOK, Confirm
  <2>3. CASE PublishFails(c, m)
    BY <2>3 DEF TypeOK, PublishFails
  <2> QED BY <1>11, <2>1, <2>2, <2>3
<1>12. ASSUME NEW c \in Calls, NEW m \in Msgs, MarkPublished(c, m) PROVE TypeOK'
  <2>1. doc' \in [Msgs -> Document]
    BY ZenonT(60), <1>12 DEF TypeOK, MarkPublished, Document
  <2> QED BY <1>12, <2>1 DEF TypeOK, MarkPublished
<1>13. ASSUME NEW c \in Calls, NEW m \in Msgs, Reschedule(c, m) PROVE TypeOK'
  <2>1. doc[m] \in Document /\ seen[c][m] \in Nat
    BY DEF TypeOK
  <2>2. doc' \in [Msgs -> Document]
    BY <1>13, <2>1, RescheduledType DEF TypeOK, Reschedule
  <2> QED BY <1>13, <2>2 DEF TypeOK, Reschedule
<1>14. ASSUME NEW c \in Calls, NEW m \in Msgs,
              MarkPublishedFails(c, m) \/ RescheduleFails(c, m)
       PROVE TypeOK'
  <2>1. CASE MarkPublishedFails(c, m)
    <3>1. faults' \in Nat
      BY <2>1 DEF TypeOK, MarkPublishedFails, Fault
    <3> QED BY <2>1, <3>1 DEF TypeOK, MarkPublishedFails
  <2>2. CASE RescheduleFails(c, m)
    <3>1. faults' \in Nat
      BY <2>2 DEF TypeOK, RescheduleFails, Fault
    <3> QED BY <2>2, <3>1 DEF TypeOK, RescheduleFails
  <2> QED BY <1>14, <2>1, <2>2
<1>15. ASSUME NEW r \in Relays, Crash(r) PROVE TypeOK'
  <2>1. doc' \in [Msgs -> Document]
    BY <1>15, ForgetType DEF TypeOK, Crash
  <2>2. faults' \in Nat
    BY <1>15 DEF TypeOK, Crash, Fault
  <2>3. cycle' \in [Relays -> 0 .. RecoverEvery - 1]
    BY <1>15, BoundsAssumption DEF TypeOK, Crash
  <2>4. call' \in [Calls -> CallState]
    BY <1>15 DEF TypeOK, Crash, CallState, Idle
  <2> QED BY <1>15, <2>1, <2>2, <2>3, <2>4 DEF TypeOK, Crash
<1>16. CASE UNCHANGED vars
  BY <1>16 DEF TypeOK, vars
<1> QED
  BY <1>1, <1>2, <1>3, <1>4, <1>5, <1>6, <1>7, <1>8, <1>9, <1>10, <1>11,
     <1>12, <1>13, <1>14, <1>15, <1>16 DEF Next, Step, Outcome

(* Outbox!TypeOK holds in every reachable state, for every constant.       *)
THEOREM TypeCorrect == Spec => []TypeOK
<1>1. Init => TypeOK
  BY InitType
<1>2. TypeOK /\ [Next]_vars => TypeOK'
  BY NextType
<1> QED
  BY <1>1, <1>2, PTL DEF Spec

-----------------------------------------------------------------------------
(* What a step of the clock leaves alone.                                  *)
LEMMA ClockFrame ==
  ASSUME TypeOK, NEW m \in Msgs, BecomeDue(m) \/ Age(m) \/ Stall(m)
  PROVE  /\ \A n \in Msgs : /\ doc'[n].status = doc[n].status
                            /\ doc'[n].claim = doc[n].claim
                            /\ doc'[n].attempts = doc[n].attempts
         /\ UNCHANGED <<delivered, call, work, seen, recovered>>
<1>1. CASE BecomeDue(m)
  BY <1>1 DEF TypeOK, Document, BecomeDue
<1>2. CASE Age(m)
  BY <1>2 DEF TypeOK, Document, Age
<1>3. CASE Stall(m)
  BY <1>3 DEF TypeOK, Document, Stall
<1> QED BY <1>1, <1>2, <1>3

\* What the end of calls, orderly or by a crash, leaves alone.
EndsCalls ==
    /\ \A n \in Msgs : /\ doc'[n].status = doc[n].status
                       /\ doc'[n].attempts = doc[n].attempts
    /\ \A d \in Calls, n \in Msgs :
         /\ work'[d][n] \in {"none", work[d][n]}
         /\ seen'[d][n] \in {0, seen[d][n]}
         /\ work'[d][n] # "none" /\ doc[n].claim = d => doc'[n].claim = d
    /\ UNCHANGED <<delivered, recovered>>

(* Both ways a call ends leave statuses, counters and copies alone.        *)
LEMMA EndFrame ==
  ASSUME TypeOK, (\E c \in Calls : Finish(c)) \/ (\E r \in Relays : Crash(r))
  PROVE  EndsCalls
<1>1. ASSUME NEW c \in Calls, Finish(c)
      PROVE  EndsCalls
  BY <1>1 DEF EndsCalls, TypeOK, Document, Finish, Forget
<1>2. ASSUME NEW r \in Relays, Crash(r)
      PROVE  EndsCalls
  BY <1>2 DEF EndsCalls, TypeOK, Document, Crash, Forget
<1> QED BY <1>1, <1>2

(* A message with work or a copy on the broker has a document, and stored  *)
(* work has its copy.                                                      *)
LEMMA NextAccounted == TypeOK /\ Accounted /\ [Next]_vars => Accounted'
<1> SUFFICES ASSUME TypeOK, Accounted, [Next]_vars PROVE Accounted'
  OBVIOUS
<1>1. ASSUME NEW m \in Msgs, Enqueue(m) PROVE Accounted'
  BY <1>1 DEF TypeOK, Document, Accounted, Enqueue
<1>2. ASSUME NEW m \in Msgs, BecomeDue(m) \/ Age(m) \/ Stall(m) PROVE Accounted'
  BY <1>2, ClockFrame DEF Accounted
<1>3. ASSUME NEW c \in Calls, Start(c) \/ Find(c) PROVE Accounted'
  BY <1>3 DEF Accounted, Start, Find
<1>4. ASSUME NEW c \in Calls, Recover(c) PROVE Accounted'
  BY <1>4 DEF TypeOK, Document, Accounted, Recover
<1>5. ASSUME NEW c \in Calls, Claim(c) PROVE Accounted'
  BY <1>5 DEF TypeOK, Document, Accounted, Claim
<1>6. ASSUME NEW c \in Calls, Fetch(c) PROVE Accounted'
  BY <1>6 DEF TypeOK, Accounted, Fetch, Claimed
<1>7. CASE (\E c \in Calls : Finish(c)) \/ (\E r \in Relays : Crash(r))
  BY <1>7, EndFrame DEF Accounted, EndsCalls
<1>8. ASSUME NEW c \in Calls, NEW m \in Msgs, BrokerStores(c, m) PROVE Accounted'
  BY <1>8 DEF TypeOK, Accounted, BrokerStores
<1>9. ASSUME NEW c \in Calls, NEW m \in Msgs, Confirm(c, m) PROVE Accounted'
  BY <1>9 DEF TypeOK, Accounted, Confirm, Confirmable
<1>10. ASSUME NEW c \in Calls, NEW m \in Msgs, PublishFails(c, m) PROVE Accounted'
  BY <1>10 DEF TypeOK, Accounted, PublishFails
<1>11. ASSUME NEW c \in Calls, NEW m \in Msgs, MarkPublished(c, m) PROVE Accounted'
  BY <1>11 DEF TypeOK, Document, Accounted, MarkPublished
<1>12. ASSUME NEW c \in Calls, NEW m \in Msgs, Reschedule(c, m) PROVE Accounted'
  <2>1. doc[m] \in Document /\ seen[c][m] \in Nat
    BY DEF TypeOK
  <2>2. \A n \in Msgs : doc'[n].status = "absent" => doc[n].status = "absent"
    <3>1. Rescheduled(doc[m], seen[c][m]).status # "absent"
      BY <2>1, RescheduledType
    <3> QED BY <1>12, <3>1 DEF TypeOK, Reschedule
  <2>3. \A d \in Calls, n \in Msgs : work'[d][n] \in {"none", work[d][n]}
    BY <1>12 DEF TypeOK, Reschedule
  <2>4. delivered' = delivered
    BY <1>12 DEF Reschedule
  <2> QED BY <2>2, <2>3, <2>4 DEF Accounted
<1>13. ASSUME NEW c \in Calls, NEW m \in Msgs, MarkPublishedFails(c, m)
       PROVE  Accounted'
  BY <1>13 DEF TypeOK, Accounted, MarkPublishedFails
<1>14. ASSUME NEW c \in Calls, NEW m \in Msgs, RescheduleFails(c, m)
       PROVE  Accounted'
  BY <1>14 DEF TypeOK, Accounted, RescheduleFails
<1>15. CASE UNCHANGED vars
  BY <1>15 DEF Accounted, vars
<1> QED
  BY <1>1, <1>2, <1>3, <1>4, <1>5, <1>6, <1>7, <1>8, <1>9, <1>10, <1>11,
     <1>12, <1>13, <1>14, <1>15 DEF Next, Step, Outcome

(* A call works on a message it has claimed, unless the recovery came      *)
(* between.                                                                *)
LEMMA NextOwned == TypeOK /\ Accounted /\ Owned /\ [Next]_vars => Owned'
<1> SUFFICES ASSUME TypeOK, Accounted, Owned, [Next]_vars PROVE Owned'
  OBVIOUS
<1>1. ASSUME NEW m \in Msgs, Enqueue(m) PROVE Owned'
  <2>1. \A c \in Calls : work[c][m] = "none"
    BY <1>1 DEF Accounted, Enqueue
  <2> QED BY <1>1, <2>1 DEF TypeOK, Owned, Enqueue
<1>2. ASSUME NEW m \in Msgs, BecomeDue(m) \/ Age(m) \/ Stall(m) PROVE Owned'
  BY <1>2, ClockFrame DEF Owned
<1>3. ASSUME NEW c \in Calls, Start(c) \/ Find(c) PROVE Owned'
  BY <1>3 DEF Owned, Start, Find
<1>4. ASSUME NEW c \in Calls, Recover(c) PROVE Owned'
  BY ZenonT(60), <1>4 DEF TypeOK, Owned, Recover
<1>5. ASSUME NEW c \in Calls, Claim(c) PROVE Owned'
  BY ZenonT(60), <1>5 DEF TypeOK, Owned, Claim, Claimable
<1>6. ASSUME NEW c \in Calls, Fetch(c) PROVE Owned'
  BY <1>6 DEF TypeOK, Owned, Fetch, Claimed
<1>7. CASE (\E c \in Calls : Finish(c)) \/ (\E r \in Relays : Crash(r))
  BY <1>7, EndFrame DEF Owned, EndsCalls
<1>8. ASSUME NEW c \in Calls, NEW m \in Msgs,
             BrokerStores(c, m) \/ Confirm(c, m) \/ PublishFails(c, m)
               \/ MarkPublishedFails(c, m) \/ RescheduleFails(c, m)
      PROVE  Owned'
  <2>1. \A d \in Calls, n \in Msgs : work'[d][n] # "none" => work[d][n] # "none"
    <3>1. CASE BrokerStores(c, m)
      BY <3>1 DEF TypeOK, BrokerStores
    <3>2. CASE Confirm(c, m)
      BY <3>2 DEF TypeOK, Confirm, Confirmable
    <3>3. CASE PublishFails(c, m)
      BY <3>3 DEF TypeOK, PublishFails
    <3>4. CASE MarkPublishedFails(c, m)
      BY <3>4 DEF TypeOK, MarkPublishedFails
    <3>5. CASE RescheduleFails(c, m)
      BY <3>5 DEF TypeOK, RescheduleFails
    <3> QED BY <1>8, <3>1, <3>2, <3>3, <3>4, <3>5
  <2>2. UNCHANGED <<doc, recovered>>
    BY <1>8 DEF BrokerStores, Confirm, PublishFails, MarkPublishedFails, RescheduleFails
  <2> QED BY <2>1, <2>2 DEF Owned
<1>9. ASSUME NEW c \in Calls, NEW m \in Msgs, MarkPublished(c, m) \/ Reschedule(c, m)
      PROVE  Owned'
  <2>1. /\ \A n \in Msgs \ {m} : doc'[n] = doc[n]
        /\ recovered' = recovered
        /\ \A d \in Calls, n \in Msgs :
             work'[d][n] # "none" => work[d][n] # "none" /\ <<d, n>> # <<c, m>>
        /\ work[c][m] # "none"
    <3>1. CASE MarkPublished(c, m)
      BY <3>1 DEF TypeOK, MarkPublished
    <3>2. CASE Reschedule(c, m)
      BY <3>2 DEF TypeOK, Reschedule
    <3> QED BY <1>9, <3>1, <3>2
  <2>2. \A d \in Calls : d # c /\ m \notin recovered => work[d][m] = "none"
    BY <2>1 DEF Owned
  <2> QED BY <2>1, <2>2 DEF Owned
<1>10. CASE UNCHANGED vars
  BY <1>10 DEF Owned, vars
<1> QED
  BY <1>1, <1>2, <1>3, <1>4, <1>5, <1>6, <1>7, <1>8, <1>9, <1>10
     DEF Next, Step, Outcome

(* The attempts a call has read never exceed those of the document.        *)
LEMMA NextSeenBehind == TypeOK /\ SeenBehind /\ [Next]_vars => SeenBehind'
<1> SUFFICES ASSUME TypeOK, SeenBehind, [Next]_vars,
                    NEW d \in Calls, NEW n \in Msgs
             PROVE  seen'[d][n] <= doc'[n].attempts
  BY DEF SeenBehind
<1>a. /\ seen[d][n] <= doc[n].attempts
      /\ doc[n].attempts \in Nat /\ seen[d][n] \in Nat
  BY DEF TypeOK, Document, SeenBehind
<1>1. ASSUME NEW m \in Msgs, Enqueue(m) PROVE seen'[d][n] <= doc'[n].attempts
  BY <1>1, <1>a DEF TypeOK, Document, Enqueue
<1>2. ASSUME NEW m \in Msgs, BecomeDue(m) \/ Age(m) \/ Stall(m)
      PROVE  seen'[d][n] <= doc'[n].attempts
  BY <1>2, <1>a, ClockFrame
<1>3. ASSUME NEW c \in Calls, Start(c) \/ Find(c) PROVE seen'[d][n] <= doc'[n].attempts
  BY <1>3, <1>a DEF Start, Find
<1>4. ASSUME NEW c \in Calls, Recover(c) PROVE seen'[d][n] <= doc'[n].attempts
  BY ZenonT(60), <1>4, <1>a DEF TypeOK, Document, Recover
<1>5. ASSUME NEW c \in Calls, Claim(c) PROVE seen'[d][n] <= doc'[n].attempts
  BY ZenonT(60), <1>5, <1>a DEF TypeOK, Document, Claim
<1>6. ASSUME NEW c \in Calls, Fetch(c) PROVE seen'[d][n] <= doc'[n].attempts
  BY <1>6, <1>a DEF TypeOK, Fetch
<1>7. CASE (\E c \in Calls : Finish(c)) \/ (\E r \in Relays : Crash(r))
  BY <1>7, <1>a, EndFrame DEF EndsCalls
<1>8. ASSUME NEW c \in Calls, NEW m \in Msgs,
             BrokerStores(c, m) \/ Confirm(c, m) \/ PublishFails(c, m)
               \/ MarkPublishedFails(c, m) \/ RescheduleFails(c, m)
      PROVE  seen'[d][n] <= doc'[n].attempts
  BY <1>8, <1>a DEF BrokerStores, Confirm, PublishFails, MarkPublishedFails,
                    RescheduleFails
<1>9. ASSUME NEW c \in Calls, NEW m \in Msgs, MarkPublished(c, m)
      PROVE  seen'[d][n] <= doc'[n].attempts
  BY <1>9, <1>a DEF TypeOK, Document, MarkPublished
<1>10. ASSUME NEW c \in Calls, NEW m \in Msgs, Reschedule(c, m)
       PROVE  seen'[d][n] <= doc'[n].attempts
  <2>1. doc[m] \in Document /\ seen[c][m] \in Nat
    BY DEF TypeOK
  <2>2. Rescheduled(doc[m], seen[c][m]).attempts = doc[m].attempts + 1
    BY <2>1, RescheduledType
  <2>3. seen' = seen /\ doc'[n] = IF n = m THEN Rescheduled(doc[m], seen[c][m]) ELSE doc[n]
    BY <1>10 DEF TypeOK, Reschedule
  <2> QED BY <1>a, <2>2, <2>3
<1>11. CASE UNCHANGED vars
  BY <1>11, <1>a DEF vars
<1> QED
  BY <1>1, <1>2, <1>3, <1>4, <1>5, <1>6, <1>7, <1>8, <1>9, <1>10, <1>11
     DEF Next, Step, Outcome

(* Only MarkPublished makes a document published, and its call holds the   *)
(* broker's confirm.                                                       *)
LEMMA NextPublished ==
  TypeOK /\ Accounted /\ PublishedMeansDelivered /\ [Next]_vars => PublishedMeansDelivered'
<1> SUFFICES ASSUME TypeOK, Accounted, PublishedMeansDelivered, [Next]_vars,
                    NEW n \in Msgs, doc'[n].status = "published"
             PROVE  n \in delivered'
  BY DEF PublishedMeansDelivered
<1>1. delivered \subseteq delivered'
  BY DEF Next, Step, Outcome, Enqueue, BecomeDue, Age, Stall, Start, Recover, Find,
         Claim, Fetch, Finish, BrokerStores, Confirm, PublishFails, MarkPublished,
         Reschedule, MarkPublishedFails, RescheduleFails, Crash, vars
<1>2. CASE doc[n].status = "published"
  BY <1>1, <1>2 DEF PublishedMeansDelivered
<1>3. ASSUME doc[n].status # "published"
      PROVE  \E c \in Calls : MarkPublished(c, n)
  <2>1. ASSUME NEW m \in Msgs, Enqueue(m) PROVE FALSE
    BY <1>3, <2>1 DEF TypeOK, Document, Enqueue
  <2>2. ASSUME NEW m \in Msgs, BecomeDue(m) \/ Age(m) \/ Stall(m) PROVE FALSE
    BY <1>3, <2>2, ClockFrame
  <2>3. ASSUME NEW c \in Calls, Recover(c) PROVE FALSE
    BY ZenonT(60), <1>3, <2>3 DEF TypeOK, Document, Recover
  <2>4. ASSUME NEW c \in Calls, Claim(c) PROVE FALSE
    BY ZenonT(60), <1>3, <2>4 DEF TypeOK, Document, Claim
  <2>5. ASSUME (\E c \in Calls : Finish(c)) \/ (\E r \in Relays : Crash(r)) PROVE FALSE
    BY <1>3, <2>5, EndFrame DEF EndsCalls
  <2>6. ASSUME NEW c \in Calls, NEW m \in Msgs, Reschedule(c, m) PROVE FALSE
    <3>1. doc[m] \in Document /\ seen[c][m] \in Nat
      BY DEF TypeOK
    <3>2. Rescheduled(doc[m], seen[c][m]).status # "published"
      BY <3>1, RescheduledType
    <3> QED BY <1>3, <2>6, <3>2 DEF TypeOK, Reschedule
  <2>7. ASSUME NEW c \in Calls, NEW m \in Msgs, MarkPublished(c, m), m # n PROVE FALSE
    BY <1>3, <2>7 DEF TypeOK, MarkPublished
  <2>8. ASSUME UNCHANGED doc PROVE FALSE
    BY <1>3, <2>8
  <2> QED
    BY <2>1, <2>2, <2>3, <2>4, <2>5, <2>6, <2>7, <2>8
       DEF Next, Step, Outcome, Start, Find, Fetch, BrokerStores, Confirm,
           PublishFails, MarkPublishedFails, RescheduleFails, vars
<1>4. ASSUME NEW c \in Calls, MarkPublished(c, n) PROVE n \in delivered
  BY <1>4 DEF MarkPublished, Accounted
<1> QED BY <1>1, <1>2, <1>3, <1>4

(* Only a last attempt makes a document failed, and it counts.             *)
LEMMA NextGivesUp ==
  TypeOK /\ SeenBehind /\ GivesUpOnlyAfterMaxAttempts /\ [Next]_vars
    => GivesUpOnlyAfterMaxAttempts'
<1> SUFFICES ASSUME TypeOK, SeenBehind, GivesUpOnlyAfterMaxAttempts, [Next]_vars,
                    NEW n \in Msgs, doc'[n].status = "failed"
             PROVE  doc'[n].attempts >= MaxAttempts
  BY DEF GivesUpOnlyAfterMaxAttempts
<1>1. ASSUME NEW m \in Msgs, Enqueue(m) PROVE doc'[n] = doc[n]
  BY <1>1 DEF TypeOK, Document, Enqueue
<1>2. ASSUME NEW m \in Msgs, BecomeDue(m) \/ Age(m) \/ Stall(m)
      PROVE  doc'[n].status = doc[n].status /\ doc'[n].attempts = doc[n].attempts
  BY <1>2, ClockFrame
<1>3. ASSUME NEW c \in Calls, Recover(c) PROVE doc'[n] = doc[n]
  BY ZenonT(60), <1>3 DEF TypeOK, Document, Recover
<1>4. ASSUME NEW c \in Calls, Claim(c) PROVE doc'[n] = doc[n]
  BY ZenonT(60), <1>4 DEF TypeOK, Document, Claim
<1>5. ASSUME (\E c \in Calls : Finish(c)) \/ (\E r \in Relays : Crash(r))
      PROVE  doc'[n].status = doc[n].status /\ doc'[n].attempts = doc[n].attempts
  BY <1>5, EndFrame DEF EndsCalls
<1>6. ASSUME NEW c \in Calls, NEW m \in Msgs, MarkPublished(c, m) PROVE doc'[n] = doc[n]
  BY <1>6 DEF TypeOK, MarkPublished, Document
<1>7. ASSUME NEW c \in Calls, NEW m \in Msgs, Reschedule(c, m)
      PROVE  doc'[n] = doc[n] \/ doc'[n].attempts >= MaxAttempts
  <2>1. /\ doc[m] \in Document /\ seen[c][m] \in Nat
        /\ doc[m].attempts \in Nat /\ seen[c][m] <= doc[m].attempts
    BY DEF TypeOK, Document, SeenBehind
  <2>2. doc'[n] = IF n = m THEN Rescheduled(doc[m], seen[c][m]) ELSE doc[n]
    BY <1>7 DEF TypeOK, Reschedule
  <2>3. CASE n = m
    <3>1. seen[c][m] + 1 >= MaxAttempts /\ doc'[n].attempts = doc[m].attempts + 1
      BY <2>1, <2>2, <2>3, RescheduledType
    <3> QED BY <2>1, <3>1, BoundsAssumption
  <2> QED BY <2>2, <2>3
<1>8. \/ doc'[n].status = doc[n].status /\ doc'[n].attempts = doc[n].attempts
      \/ doc'[n].attempts >= MaxAttempts
  BY <1>1, <1>2, <1>3, <1>4, <1>5, <1>6, <1>7
     DEF Next, Step, Outcome, Start, Find, Fetch, BrokerStores, Confirm,
         PublishFails, MarkPublishedFails, RescheduleFails, vars
<1> QED BY <1>8 DEF GivesUpOnlyAfterMaxAttempts

-----------------------------------------------------------------------------
(* The inductive invariant holds in every reachable state.                 *)
THEOREM Invariance == Spec => []Inv
<1>1. Init => Inv
  <2> SUFFICES ASSUME Init PROVE Inv
    OBVIOUS
  <2>1. TypeOK
    BY InitType
  <2> QED BY <2>1 DEF Init, Inv, Accounted, Owned, SeenBehind, Absent,
                      PublishedMeansDelivered, GivesUpOnlyAfterMaxAttempts
<1>2. Inv /\ [Next]_vars => Inv'
  BY NextType, NextAccounted, NextOwned, NextSeenBehind, NextPublished, NextGivesUp
     DEF Inv
<1> QED BY <1>1, <1>2, PTL DEF Spec

(* Outbox!PublishedMeansDelivered: a document never lies about being       *)
(* published, for any number of overlapping calls, crashes and recoveries. *)
THEOREM Published == Spec => []PublishedMeansDelivered
<1>1. Inv => PublishedMeansDelivered
  BY DEF Inv
<1> QED BY <1>1, Invariance, PTL

(* Outbox!GivesUpOnlyAfterMaxAttempts, for every MaxAttempts.              *)
THEOREM GivesUp == Spec => []GivesUpOnlyAfterMaxAttempts
<1>1. Inv => GivesUpOnlyAfterMaxAttempts
  BY DEF Inv
<1> QED BY <1>1, Invariance, PTL

(* Outbox!ExclusiveWork: the filtered update hands a message to one call.  *)
THEOREM Exclusive == Spec => []ExclusiveWork
<1>1. Inv => ExclusiveWork
  BY DEF Inv, Owned, ExclusiveWork
<1> QED BY <1>1, Invariance, PTL

-----------------------------------------------------------------------------
(* A message whose document and copies look the same is in the same state. *)
LEMMA BarSame ==
  ASSUME NEW n \in Msgs, doc'[n].status = doc[n].status,
         n \in delivered' <=> n \in delivered
  PROVE  stateBar'[n] = stateBar[n]
  BY DEF stateBar

(* Taking a message, or giving it back, does not show from outside.        *)
LEMMA BarInFlight ==
  ASSUME NEW n \in Msgs, n \in delivered' <=> n \in delivered,
         doc[n].status \in {"pending", "publishing"},
         doc'[n].status \in {"pending", "publishing"}
  PROVE  stateBar'[n] = stateBar[n]
  BY DEF stateBar

(* A step that changes no message's outside state is a stutter.            *)
LEMMA BarStutter ==
  ASSUME \A n \in Msgs : stateBar'[n] = stateBar[n]
  PROVE  stateBar' = stateBar
  BY DEF stateBar

(* A step that changes one message's outside state is a step of the        *)
(* promise.                                                                *)
LEMMA BarStep ==
  ASSUME NEW m \in Msgs, \A n \in Msgs \ {m} : stateBar'[n] = stateBar[n],
         \/ stateBar'[m] = stateBar[m]
         \/ stateBar[m] = "none" /\ stateBar'[m] = "owed"
         \/ stateBar[m] \in {"owed", "given_up"} /\ stateBar'[m] = "sent"
         \/ stateBar[m] = "owed" /\ stateBar'[m] = "given_up"
         \/ stateBar[m] = "given_up" /\ stateBar'[m] = "owed"
  PROVE  [Promise!Next]_stateBar
<1>1. stateBar' = [stateBar EXCEPT ![m] = stateBar'[m]]
  BY ZenonT(60) DEF stateBar
<1>2. CASE stateBar'[m] = stateBar[m]
  BY <1>2, BarStutter
<1>3. CASE stateBar[m] = "none" /\ stateBar'[m] = "owed"
  BY <1>1, <1>3 DEF Promise!Next, Promise!Accept
<1>4. CASE stateBar[m] \in {"owed", "given_up"} /\ stateBar'[m] = "sent"
  BY <1>1, <1>4 DEF Promise!Next, Promise!Send
<1>5. CASE stateBar[m] = "owed" /\ stateBar'[m] = "given_up"
  BY <1>1, <1>5 DEF Promise!Next, Promise!GiveUp
<1>6. CASE stateBar[m] = "given_up" /\ stateBar'[m] = "owed"
  BY <1>1, <1>6 DEF Promise!Next, Promise!Resume
<1> QED BY <1>2, <1>3, <1>4, <1>5, <1>6

(* Every step of the relay is a step of the promise or does not show.      *)
LEMMA StepImplements == Inv /\ [Next]_vars => [Promise!Next]_stateBar
<1> SUFFICES ASSUME Inv, [Next]_vars PROVE [Promise!Next]_stateBar
  OBVIOUS
<1>1. TypeOK /\ Accounted
  BY DEF Inv
<1>2. ASSUME NEW m \in Msgs, Enqueue(m) PROVE [Promise!Next]_stateBar
  <2>1. \A n \in Msgs \ {m} : stateBar'[n] = stateBar[n]
    BY <1>1, <1>2 DEF TypeOK, Enqueue, stateBar
  <2>2. m \notin delivered /\ delivered' = delivered
    BY <1>1, <1>2 DEF Accounted, Enqueue
  <2>3. doc[m].status = "absent" /\ doc'[m].status = "pending"
    BY <1>1, <1>2 DEF TypeOK, Document, Enqueue
  <2>4. stateBar[m] = "none" /\ stateBar'[m] = "owed"
    BY <2>2, <2>3 DEF stateBar
  <2> QED BY <2>1, <2>4, BarStep
<1>3. ASSUME NEW m \in Msgs, BecomeDue(m) \/ Age(m) \/ Stall(m)
      PROVE  [Promise!Next]_stateBar
  BY <1>1, <1>3, ClockFrame, BarSame, BarStutter
<1>4. ASSUME NEW c \in Calls, Recover(c) PROVE [Promise!Next]_stateBar
  <2>1. \A n \in Msgs : \/ doc'[n].status = doc[n].status
                        \/ /\ doc[n].status \in {"pending", "publishing"}
                           /\ doc'[n].status \in {"pending", "publishing"}
    BY <1>1, <1>4 DEF TypeOK, Document, Recover, StalePublishing
  <2>2. delivered' = delivered
    BY <1>4 DEF Recover
  <2> QED BY <2>1, <2>2, BarSame, BarInFlight, BarStutter
<1>5. ASSUME NEW c \in Calls, Claim(c) PROVE [Promise!Next]_stateBar
  <2>1. \A n \in Msgs : \/ doc'[n].status = doc[n].status
                        \/ /\ doc[n].status \in {"pending", "publishing"}
                           /\ doc'[n].status \in {"pending", "publishing"}
    BY <1>1, <1>5 DEF TypeOK, Document, Claim, Claimable
  <2>2. delivered' = delivered
    BY <1>5 DEF Claim
  <2> QED BY <2>1, <2>2, BarSame, BarInFlight, BarStutter
<1>6. CASE (\E c \in Calls : Finish(c)) \/ (\E r \in Relays : Crash(r))
  BY <1>1, <1>6, EndFrame, BarSame, BarStutter DEF EndsCalls
<1>7. ASSUME NEW c \in Calls, NEW m \in Msgs, BrokerStores(c, m)
      PROVE  [Promise!Next]_stateBar
  <2>1. doc' = doc /\ delivered' = delivered \cup {m} /\ doc[m].status # "absent"
    BY <1>1, <1>7 DEF BrokerStores, Accounted
  <2>2. \A n \in Msgs \ {m} : stateBar'[n] = stateBar[n]
    BY <2>1, BarSame
  <2>3. stateBar'[m] = "sent" /\ stateBar[m] \in {"owed", "given_up", "sent"}
    BY <2>1 DEF stateBar
  <2> QED BY <2>2, <2>3, BarStep
<1>8. ASSUME NEW c \in Calls, NEW m \in Msgs, MarkPublished(c, m)
      PROVE  [Promise!Next]_stateBar
  <2>1. m \in delivered /\ delivered' = delivered /\ doc[m].status # "absent"
    BY <1>1, <1>8 DEF MarkPublished, Accounted
  <2>2. /\ doc'[m].status = "published"
        /\ \A n \in Msgs \ {m} : doc'[n] = doc[n]
    BY <1>1, <1>8 DEF TypeOK, Document, MarkPublished
  <2>3. stateBar'[m] = stateBar[m]
    BY <2>1, <2>2 DEF stateBar
  <2> QED BY <2>1, <2>2, <2>3, BarSame, BarStutter
<1>9. ASSUME NEW c \in Calls, NEW m \in Msgs, Reschedule(c, m)
      PROVE  [Promise!Next]_stateBar
  <2>1. doc[m].status # "absent" /\ delivered' = delivered
    BY <1>1, <1>9 DEF Reschedule, Accounted
  <2>2. doc[m] \in Document /\ seen[c][m] \in Nat
    BY <1>1 DEF TypeOK
  <2>3. doc'[m] = Rescheduled(doc[m], seen[c][m]) /\ \A n \in Msgs \ {m} : doc'[n] = doc[n]
    BY <1>1, <1>9 DEF TypeOK, Reschedule
  <2>4. doc'[m].status \in {"failed", "pending"}
    BY <2>2, <2>3, RescheduledType
  <2>5. \A n \in Msgs \ {m} : stateBar'[n] = stateBar[n]
    BY <2>1, <2>3, BarSame
  <2>6. CASE m \in delivered
    BY <2>1, <2>4, <2>5, <2>6, BarStep DEF stateBar
  <2>7. CASE m \notin delivered
    <3>1. stateBar[m] \in {"owed", "given_up"} /\ stateBar'[m] \in {"owed", "given_up"}
      BY <2>1, <2>4, <2>7 DEF stateBar
    <3> QED BY <2>5, <3>1, BarStep
  <2> QED BY <2>6, <2>7
<1>10. CASE UNCHANGED <<doc, delivered>>
  BY <1>10, BarSame, BarStutter
<1> QED
  BY <1>2, <1>3, <1>4, <1>5, <1>6, <1>7, <1>8, <1>9, <1>10
     DEF Next, Step, Outcome, Start, Find, Fetch, Confirm, PublishFails,
         MarkPublishedFails, RescheduleFails, vars

(* The relay implements the safety part of the outbox's promise: a message *)
(* is sent at most after it was accepted, and what was sent stays sent.    *)
THEOREM Implements == Spec => Promise!SafeSpec
<1>1. Init => Promise!Init
  BY DEF Init, Promise!Init, stateBar, Absent
<1>2. Inv /\ [Next]_vars => [Promise!Next]_stateBar
  BY StepImplements
<1> QED BY <1>1, <1>2, Invariance, PTL DEF Spec, Promise!SafeSpec
=============================================================================
