------------------------- MODULE WebhookInboxProofs -------------------------
(***************************************************************************)
(* For every number of events, instances and attempts, and for every       *)
(* bound: the safety properties of WebhookInbox, and that it implements    *)
(* the safety part of OutboxPromise.                                       *)
(***************************************************************************)
EXTENDS WebhookInbox, FiniteSetTheorems, TLAPS

\* A worker past the claim has one entry, and one that is not has none.
OneAtATime ==
    \A w \in Workers :
        /\ run[w].pc \in {"idle", "claim"} => run[w].on = {}
        /\ run[w].pc \in {"dispatch", "mark", "error"} => \E e \in Events : run[w].on = {e}

\* An entry that is not malformed was notified for a change of its resource; one
\* that is malformed is never worked on.
Notified ==
    /\ \A e \in Events : inbox[e].status # "absent" =>
         IF e \in Malformed THEN inbox[e].status = "dead" ELSE changes[e] > 0
    /\ \A w \in Workers : \A e \in run[w].on :
         e \notin Malformed /\ inbox[e].status # "absent" /\ changes[e] > 0

\* Unless the lease ended under it, who works on an entry holds its lease, and
\* nobody else believes the lease to have ended or works on the entry.
Leased ==
    \A w \in Workers : \A e \in run[w].on \ overrun :
        /\ inbox[e].status = "processing" /\ ~inbox[e].lapsed
        /\ \A v \in Workers \ {w} : e \notin run[v].known /\ e \notin run[v].on

\* The attempts that are written or read never exceed the rounds that failed.
Counted ==
    /\ \A e \in Events : inbox[e].attempts <= failures[e]
    /\ \A w \in Workers : \A e \in run[w].on :
         /\ run[w].attempts <= failures[e]
         /\ run[w].pc = "error" => run[w].attempts + 1 <= failures[e]

Inv == /\ TypeOK /\ OneAtATime /\ Notified /\ Leased /\ Counted
       /\ GivesUpAfterMaxAttempts

-----------------------------------------------------------------------------
(* Every initial state has the right types.                                *)
LEMMA InitType == Init => TypeOK
  BY BoundsAssumption DEF Init, TypeOK, Entry, Absent, Run, Idle

(* A run that ends has no entry.                                           *)
LEMMA IdleType == Idle \in Run /\ Idle.pc = "idle" /\ Idle.on = {} /\ Idle.known = {}
  BY DEF Idle, Run

(* A run that goes through candidates.                                     *)
LEMMA ClaimingRun ==
  ASSUME NEW todo \in SUBSET Events, NEW known \in SUBSET Events
  PROVE  LET new == [Idle EXCEPT !.pc = "claim", !.todo = todo, !.known = known] IN
         new \in Run /\ new.pc = "claim" /\ new.on = {} /\ new.known = known
  BY IdleType DEF Run

(* What is left of a run: its worker has no entry, and knows no more.      *)
LEMMA RestType ==
  ASSUME TypeOK, NEW w \in Workers, NEW e \in Events
  PROVE  /\ Rest(w, e) \in Run
         /\ Rest(w, e).pc \in {"idle", "claim"} /\ Rest(w, e).on = {}
         /\ Rest(w, e).known \subseteq run[w].known
<1> DEFINE todo == run[w].todo \ {e}
<1>1. run[w] \in Run /\ run[w].todo \subseteq Events /\ run[w].known \subseteq Events
  BY DEF TypeOK, Run
<1>2. CASE todo = {}
  BY <1>1, <1>2 DEF Rest, Idle, Run
<1>3. CASE todo # {}
  <2>1. Rest(w, e) = [pc |-> "claim", todo |-> todo, known |-> run[w].known \ {e},
                      on |-> {}, attempts |-> 0]
    BY <1>3 DEF Rest, Idle
  <2> QED BY <1>1, <2>1 DEF Run
<1> QED BY <1>2, <1>3

(* What append leaves of an entry.                                         *)
LEMMA AppendedType ==
  ASSUME TypeOK, NEW e \in Events
  PROVE  /\ Appended(e) \in Entry
         /\ inbox[e].status # "absent" => Appended(e) = inbox[e]
         /\ inbox[e].status = "absent" /\ e \in Malformed =>
              Appended(e).status = "dead" /\ Appended(e).attempts = 0
         /\ inbox[e].status = "absent" /\ e \notin Malformed =>
              Appended(e).status = "pending" /\ Appended(e).attempts = 0
  BY DEF TypeOK, Appended, Absent, Entry

-----------------------------------------------------------------------------
(* What the steps do, entry by entry and run by run.                       *)

(* The clock changes no status and no counter.                             *)
LEMMA ClockEffect ==
  ASSUME TypeOK, NEW e \in Events, BecomeDue(e) \/ Lapse(e) \/ Overrun(e)
  PROVE  /\ inbox' \in [Events -> Entry]
         /\ \A f \in Events : /\ inbox'[f].status = inbox[f].status
                              /\ inbox'[f].attempts = inbox[f].attempts
                              /\ f # e => inbox'[f] = inbox[f]
         /\ changes' = changes /\ fetched' = fetched /\ run' = run
         /\ dispatches' = dispatches /\ failures' = failures /\ overrun \subseteq overrun'
         /\ \A f \in Events : (\E w \in Workers : f \in run[w].on) /\ f \notin overrun' =>
              inbox'[f].lapsed = inbox[f].lapsed
<1>1. PICK b \in BOOLEAN, c \in BOOLEAN :
        inbox' = [inbox EXCEPT ![e] = [@ EXCEPT !.due = b, !.lapsed = c]]
  <2>1. inbox[e] \in Entry
    BY DEF TypeOK
  <2>2. CASE BecomeDue(e)
    <3>1. inbox' = [inbox EXCEPT ![e] = [@ EXCEPT !.due = TRUE, !.lapsed = inbox[e].lapsed]]
      BY ZenonT(60), <2>1, <2>2 DEF BecomeDue, Entry
    <3> QED BY <2>1, <3>1 DEF Entry
  <2> QED BY ZenonT(60), <2>1, <2>2 DEF Lapse, Overrun, Entry
<1>2. inbox' \in [Events -> Entry] /\ \A f \in Events :
        /\ inbox'[f].status = inbox[f].status /\ inbox'[f].attempts = inbox[f].attempts
        /\ f # e => inbox'[f] = inbox[f]
  BY <1>1 DEF TypeOK, Entry
<1>3. \A f \in Events : (\E w \in Workers : f \in run[w].on) /\ f \notin overrun' =>
        inbox'[f].lapsed = inbox[f].lapsed
  <2>1. CASE BecomeDue(e)
    <3>1. inbox[e] \in Entry /\ inbox'[e] = [inbox[e] EXCEPT !.due = TRUE]
      BY ZenonT(60), <2>1 DEF TypeOK, BecomeDue
    <3>2. inbox'[e].lapsed = inbox[e].lapsed
      BY <3>1 DEF Entry
    <3> QED BY <1>2, <3>2
  <2>2. CASE Lapse(e)
    BY <1>2, <2>2 DEF Lapse, Held
  <2>3. CASE Overrun(e)
    BY <1>2, <2>3 DEF Overrun
  <2> QED BY <2>1, <2>2, <2>3
<1> QED BY <1>2, <1>3 DEF BecomeDue, Lapse, Overrun, external, rounds

(* A worker that finds candidates, or lets go of one it has not claimed,   *)
(* or of its run, ends with no entry and changes nothing else.             *)
LetsGo(w) == Find(w) \/ ClaimLost(w) \/ RetryFails(w) \/ Crash(w)
LEMMA LetsGoEffect ==
  ASSUME TypeOK, NEW w \in Workers, LetsGo(w)
  PROVE  /\ run' \in [Workers -> Run]
         /\ run'[w].pc \in {"idle", "claim"} /\ run'[w].on = {}
         /\ run'[w].known \subseteq run[w].known \cup Lapsed
         /\ \A v \in Workers \ {w} : run'[v] = run[v]
         /\ inbox' = inbox /\ changes' = changes /\ fetched' = fetched
         /\ dispatches' = dispatches /\ failures' = failures /\ overrun' = overrun
<1>1. CASE Find(w)
  <2>1. PICK todo \in SUBSET Candidates :
          run' = [run EXCEPT ![w] = [Idle EXCEPT !.pc = "claim", !.todo = todo,
                                                 !.known = Lapsed]]
    BY <1>1 DEF Find
  <2>2. todo \subseteq Events /\ Lapsed \subseteq Events
    BY DEF Candidates, Reaped, Lapsed
  <2> DEFINE new == [Idle EXCEPT !.pc = "claim", !.todo = todo, !.known = Lapsed]
  <2>3. new \in Run /\ new.pc = "claim" /\ new.on = {} /\ new.known = Lapsed
    BY <2>2, ClaimingRun
  <2> HIDE DEF new
  <2>4. run' \in [Workers -> Run] /\ run'[w] = new /\ \A v \in Workers \ {w} : run'[v] = run[v]
    BY <2>1, <2>3 DEF TypeOK, new
  <2>5. /\ inbox' = inbox /\ changes' = changes /\ fetched' = fetched
        /\ dispatches' = dispatches /\ failures' = failures /\ overrun' = overrun
    BY <1>1 DEF Find, external, rounds
  <2> QED BY <2>3, <2>4, <2>5
<1>2. CASE ClaimLost(w)
  <2>1. PICK e \in Events : run' = [run EXCEPT ![w] = Rest(w, e)]
    BY <1>2 DEF TypeOK, Run, ClaimLost
  <2> QED BY <1>2, <2>1, RestType DEF TypeOK, ClaimLost, external, rounds
<1>3. CASE RetryFails(w) \/ Crash(w)
  BY <1>3, IdleType DEF TypeOK, RetryFails, Crash, external, rounds
<1> QED BY <1>1, <1>2, <1>3 DEF LetsGo

\* A claim gives the entry e to its worker, and a lease that no other run knows to
\* have ended.
Claimed(w, e) ==
    /\ Claimable(w, e)
    /\ inbox'[e].status = "processing" /\ inbox'[e].lapsed = FALSE
    /\ inbox'[e].attempts = inbox[e].attempts
    /\ \A f \in Events \ {e} : inbox'[f] = inbox[f]
    /\ run'[w].pc = "dispatch" /\ run'[w].on = {e} /\ run'[w].known = run[w].known
    /\ run'[w].attempts = inbox[e].attempts
    /\ \A v \in Workers \ {w} :
         /\ run'[v].pc = run[v].pc /\ run'[v].on = run[v].on
         /\ run'[v].attempts = run[v].attempts
         /\ run'[v].known = run[v].known \ {e}
    /\ changes' = changes /\ fetched' = fetched
    /\ dispatches' = dispatches /\ failures' = failures /\ overrun' = overrun

(* That is what a claim does.                                              *)
LEMMA ClaimEffect ==
  ASSUME TypeOK, NEW w \in Workers, Claim(w)
  PROVE  /\ run[w].pc = "claim"
         /\ inbox' \in [Events -> Entry] /\ run' \in [Workers -> Run]
         /\ \E e \in Events : Claimed(w, e)
<1>1. PICK e \in run[w].todo :
        /\ Claimable(w, e)
        /\ inbox' = [inbox EXCEPT ![e] = [@ EXCEPT !.status = "processing",
                                                   !.lapsed = FALSE]]
        /\ run' = [v \in Workers |->
             IF v = w THEN [run[w] EXCEPT !.pc = "dispatch", !.on = {e},
                                          !.attempts = inbox[e].attempts]
             ELSE [run[v] EXCEPT !.known = @ \ {e}]]
  BY DEF Claim
<1>2. e \in Events /\ inbox[e] \in Entry /\ run[w] \in Run
  BY DEF TypeOK, Run
<1>3. /\ inbox' \in [Events -> Entry]
      /\ inbox'[e].status = "processing" /\ inbox'[e].lapsed = FALSE
      /\ inbox'[e].attempts = inbox[e].attempts
      /\ \A f \in Events \ {e} : inbox'[f] = inbox[f]
  BY <1>1, <1>2 DEF TypeOK, Entry
<1>4. run'[w] = [run[w] EXCEPT !.pc = "dispatch", !.on = {e}, !.attempts = inbox[e].attempts]
  BY <1>1
<1>5. {e} \in SUBSET Events /\ inbox[e].attempts \in Nat
  BY <1>2 DEF Entry
<1>6. /\ run'[w] \in Run /\ run'[w].pc = "dispatch" /\ run'[w].on = {e}
      /\ run'[w].attempts = inbox[e].attempts /\ run'[w].known = run[w].known
  BY <1>2, <1>4, <1>5 DEF Run
<1>7. ASSUME NEW v \in Workers \ {w}
      PROVE  /\ run'[v] \in Run /\ run'[v].pc = run[v].pc /\ run'[v].on = run[v].on
             /\ run'[v].attempts = run[v].attempts /\ run'[v].known = run[v].known \ {e}
  <2>1. run[v] \in Run /\ run'[v] = [run[v] EXCEPT !.known = run[v].known \ {e}]
    BY <1>1 DEF TypeOK
  <2> QED BY <2>1 DEF Run
<1>8. run' \in [Workers -> Run]
  BY <1>1, <1>6, <1>7
<1>9. /\ run[w].pc = "claim" /\ changes' = changes /\ fetched' = fetched
      /\ dispatches' = dispatches /\ failures' = failures /\ overrun' = overrun
  BY DEF Claim, external, rounds
<1>10. Claimed(w, e)
  BY <1>1, <1>3, <1>6, <1>7, <1>9 DEF Claimed
<1> QED BY <1>2, <1>3, <1>8, <1>9, <1>10

(* The command is emitted, or the write of "done" fails.                    *)
Settles(w) == Dispatch(w) \/ MarkDoneFails(w)
LEMMA SettlesEffect ==
  ASSUME TypeOK, NEW w \in Workers, NEW e \in Events, run[w].on = {e}, Settles(w)
  PROVE  /\ run' \in [Workers -> Run]
         /\ run'[w].on = {e} /\ run'[w].known = run[w].known
         /\ run'[w].attempts = run[w].attempts
         /\ \A v \in Workers \ {w} : run'[v] = run[v]
         /\ \/ /\ run[w].pc = "dispatch" /\ run'[w].pc = "mark"
               /\ dispatches' = [dispatches EXCEPT ![e] = @ + 1] /\ failures' = failures
            \/ /\ run[w].pc = "mark" /\ run'[w].pc = "error"
               /\ dispatches' = dispatches /\ failures' = [failures EXCEPT ![e] = @ + 1]
         /\ inbox' = inbox /\ changes' = changes /\ fetched' = fetched
         /\ overrun' = overrun /\ losses' = losses
<1>1. PICK pc \in {"mark", "error"} : run' = [run EXCEPT ![w] = [@ EXCEPT !.pc = pc]]
  BY ZenonT(60) DEF Settles, Dispatch, MarkDoneFails
<1>2. run[w] \in Run
  BY DEF TypeOK
<1>3. /\ run' \in [Workers -> Run] /\ run'[w].pc = pc
      /\ run'[w].on = {e} /\ run'[w].known = run[w].known
      /\ run'[w].attempts = run[w].attempts
      /\ \A v \in Workers \ {w} : run'[v] = run[v]
  BY <1>1, <1>2 DEF TypeOK, Run
<1>4. CASE Dispatch(w)
  <2>1. run' = [run EXCEPT ![w] = [@ EXCEPT !.pc = "mark"]]
    BY ZenonT(60), <1>4 DEF Dispatch
  <2>2. run'[w].pc = "mark"
    BY <1>2, <2>1 DEF TypeOK, Run
  <2> QED BY <1>3, <1>4, <2>2 DEF Dispatch, external
<1>5. CASE MarkDoneFails(w)
  <2>1. run' = [run EXCEPT ![w] = [@ EXCEPT !.pc = "error"]]
    BY ZenonT(60), <1>5 DEF MarkDoneFails
  <2>2. run'[w].pc = "error"
    BY <1>2, <2>1 DEF TypeOK, Run
  <2> QED BY <1>3, <1>5, <2>2 DEF MarkDoneFails, external
<1> QED BY <1>4, <1>5 DEF Settles

(* A handler ends: the inbox and the runs do not notice.                   *)
LEMMA HandlerEffect ==
  ASSUME TypeOK, NEW w \in Workers, NEW e \in Events, Handler(w, e)
  PROVE  /\ inbox' = inbox /\ run' = run /\ changes' = changes
         /\ fetched' \in [Events -> 0 .. MaxChanges]
         /\ dispatches' = dispatches /\ failures' = failures /\ losses' = losses
         /\ overrun' = overrun
  BY DEF TypeOK, Handler, HandlerFetches, HandlerDeclines, HandlerFails, Ends, rounds

(* The outcome is written and the worker goes on with the rest of its run. *)
Writes(w) == MarkDone(w) \/ Retry(w)
LEMMA WritesEffect ==
  ASSUME TypeOK, NEW w \in Workers, NEW e \in Events, run[w].on = {e}, Writes(w)
  PROVE  /\ run' \in [Workers -> Run] /\ inbox' \in [Events -> Entry]
         /\ run'[w].pc \in {"idle", "claim"} /\ run'[w].on = {}
         /\ run'[w].known \subseteq run[w].known
         /\ \A v \in Workers \ {w} : run'[v] = run[v]
         /\ \A f \in Events \ {e} : inbox'[f] = inbox[f]
         /\ \/ /\ run[w].pc = "mark" /\ inbox'[e].status = "done"
               /\ inbox'[e].attempts = inbox[e].attempts
            \/ /\ run[w].pc = "error" /\ inbox'[e].status \in {"pending", "dead"}
               /\ inbox'[e].attempts = run[w].attempts + 1
               /\ inbox'[e].status = "dead" => run[w].attempts + 1 >= MaxAttempts
         /\ changes' = changes /\ fetched' = fetched
         /\ dispatches' = dispatches /\ failures' = failures /\ overrun' = overrun
<1>1. run' = [run EXCEPT ![w] = Rest(w, e)]
  BY DEF Writes, MarkDone, Retry
<1>2. /\ run' \in [Workers -> Run]
      /\ run'[w].pc \in {"idle", "claim"} /\ run'[w].on = {}
      /\ run'[w].known \subseteq run[w].known
      /\ \A v \in Workers \ {w} : run'[v] = run[v]
  BY <1>1, RestType DEF TypeOK
<1>3. CASE MarkDone(w)
  <2>1. inbox' = [inbox EXCEPT ![e] = [@ EXCEPT !.status = "done", !.lapsed = FALSE]]
    BY ZenonT(60), <1>3 DEF MarkDone
  <2>2. inbox[e] \in Entry
    BY DEF TypeOK
  <2>3. /\ inbox' \in [Events -> Entry] /\ inbox'[e].status = "done"
        /\ inbox'[e].attempts = inbox[e].attempts
        /\ \A f \in Events \ {e} : inbox'[f] = inbox[f]
    BY <2>1, <2>2 DEF TypeOK, Entry
  <2> QED BY <1>2, <1>3, <2>3 DEF MarkDone, external, rounds
<1>4. CASE Retry(w)
  <2> DEFINE new == [status |-> StatusAfter(run[w].attempts),
                     attempts |-> run[w].attempts + 1, due |-> FALSE, lapsed |-> FALSE]
  <2>1. inbox' = [inbox EXCEPT ![e] = new]
    BY <1>4 DEF Retry
  <2>2. run[w].attempts \in Nat
    BY DEF TypeOK, Run
  <2>3. /\ StatusAfter(run[w].attempts) \in {"pending", "dead"}
        /\ StatusAfter(run[w].attempts) = "dead" => run[w].attempts + 1 >= MaxAttempts
    BY DEF StatusAfter, LastAttempt
  <2>4. new \in Entry
    BY <2>2, <2>3 DEF Entry
  <2>5. /\ inbox' \in [Events -> Entry] /\ inbox'[e] = new
        /\ \A f \in Events \ {e} : inbox'[f] = inbox[f]
    BY <2>1, <2>4 DEF TypeOK
  <2> QED BY <1>2, <1>4, <2>3, <2>5 DEF Retry, external, rounds
<1> QED BY <1>3, <1>4 DEF Writes

(* A notification adds an entry, or changes nothing.                       *)
LEMMA IngestEffect ==
  ASSUME TypeOK, NEW e \in Events, Ingest(e)
  PROVE  /\ inbox' \in [Events -> Entry]
         /\ changes[e] > 0 \/ e \in Malformed
         /\ inbox[e].status # "absent" => inbox'[e] = inbox[e]
         /\ inbox[e].status = "absent" =>
              /\ inbox'[e].attempts = 0
              /\ inbox'[e].status = IF e \in Malformed THEN "dead" ELSE "pending"
         /\ \A f \in Events \ {e} : inbox'[f] = inbox[f]
         /\ changes' = changes /\ fetched' = fetched /\ run' = run
         /\ dispatches' = dispatches /\ failures' = failures /\ overrun' = overrun
<1>1. inbox' = [inbox EXCEPT ![e] = Appended(e)]
  BY DEF Ingest
<1>2. inbox' \in [Events -> Entry] /\ inbox'[e] = Appended(e)
      /\ \A f \in Events \ {e} : inbox'[f] = inbox[f]
  BY <1>1, AppendedType DEF TypeOK
<1>3. /\ changes[e] > 0 \/ e \in Malformed
      /\ changes' = changes /\ fetched' = fetched /\ run' = run
      /\ dispatches' = dispatches /\ failures' = failures /\ overrun' = overrun
  BY DEF Ingest, external, rounds
<1> QED BY <1>2, <1>3, AppendedType

(* A change of the resource only raises its number of changes.             *)
LEMMA ChangeEffect ==
  ASSUME TypeOK, NEW e \in Events, Change(e)
  PROVE  /\ changes' \in [Events -> 0 .. MaxChanges]
         /\ \A f \in Events : changes'[f] >= changes[f]
         /\ inbox' = inbox /\ fetched' = fetched /\ run' = run
         /\ dispatches' = dispatches /\ failures' = failures /\ overrun' = overrun
  BY BoundsAssumption DEF TypeOK, Change, external, rounds

\* The steps, by what they do to the runs.
Moves ==
    \/ \E e \in Events : \/ Change(e) \/ Ingest(e)
                         \/ BecomeDue(e) \/ Lapse(e) \/ Overrun(e)
    \/ \E w \in Workers : LetsGo(w) \/ Claim(w) \/ Settles(w) \/ Writes(w)
    \/ \E w \in Workers, e \in Events : Handler(w, e)

(* They are all the steps there are.                                       *)
LEMMA NextMoves == Next => Moves
  BY DEF Next, Step, Moves, LetsGo, Settles, Writes

(* A worker that settles or writes has one entry.                          *)
LEMMA HasEntry ==
  ASSUME OneAtATime, NEW w \in Workers, Settles(w) \/ Writes(w)
  PROVE  \E e \in Events : run[w].on = {e}
<1>1. run[w].pc \in {"dispatch", "mark", "error"}
  BY DEF Settles, Writes, Dispatch, MarkDoneFails, MarkDone, Retry
<1> QED BY <1>1 DEF OneAtATime

-----------------------------------------------------------------------------
(* The histories and the handlers under way are counters.                  *)
LEMMA NextHistory ==
  ASSUME TypeOK, Moves
  PROVE  /\ handlers' \in [Workers -> [Events -> Nat]]
         /\ losses' \in [Events -> Nat] /\ dispatches' \in [Events -> Nat]
<1>1. dispatches' = dispatches \/ \E w \in Workers : Dispatch(w)
  BY DEF Moves, Change, Ingest, BecomeDue, Lapse, Overrun, LetsGo, Find, ClaimLost,
         RetryFails, Crash, Claim, Settles, Dispatch, MarkDoneFails, Writes, MarkDone, Retry,
         Handler, HandlerFetches, HandlerDeclines, HandlerFails, Ends, rounds
<1>2. losses' = losses \/ (\E e \in Events : Overrun(e)) \/ \E w \in Workers : Crash(w)
  BY DEF Moves, Change, Ingest, BecomeDue, Lapse, Overrun, LetsGo, Find, ClaimLost,
         RetryFails, Crash, Claim, Settles, Dispatch, MarkDoneFails, Writes, MarkDone, Retry,
         Handler, HandlerFetches, HandlerDeclines, HandlerFails, Ends, rounds
<1>3. \/ handlers' = handlers \/ \E w \in Workers : Dispatch(w) \/ Crash(w)
      \/ \E w \in Workers, e \in Events : Ends(w, e)
  BY DEF Moves, Change, Ingest, BecomeDue, Lapse, Overrun, LetsGo, Find, ClaimLost,
         RetryFails, Crash, Claim, Settles, Dispatch, MarkDoneFails, Writes, MarkDone, Retry,
         Handler, HandlerFetches, HandlerDeclines, HandlerFails, Ends, rounds
<1>4. ASSUME NEW w \in Workers, Dispatch(w)
      PROVE  /\ dispatches' \in [Events -> Nat]
             /\ handlers' \in [Workers -> [Events -> Nat]]
  <2>1. PICK e \in Events : /\ handlers' = [handlers EXCEPT ![w][e] = @ + 1]
                           /\ dispatches' = [dispatches EXCEPT ![e] = @ + 1]
    BY <1>4 DEF Dispatch, TypeOK, Run
  <2> QED BY <2>1 DEF TypeOK
<1>5. ASSUME NEW e \in Events, Overrun(e) PROVE losses' \in [Events -> Nat]
  BY <1>5 DEF Overrun, TypeOK
<1>6. ASSUME NEW w \in Workers, Crash(w)
      PROVE  losses' \in [Events -> Nat] /\ handlers' \in [Workers -> [Events -> Nat]]
  <2>1. losses' \in [Events -> Nat]
    BY <1>6 DEF Crash, TypeOK
  <2>2. handlers' = [handlers EXCEPT ![w] = [e \in Events |-> 0]]
    BY <1>6 DEF Crash
  <2> QED BY <2>1, <2>2 DEF TypeOK
<1>7. ASSUME NEW w \in Workers, NEW e \in Events, Ends(w, e)
      PROVE  handlers' \in [Workers -> [Events -> Nat]]
  BY <1>7 DEF Ends, TypeOK
<1> QED BY <1>1, <1>2, <1>3, <1>4, <1>5, <1>6, <1>7 DEF TypeOK

(* Every step keeps the types.                                             *)
LEMMA NextType == TypeOK /\ OneAtATime /\ Moves => TypeOK'
<1> SUFFICES ASSUME TypeOK, OneAtATime, Moves PROVE TypeOK'
  OBVIOUS
<1>1. faults' \in 0 .. MaxFaults
  <2>1. faults' = faults \/ Fault
    BY DEF Moves, Change, Ingest, BecomeDue, Lapse, Overrun, LetsGo, Find, ClaimLost,
           RetryFails, Crash, Claim, Settles, Dispatch, MarkDoneFails, Writes, MarkDone, Retry,
           Handler, HandlerFetches, HandlerDeclines, HandlerFails, Ends
  <2> QED BY <2>1, BoundsAssumption DEF TypeOK, Fault
<1>2. wire' \subseteq Events /\ failed' \subseteq Events /\ overrun' \subseteq Events
  BY DEF TypeOK, external, rounds,
         Moves, Change, Ingest, BecomeDue, Lapse, Overrun, LetsGo, Find, ClaimLost,
           RetryFails, Crash, Claim, Settles, Dispatch, MarkDoneFails, Writes, MarkDone, Retry,
           Handler, HandlerFetches, HandlerDeclines, HandlerFails, Ends
<1>3. /\ handlers' \in [Workers -> [Events -> Nat]]
      /\ losses' \in [Events -> Nat] /\ dispatches' \in [Events -> Nat]
  BY NextHistory
<1>4. ASSUME NEW e \in Events, Change(e) PROVE TypeOK'
  BY <1>1, <1>2, <1>3, <1>4, ChangeEffect DEF TypeOK
<1>5. ASSUME NEW e \in Events, Ingest(e) PROVE TypeOK'
  BY <1>1, <1>2, <1>3, <1>5, IngestEffect DEF TypeOK
<1>6. ASSUME NEW e \in Events, BecomeDue(e) \/ Lapse(e) \/ Overrun(e) PROVE TypeOK'
  BY <1>1, <1>2, <1>3, <1>6, ClockEffect DEF TypeOK
<1>7. ASSUME NEW w \in Workers, LetsGo(w) PROVE TypeOK'
  BY <1>1, <1>2, <1>3, <1>7, LetsGoEffect DEF TypeOK
<1>8. ASSUME NEW w \in Workers, Claim(w) PROVE TypeOK'
  BY <1>1, <1>2, <1>3, <1>8, ClaimEffect DEF TypeOK, Claimed
<1>9. ASSUME NEW w \in Workers, Settles(w) PROVE TypeOK'
  <2>1. PICK e \in Events : run[w].on = {e}
    BY <1>9, HasEntry
  <2>2. fetched' \in [Events -> 0 .. MaxChanges]
    BY <1>9, <2>1, SettlesEffect DEF TypeOK
  <2>3. failures' = failures \/ failures' = [failures EXCEPT ![e] = @ + 1]
    BY <1>9, <2>1, SettlesEffect
  <2>4. failures' \in [Events -> Nat]
    BY <2>3 DEF TypeOK
  <2> QED BY <1>1, <1>2, <1>3, <1>9, <2>1, <2>2, <2>4, SettlesEffect DEF TypeOK
<1>10. ASSUME NEW w \in Workers, Writes(w) PROVE TypeOK'
  <2>1. PICK e \in Events : run[w].on = {e}
    BY <1>10, HasEntry
  <2> QED BY <1>1, <1>2, <1>3, <1>10, <2>1, WritesEffect DEF TypeOK
<1>11. ASSUME NEW w \in Workers, NEW e \in Events, Handler(w, e) PROVE TypeOK'
  BY <1>1, <1>2, <1>3, <1>11, HandlerEffect DEF TypeOK
<1> QED BY <1>4, <1>5, <1>6, <1>7, <1>8, <1>9, <1>10, <1>11 DEF Moves

(* A worker has one entry exactly between its claim and the outcome.       *)
LEMMA NextOneAtATime == TypeOK /\ OneAtATime /\ Moves => OneAtATime'
<1> SUFFICES ASSUME TypeOK, OneAtATime, Moves PROVE OneAtATime'
  OBVIOUS
<1>1. ASSUME NEW e \in Events,
             Change(e) \/ Ingest(e) \/ BecomeDue(e) \/ Lapse(e) \/ Overrun(e)
      PROVE  OneAtATime'
  BY <1>1, ChangeEffect, IngestEffect, ClockEffect DEF OneAtATime
<1>2. ASSUME NEW w \in Workers, LetsGo(w) PROVE OneAtATime'
  BY <1>2, LetsGoEffect DEF OneAtATime
<1>3. ASSUME NEW w \in Workers, Claim(w) PROVE OneAtATime'
  <2>1. PICK e \in Events : Claimed(w, e)
    BY <1>3, ClaimEffect
  <2> QED BY <2>1 DEF OneAtATime, Claimed
<1>4. ASSUME NEW w \in Workers, Settles(w) PROVE OneAtATime'
  <2>1. PICK e \in Events : run[w].on = {e}
    BY <1>4, HasEntry
  <2>2. run'[w].pc \in {"mark", "error"} /\ run'[w].on = {e} /\
          \A v \in Workers \ {w} : run'[v] = run[v]
    BY <1>4, <2>1, SettlesEffect
  <2> QED BY <2>2 DEF OneAtATime
<1>5. ASSUME NEW w \in Workers, Writes(w) PROVE OneAtATime'
  <2>1. PICK e \in Events : run[w].on = {e}
    BY <1>5, HasEntry
  <2>2. run'[w].pc \in {"idle", "claim"} /\ run'[w].on = {} /\
          \A v \in Workers \ {w} : run'[v] = run[v]
    BY <1>5, <2>1, WritesEffect
  <2> QED BY <2>2 DEF OneAtATime
<1>6. ASSUME NEW w \in Workers, NEW e \in Events, Handler(w, e) PROVE OneAtATime'
  BY <1>6, HandlerEffect DEF OneAtATime
<1> QED BY <1>1, <1>2, <1>3, <1>4, <1>5, <1>6 DEF Moves

(* A step leaves an entry's status alone unless a worker moves it on.      *)
LEMMA NextNotified == TypeOK /\ OneAtATime /\ Notified /\ Moves => Notified'
<1> SUFFICES ASSUME TypeOK, OneAtATime, Notified, Moves PROVE Notified'
  OBVIOUS
<1> \A f \in Events : changes[f] \in Nat /\ changes'[f] \in Nat
  BY NextType DEF TypeOK
<1>1. ASSUME NEW e \in Events, Change(e) PROVE Notified'
  BY <1>1, ChangeEffect DEF Notified, TypeOK, Run
<1>2. ASSUME NEW e \in Events, Ingest(e) PROVE Notified'
  <2>1. \A f \in Events : inbox[f].status # "absent" => inbox'[f] = inbox[f]
    BY <1>2, IngestEffect
  <2>2. \A w \in Workers : \A f \in run[w].on : f \in Events
    BY DEF TypeOK, Run
  <2> QED BY <1>2, <2>1, <2>2, IngestEffect DEF Notified
<1>3. ASSUME NEW e \in Events, BecomeDue(e) \/ Lapse(e) \/ Overrun(e) PROVE Notified'
  BY <1>3, ClockEffect DEF Notified, TypeOK, Run
<1>4. ASSUME NEW w \in Workers, LetsGo(w) PROVE Notified'
  BY <1>4, LetsGoEffect DEF Notified
<1>5. ASSUME NEW w \in Workers, Claim(w) PROVE Notified'
  <2>1. PICK e \in Events : Claimed(w, e)
    BY <1>5, ClaimEffect
  <2>2. e \notin Malformed /\ changes[e] > 0
    BY <2>1 DEF Claimed, Claimable, Notified
  <2>3. \A v \in Workers : run[v].on \subseteq Events
    BY DEF TypeOK, Run
  <2> QED BY <2>1, <2>2, <2>3 DEF Notified, Claimed
<1>6. ASSUME NEW w \in Workers, Settles(w) PROVE Notified'
  <2>1. PICK e \in Events : run[w].on = {e}
    BY <1>6, HasEntry
  <2>2. run'[w].on = {e} /\ \A v \in Workers \ {w} : run'[v] = run[v]
    BY <1>6, <2>1, SettlesEffect
  <2>3. inbox' = inbox /\ changes' = changes
    BY <1>6, <2>1, SettlesEffect
  <2> QED BY <2>1, <2>2, <2>3 DEF Notified
<1>7. ASSUME NEW w \in Workers, Writes(w) PROVE Notified'
  <2>1. PICK e \in Events : run[w].on = {e}
    BY <1>7, HasEntry
  <2>2. /\ run'[w].on = {} /\ \A v \in Workers \ {w} : run'[v] = run[v]
        /\ \A f \in Events \ {e} : inbox'[f] = inbox[f]
        /\ inbox'[e].status \in {"done", "pending", "dead"} /\ changes' = changes
    BY <1>7, <2>1, WritesEffect
  <2>3. e \notin Malformed /\ changes[e] > 0
    BY <2>1 DEF Notified
  <2>4. \A v \in Workers : run[v].on \subseteq Events
    BY DEF TypeOK, Run
  <2> QED BY <2>2, <2>3, <2>4 DEF Notified
<1>8. ASSUME NEW w \in Workers, NEW e \in Events, Handler(w, e) PROVE Notified'
  BY <1>8, HandlerEffect DEF Notified
<1> QED BY <1>1, <1>2, <1>3, <1>4, <1>5, <1>6, <1>7, <1>8 DEF Moves

(* Who works on an entry keeps its lease: the steps of others need it to   *)
(* have ended.                                                             *)
LEMMA NextLeased == TypeOK /\ OneAtATime /\ Leased /\ Moves => Leased'
<1> SUFFICES ASSUME TypeOK, OneAtATime, Leased, Moves PROVE Leased'
  OBVIOUS
<1> \A v \in Workers : run[v].on \subseteq Events
  BY DEF TypeOK, Run
<1>1. ASSUME NEW e \in Events, Change(e) PROVE Leased'
  BY <1>1, ChangeEffect DEF Leased
<1>2. ASSUME NEW e \in Events, Ingest(e) PROVE Leased'
  BY <1>2, IngestEffect DEF Leased
<1>3. ASSUME NEW e \in Events, BecomeDue(e) \/ Lapse(e) \/ Overrun(e) PROVE Leased'
  BY <1>3, ClockEffect DEF Leased
<1>4. ASSUME NEW w \in Workers, LetsGo(w) PROVE Leased'
  <2>1. /\ run'[w].on = {} /\ run'[w].known \subseteq run[w].known \cup Lapsed
        /\ \A v \in Workers \ {w} : run'[v] = run[v]
        /\ inbox' = inbox /\ overrun' = overrun
    BY <1>4, LetsGoEffect
  <2>2. \A f \in Lapsed : inbox[f].lapsed
    BY DEF Lapsed
  <2> QED BY <2>1, <2>2 DEF Leased
<1>5. ASSUME NEW w \in Workers, Claim(w) PROVE Leased'
  <2>1. PICK e \in Events : Claimed(w, e)
    BY <1>5, ClaimEffect
  <2>2. run[w].on = {}
    BY <1>5, ClaimEffect DEF OneAtATime
  <2>3. e \in overrun \/ \A v \in Workers : e \notin run[v].on
    BY <2>1, <2>2 DEF Claimed, Claimable, Leased
  <2>4. ASSUME NEW v \in Workers, NEW f \in run'[v].on \ overrun'
        PROVE  /\ inbox'[f].status = "processing" /\ ~inbox'[f].lapsed
               /\ \A u \in Workers \ {v} : f \notin run'[u].known /\ f \notin run'[u].on
    <3>1. CASE v = w
      BY <2>1, <2>3, <2>4, <3>1 DEF Claimed
    <3>2. CASE v # w
      <4>1. f \in run[v].on \ overrun /\ f # e
        BY <2>1, <2>3, <2>4, <3>2 DEF Claimed
      <4> QED BY <2>1, <2>2, <4>1 DEF Leased, Claimed
    <3> QED BY <3>1, <3>2
  <2> QED BY <2>4 DEF Leased
<1>6. ASSUME NEW w \in Workers, Settles(w) PROVE Leased'
  <2>1. PICK e \in Events : run[w].on = {e}
    BY <1>6, HasEntry
  <2>2. /\ run'[w].on = run[w].on /\ run'[w].known = run[w].known
        /\ \A v \in Workers \ {w} : run'[v] = run[v]
        /\ inbox' = inbox /\ overrun' = overrun
    BY <1>6, <2>1, SettlesEffect
  <2>3. \A v \in Workers : run'[v].on = run[v].on /\ run'[v].known = run[v].known
    BY <2>2
  <2> QED BY <2>2, <2>3 DEF Leased
<1>7. ASSUME NEW w \in Workers, Writes(w) PROVE Leased'
  <2>1. PICK e \in Events : run[w].on = {e}
    BY <1>7, HasEntry
  <2>2. /\ run'[w].on = {} /\ run'[w].known \subseteq run[w].known
        /\ \A v \in Workers \ {w} : run'[v] = run[v]
        /\ \A f \in Events \ {e} : inbox'[f] = inbox[f]
        /\ overrun' = overrun
    BY <1>7, <2>1, WritesEffect
  <2>3. \A v \in Workers \ {w} : e \in run[v].on => e \in overrun
    BY <2>1 DEF Leased
  <2> QED BY <2>2, <2>3 DEF Leased
<1>8. ASSUME NEW w \in Workers, NEW e \in Events, Handler(w, e) PROVE Leased'
  BY <1>8, HandlerEffect DEF Leased
<1> QED BY <1>1, <1>2, <1>3, <1>4, <1>5, <1>6, <1>7, <1>8 DEF Moves

(* Every attempt that is written was a round that failed.                  *)
LEMMA NextCounted ==
  TypeOK /\ OneAtATime /\ Counted /\ GivesUpAfterMaxAttempts /\ Moves =>
    Counted' /\ GivesUpAfterMaxAttempts'
<1> SUFFICES ASSUME TypeOK, OneAtATime, Counted, GivesUpAfterMaxAttempts, Moves
             PROVE  Counted' /\ GivesUpAfterMaxAttempts'
  OBVIOUS
<1> /\ \A v \in Workers : run[v].on \subseteq Events /\ run[v].attempts \in Nat
    /\ \A f \in Events : failures[f] \in Nat /\ inbox[f].attempts \in Nat
    /\ MaxAttempts \in Nat
  BY BoundsAssumption DEF TypeOK, Run, Entry
<1>1. ASSUME NEW e \in Events,
             Change(e) \/ Ingest(e) \/ BecomeDue(e) \/ Lapse(e) \/ Overrun(e)
      PROVE  Counted' /\ GivesUpAfterMaxAttempts'
  <2>1. /\ run' = run /\ failures' = failures
        /\ \A f \in Events : inbox'[f].attempts = inbox[f].attempts \/ inbox'[f].attempts = 0
        /\ \A f \in Events \ Malformed :
             inbox'[f].status = "dead" => inbox[f].status = "dead"
    BY <1>1, ChangeEffect, IngestEffect, ClockEffect
  <2> QED BY <2>1 DEF Counted, GivesUpAfterMaxAttempts
<1>2. ASSUME NEW w \in Workers, LetsGo(w) PROVE Counted' /\ GivesUpAfterMaxAttempts'
  BY <1>2, LetsGoEffect DEF Counted, GivesUpAfterMaxAttempts
<1>3. ASSUME NEW w \in Workers, Claim(w) PROVE Counted' /\ GivesUpAfterMaxAttempts'
  <2>1. PICK e \in Events : Claimed(w, e)
    BY <1>3, ClaimEffect
  <2> QED BY <2>1 DEF Counted, GivesUpAfterMaxAttempts, Claimed
<1>4. ASSUME NEW w \in Workers, Settles(w) PROVE Counted' /\ GivesUpAfterMaxAttempts'
  <2>1. PICK e \in Events : run[w].on = {e}
    BY <1>4, HasEntry
  <2>2. /\ run'[w].on = {e} /\ run'[w].attempts = run[w].attempts
        /\ \A v \in Workers \ {w} : run'[v] = run[v]
        /\ \/ run'[w].pc = "mark" /\ failures' = failures
           \/ run'[w].pc = "error" /\ failures' = [failures EXCEPT ![e] = @ + 1]
        /\ inbox' = inbox
    BY <1>4, <2>1, SettlesEffect
  <2>3. /\ \A f \in Events : failures'[f] \in Nat /\ failures'[f] >= failures[f]
        /\ run'[w].pc = "error" => failures'[e] = failures[e] + 1
    BY <2>2 DEF TypeOK
  <2> QED BY <2>1, <2>2, <2>3 DEF Counted, GivesUpAfterMaxAttempts
<1>5. ASSUME NEW w \in Workers, Writes(w) PROVE Counted' /\ GivesUpAfterMaxAttempts'
  <2>1. PICK e \in Events : run[w].on = {e}
    BY <1>5, HasEntry
  <2>2. /\ run'[w].on = {} /\ \A v \in Workers \ {w} : run'[v] = run[v]
        /\ \A f \in Events \ {e} : inbox'[f] = inbox[f]
        /\ \/ inbox'[e].status = "done" /\ inbox'[e].attempts = inbox[e].attempts
           \/ /\ run[w].pc = "error" /\ inbox'[e].attempts = run[w].attempts + 1
              /\ inbox'[e].status = "dead" => run[w].attempts + 1 >= MaxAttempts
        /\ failures' = failures
    BY <1>5, <2>1, WritesEffect
  <2> QED BY <2>1, <2>2 DEF Counted, GivesUpAfterMaxAttempts
<1>6. ASSUME NEW w \in Workers, NEW e \in Events, Handler(w, e) PROVE Counted' /\ GivesUpAfterMaxAttempts'
  BY <1>6, HandlerEffect DEF Counted, GivesUpAfterMaxAttempts
<1> QED BY <1>1, <1>2, <1>3, <1>4, <1>5, <1>6 DEF Moves

-----------------------------------------------------------------------------
(* The inductive invariant holds in every reachable state.                 *)
THEOREM Invariance == Spec => []Inv
<1>1. Init => Inv
  <2> SUFFICES ASSUME Init PROVE Inv
    OBVIOUS
  <2>1. TypeOK
    BY InitType
  <2> QED BY <2>1, BoundsAssumption
          DEF Init, Inv, OneAtATime, Notified, Leased, Counted, Absent, Idle,
              GivesUpAfterMaxAttempts
<1>2. Inv /\ [Next]_vars => Inv'
  <2>1. Inv /\ Next => Inv'
    BY NextMoves, NextType, NextOneAtATime, NextNotified, NextLeased, NextCounted
    DEF Inv
  <2>2. Inv /\ UNCHANGED vars => Inv'
    BY DEF Inv, vars, TypeOK, OneAtATime, Notified, Leased, Counted,
           GivesUpAfterMaxAttempts, external, rounds
  <2> QED BY <2>1, <2>2
<1> QED BY <1>1, <1>2, PTL DEF Spec

(* WebhookInbox!TypeOK, for every value of the constants.                  *)
THEOREM Typed == Spec => []TypeOK
<1>1. Inv => TypeOK
  BY DEF Inv
<1> QED BY <1>1, Invariance, PTL

(* WebhookInbox!GivesUpAfterMaxAttempts, for every MaxAttempts.            *)
THEOREM GivesUp == Spec => []GivesUpAfterMaxAttempts
<1>1. Inv => GivesUpAfterMaxAttempts
  BY DEF Inv
<1> QED BY <1>1, Invariance, PTL

(* WebhookInbox!ExclusiveUnlessOverrun, for any number of instances.       *)
THEOREM Exclusive == Spec => []ExclusiveUnlessOverrun
<1>1. Inv => ExclusiveUnlessOverrun
  BY DEF Inv, Leased, ExclusiveUnlessOverrun
<1> QED BY <1>1, Invariance, PTL

(* WebhookInbox!DoneIsFinal: a worker whose lease did not end under it     *)
(* finds the entry in "processing" when it writes the outcome.             *)
THEOREM Final == Spec => DoneIsFinal
<1> DEFINE Kept == \A e \in Events : inbox[e].status = "done" /\ e \notin overrun =>
                                     inbox'[e].status = "done"
<1>1. Inv /\ Next => Kept
  <2> SUFFICES ASSUME Inv, Moves, NEW f \in Events, inbox[f].status = "done", f \notin overrun
               PROVE  inbox'[f].status = "done"
    BY NextMoves
  <2> TypeOK /\ OneAtATime /\ Leased
    BY DEF Inv
  <2>1. ASSUME NEW e \in Events,
               Change(e) \/ Ingest(e) \/ BecomeDue(e) \/ Lapse(e) \/ Overrun(e)
        PROVE  inbox'[f].status = "done"
    BY <2>1, ChangeEffect, IngestEffect, ClockEffect
  <2>2. ASSUME NEW w \in Workers, LetsGo(w) PROVE inbox'[f].status = "done"
    BY <2>2, LetsGoEffect
  <2>3. ASSUME NEW w \in Workers, Claim(w) PROVE inbox'[f].status = "done"
    <3>1. PICK e \in Events : Claimed(w, e)
      BY <2>3, ClaimEffect
    <3> QED BY <3>1 DEF Claimable, Claimed
  <2>4. ASSUME NEW w \in Workers, Settles(w) \/ Writes(w) PROVE inbox'[f].status = "done"
    <3>1. PICK e \in Events : run[w].on = {e}
      BY <2>4, HasEntry
    <3>2. f # e
      BY <3>1 DEF Leased
    <3> QED BY <2>4, <3>1, <3>2, SettlesEffect, WritesEffect
  <2>5. ASSUME NEW w \in Workers, NEW e \in Events, Handler(w, e)
        PROVE  inbox'[f].status = "done"
    BY <2>5, HandlerEffect
  <2> QED BY <2>1, <2>2, <2>3, <2>4, <2>5 DEF Moves
<1>2. UNCHANGED vars => Kept
  BY DEF vars
<1>3. Inv /\ [Next]_vars => [Kept]_vars
  BY <1>1, <1>2
<1> QED BY <1>3, Invariance, PTL DEF Spec, DoneIsFinal

-----------------------------------------------------------------------------
(* Why a handler is started again.  A round of e that is still to emit its *)
(* command is paid for: the first by nobody, another by a round that       *)
(* failed, died or outlived its lease.                                     *)

\* The workers with such a round: the command is not out, or the round has failed,
\* which pays for the next one.
Credited(e) == {w \in Workers : e \in run[w].on /\ run[w].pc \in {"dispatch", "error"}}
\* A further round may begin of itself.
Open(e) == \/ inbox[e].status \in {"absent", "pending"}
           \/ inbox[e].status = "processing" /\ (inbox[e].lapsed \/ ~Held(e))
Due(e) == IF Open(e) THEN 1 ELSE 0
Mine(w, e) == IF e \in run[w].on /\ run[w].pc \in {"dispatch", "error"} THEN 1 ELSE 0
Paid(e) == /\ IsFiniteSet(Credited(e))
           /\ dispatches[e] + Cardinality(Credited(e)) + Due(e) <= 1 + failures[e] + losses[e]

\* A lease that a run believes to have ended has.
Expired == \A w \in Workers : \A e \in run[w].known \ run[w].on :
             inbox[e].status = "processing" => inbox[e].lapsed

PayInv == Inv /\ Expired /\ \A e \in Events : Paid(e)

\* The steps of w change no other worker's part.
Alone(w) == \A v \in Workers \ {w} : run'[v].on = run[v].on /\ run'[v].pc = run[v].pc

(* One worker's step enters its part of the account, and nothing else.     *)
LEMMA Settled ==
  ASSUME TypeOK, TypeOK', NEW w \in Workers, NEW e \in Events, Alone(w), Paid(e),
         dispatches'[e] + Mine(w, e)' + Due(e)' - failures'[e] - losses'[e]
           <= dispatches[e] + Mine(w, e) + Due(e) - failures[e] - losses[e]
  PROVE  Paid(e)'
<1> DEFINE S == Credited(e)
           T == Credited(e)'
<1>1. IsFiniteSet(S) /\ Cardinality(S) \in Nat
  BY FS_CardinalityType DEF Paid
<1>2. T = IF Mine(w, e)' = 1 THEN S \cup {w} ELSE S \ {w}
  BY DEF Alone, Credited, Mine
<1>3. w \in S <=> Mine(w, e) = 1
  BY DEF Credited, Mine
<1>4. Mine(w, e) \in {0, 1} /\ Mine(w, e)' \in {0, 1} /\ Due(e) \in {0, 1} /\ Due(e)' \in {0, 1}
  BY DEF Mine, Due
<1> HIDE DEF S, T
<1>5. IsFiniteSet(T) /\ Cardinality(T) = Cardinality(S) + Mine(w, e)' - Mine(w, e)
  <2>1. CASE Mine(w, e)' = 1
    BY <1>1, <1>2, <1>3, <1>4, <2>1, FS_AddElement
  <2>2. CASE Mine(w, e)' = 0
    <3>1. T = S \ {w}
      BY <1>2, <2>2
    <3>2. IsFiniteSet(S \ {w})
      BY <1>1, FS_RemoveElement
    <3>3. Cardinality(S \ {w}) = IF w \in S THEN Cardinality(S) - 1 ELSE Cardinality(S)
      BY <1>1, FS_RemoveElement
    <3> QED BY <1>1, <1>3, <1>4, <2>2, <3>1, <3>2, <3>3
  <2> QED BY <1>4, <2>1, <2>2
<1>6. /\ dispatches[e] \in Nat /\ failures[e] \in Nat /\ losses[e] \in Nat
      /\ dispatches'[e] \in Nat /\ failures'[e] \in Nat /\ losses'[e] \in Nat
  BY DEF TypeOK
<1>7. dispatches[e] + Cardinality(S) + Due(e) <= 1 + failures[e] + losses[e]
  BY DEF Paid, S
<1>8. dispatches'[e] + Cardinality(T) + Due(e)' <= 1 + failures'[e] + losses'[e]
  BY <1>1, <1>4, <1>5, <1>6, <1>7
<1> QED BY <1>5, <1>8 DEF Paid, T

(* An event that w's step is not about stays as it is.                     *)
LEMMA Untouched ==
  ASSUME TypeOK, TypeOK', NEW w \in Workers, NEW f \in Events, Alone(w), Paid(f),
         f \notin run[w].on, f \notin run'[w].on, inbox'[f] = inbox[f],
         dispatches'[f] = dispatches[f], failures'[f] = failures[f], losses'[f] = losses[f]
  PROVE  Paid(f)'
<1>1. Mine(w, f) = 0 /\ Mine(w, f)' = 0
  BY DEF Mine
<1>2. Held(f)' <=> Held(f)
  BY DEF Held, Alone
<1>3. Due(f)' = Due(f) /\ Due(f) \in {0, 1}
  BY <1>2 DEF Due, Open
<1>4. dispatches[f] \in Nat /\ failures[f] \in Nat /\ losses[f] \in Nat
  BY DEF TypeOK
<1> QED BY <1>1, <1>3, <1>4, Settled

(* A step that leaves the runs alone, and opens no event without paying.   *)
LEMMA Unmoved ==
  ASSUME TypeOK, TypeOK', NEW f \in Events, run' = run, Paid(f),
         dispatches'[f] = dispatches[f], failures'[f] = failures[f],
         \/ losses'[f] = losses[f] /\ (Open(f)' => Open(f))
         \/ losses'[f] = losses[f] + 1
  PROVE  Paid(f)'
<1>1. Credited(f)' = Credited(f)
  BY DEF Credited
<1>2. Cardinality(Credited(f)) \in Nat
  BY FS_CardinalityType DEF Paid
<1>3. dispatches[f] \in Nat /\ failures[f] \in Nat /\ losses[f] \in Nat
  BY DEF TypeOK
<1>4. Due(f) \in {0, 1} /\ Due(f)' \in {0, 1} /\ (losses'[f] = losses[f] => Due(f)' <= Due(f))
  BY <1>3 DEF Due
<1> DEFINE n == Cardinality(Credited(f))
<1>5. dispatches[f] + n + Due(f) <= 1 + failures[f] + losses[f]
  BY DEF Paid
<1> HIDE DEF n
<1>6. dispatches'[f] + n + Due(f)' <= 1 + failures'[f] + losses'[f]
  BY <1>2, <1>3, <1>4, <1>5 DEF n
<1> QED BY <1>1, <1>6 DEF Paid, n

(* A run that goes on with its candidates has no stale lease of its own    *)
(* entry left.                                                             *)
LEMMA RestKnown ==
  ASSUME TypeOK, NEW w \in Workers, NEW e \in Events
  PROVE  Rest(w, e).known \subseteq run[w].known \ {e}
<1> DEFINE todo == run[w].todo \ {e}
<1>1. CASE todo = {}
  BY <1>1 DEF Rest, Idle
<1>2. CASE todo # {}
  BY <1>2 DEF Rest, Idle
<1> QED BY <1>1, <1>2

(* So with a run that writes an outcome.                                   *)
LEMMA WritesKnown ==
  ASSUME TypeOK, NEW w \in Workers, NEW e \in Events, run[w].on = {e}, Writes(w)
  PROVE  run'[w].known \subseteq run[w].known \ {e}
<1>1. run' = [run EXCEPT ![w] = Rest(w, e)]
  BY DEF Writes, MarkDone, Retry
<1> QED BY <1>1, RestKnown DEF TypeOK

(* And with one that lets go of what it has.                               *)
LEMMA ReleasesKnown ==
  ASSUME TypeOK, OneAtATime, NEW w \in Workers, LetsGo(w)
  PROVE  run'[w].known \subseteq Lapsed \cup (run[w].known \ run[w].on)
<1>1. CASE Find(w) \/ ClaimLost(w)
  <2>1. run[w].on = {}
    BY <1>1 DEF OneAtATime, Find, ClaimLost
  <2> QED BY <2>1, LetsGoEffect
<1>2. CASE RetryFails(w) \/ Crash(w)
  BY <1>2, IdleType DEF TypeOK, RetryFails, Crash
<1> QED BY <1>1, <1>2 DEF LetsGo

(* A run's stale leases are those that had ended when it began.            *)
LEMMA NextExpired == Inv /\ Expired /\ Moves => Expired'
<1> SUFFICES ASSUME Inv, Expired, Moves PROVE Expired'
  OBVIOUS
<1> TypeOK /\ OneAtATime
  BY DEF Inv
<1> \A v \in Workers : run[v].known \subseteq Events
  BY DEF TypeOK, Run
<1>1. ASSUME NEW e \in Events, Change(e) \/ Ingest(e) PROVE Expired'
  BY <1>1, ChangeEffect, IngestEffect DEF Expired
<1>2. ASSUME NEW e \in Events, BecomeDue(e) \/ Lapse(e) \/ Overrun(e) PROVE Expired'
  <2>1. inbox[e] \in Entry /\ inbox \in [Events -> Entry] /\ run' = run
    BY <1>2, ClockEffect DEF TypeOK
  <2>2. inbox'[e].status = inbox[e].status /\ (inbox[e].lapsed => inbox'[e].lapsed)
    <3>1. CASE BecomeDue(e)
      BY <2>1, <3>1 DEF BecomeDue, Entry
    <3>2. CASE Lapse(e) \/ Overrun(e)
      BY <2>1, <3>2 DEF Lapse, Overrun, Entry
    <3> QED BY <1>2, <3>1, <3>2
  <2>3. \A f \in Events \ {e} : inbox'[f] = inbox[f]
    BY <1>2, ClockEffect
  <2> QED BY <2>1, <2>2, <2>3 DEF Expired
<1>3. ASSUME NEW w \in Workers, LetsGo(w) PROVE Expired'
  <2>1. \A f \in Lapsed : inbox[f].lapsed
    BY DEF Lapsed
  <2>2. /\ run'[w].known \subseteq run[w].known \cup Lapsed
        /\ \A v \in Workers \ {w} : run'[v] = run[v]
        /\ inbox' = inbox
    BY <1>3, LetsGoEffect
  <2>3. run'[w].known \subseteq Lapsed \cup (run[w].known \ run[w].on)
    BY <1>3, ReleasesKnown
  <2> QED BY <2>1, <2>2, <2>3 DEF Expired
<1>4. ASSUME NEW w \in Workers, Claim(w) PROVE Expired'
  <2>1. PICK e \in Events : Claimed(w, e)
    BY <1>4, ClaimEffect
  <2>2. run[w].on = {}
    BY <1>4, ClaimEffect DEF OneAtATime
  <2> QED BY <2>1, <2>2 DEF Expired, Claimed
<1>5. ASSUME NEW w \in Workers, Settles(w) PROVE Expired'
  <2>1. PICK e \in Events : run[w].on = {e}
    BY <1>5, HasEntry
  <2> QED BY <1>5, <2>1, SettlesEffect DEF Expired
<1>6. ASSUME NEW w \in Workers, Writes(w) PROVE Expired'
  <2>1. PICK e \in Events : run[w].on = {e}
    BY <1>6, HasEntry
  <2>2. /\ run'[w].known \subseteq run[w].known \ {e}
        /\ \A v \in Workers \ {w} : run'[v] = run[v]
        /\ \A f \in Events \ {e} : inbox'[f] = inbox[f]
        /\ inbox'[e].status # "processing"
    BY <1>6, <2>1, WritesEffect, WritesKnown
  <2> QED BY <2>1, <2>2 DEF Expired
<1>7. ASSUME NEW w \in Workers, NEW e \in Events, Handler(w, e) PROVE Expired'
  BY <1>7, HandlerEffect DEF Expired
<1> QED BY <1>1, <1>2, <1>3, <1>4, <1>5, <1>6, <1>7 DEF Moves

(* Every step keeps the account of every event.                            *)
LEMMA NextPaid == PayInv /\ TypeOK' /\ Moves => \A f \in Events : Paid(f)'
<1> SUFFICES ASSUME PayInv, TypeOK', Moves, NEW f \in Events PROVE Paid(f)'
  OBVIOUS
<1> TypeOK /\ OneAtATime /\ Expired /\ Paid(f)
  BY DEF PayInv, Inv
<1> \A e \in Events : dispatches[e] \in Nat /\ failures[e] \in Nat /\ losses[e] \in Nat
  BY DEF TypeOK
<1> \A w \in Workers : Mine(w, f) \in {0, 1} /\ Mine(w, f)' \in {0, 1}
  BY DEF Mine
<1> Due(f) \in {0, 1} /\ Due(f)' \in {0, 1}
  BY DEF Due
<1>1. ASSUME NEW e \in Events, Change(e) PROVE Paid(f)'
  <2>1. /\ run' = run /\ inbox' = inbox /\ dispatches' = dispatches
        /\ failures' = failures /\ losses' = losses
    BY <1>1 DEF Change, rounds
  <2>2. Open(f)' => Open(f)
    BY <2>1 DEF Open, Held
  <2> QED BY <2>1, <2>2, Unmoved
<1>2. ASSUME NEW e \in Events, Ingest(e) PROVE Paid(f)'
  <2>1. /\ run' = run /\ dispatches' = dispatches /\ failures' = failures
        /\ losses' = losses
    BY <1>2 DEF Ingest, rounds
  <2>2. inbox'[f] = inbox[f] \/ inbox[f].status = "absent"
    BY <1>2, IngestEffect
  <2>3. Open(f)' => Open(f)
    BY <2>1, <2>2 DEF Open, Held
  <2> QED BY <2>1, <2>3, Unmoved
<1>3. ASSUME NEW e \in Events, BecomeDue(e) \/ Lapse(e) PROVE Paid(f)'
  <2>1. /\ run' = run /\ dispatches' = dispatches /\ failures' = failures
        /\ losses' = losses
    BY <1>3 DEF BecomeDue, Lapse, rounds
  <2>2. inbox'[f].status = inbox[f].status /\ (f # e => inbox'[f] = inbox[f])
    BY <1>3, ClockEffect
  <2>3. Open(f)' => Open(f)
    <3>1. CASE f # e
      BY <2>1, <2>2, <3>1 DEF Open, Held
    <3>2. CASE f = e /\ BecomeDue(e)
      BY <2>1, <2>2, <3>2 DEF Open, Held, BecomeDue
    <3>3. CASE f = e /\ Lapse(e)
      BY <3>3 DEF Open, Lapse
    <3> QED BY <1>3, <3>1, <3>2, <3>3
  <2> QED BY <2>1, <2>3, Unmoved
<1>4. ASSUME NEW e \in Events, Overrun(e) PROVE Paid(f)'
  <2>1. /\ run' = run /\ dispatches' = dispatches /\ failures' = failures
        /\ losses' = [losses EXCEPT ![e] = @ + 1]
    BY <1>4 DEF Overrun
  <2>2. CASE f = e
    BY <2>1, <2>2, Unmoved DEF TypeOK
  <2>3. CASE f # e
    <3>1. inbox'[f] = inbox[f] /\ losses'[f] = losses[f]
      BY <1>4, <2>1, <2>3, ClockEffect DEF TypeOK
    <3>2. Open(f)' => Open(f)
      BY <2>1, <3>1 DEF Open, Held
    <3> QED BY <2>1, <3>1, <3>2, Unmoved
  <2> QED BY <2>2, <2>3
<1>5. ASSUME NEW w \in Workers, Find(w) \/ ClaimLost(w) PROVE Paid(f)'
  <2>1. /\ inbox' = inbox /\ dispatches' = dispatches /\ failures' = failures
        /\ losses' = losses
    BY <1>5 DEF Find, ClaimLost, rounds
  <2>2. run[w].on = {}
    BY <1>5 DEF OneAtATime, Find, ClaimLost
  <2>3. run'[w].on = {} /\ Alone(w)
    BY <1>5, LetsGoEffect DEF LetsGo, Alone
  <2> QED BY <2>1, <2>2, <2>3, Untouched
<1>6. ASSUME NEW w \in Workers, RetryFails(w) PROVE Paid(f)'
  <2>1. /\ inbox' = inbox /\ dispatches' = dispatches /\ failures' = failures
        /\ losses' = losses /\ run[w].pc = "error"
    BY <1>6 DEF RetryFails, rounds
  <2>2. run'[w].on = {} /\ Alone(w)
    BY <1>6, LetsGoEffect DEF LetsGo, Alone
  <2>3. CASE f \in run[w].on
    <3>1. Mine(w, f) = 1 /\ Mine(w, f)' = 0
      BY <2>1, <2>2, <2>3 DEF Mine
    <3> QED BY <2>1, <2>2, <3>1, Settled
  <2>4. CASE f \notin run[w].on
    BY <2>1, <2>2, <2>4, Untouched
  <2> QED BY <2>3, <2>4
<1>7. ASSUME NEW w \in Workers, Crash(w) PROVE Paid(f)'
  <2>1. /\ inbox' = inbox /\ dispatches' = dispatches /\ failures' = failures
        /\ losses'[f] = IF f \in run[w].on THEN losses[f] + 1 ELSE losses[f]
    BY <1>7 DEF Crash
  <2>2. run'[w].on = {} /\ Alone(w)
    BY <1>7, LetsGoEffect DEF LetsGo, Alone
  <2>3. CASE f \in run[w].on
    <3>1. Mine(w, f)' = 0
      BY <2>2 DEF Mine
    <3> QED BY <2>1, <2>2, <2>3, <3>1, Settled
  <2>4. CASE f \notin run[w].on
    BY <2>1, <2>2, <2>4, Untouched
  <2> QED BY <2>3, <2>4
<1>8. ASSUME NEW w \in Workers, Claim(w) PROVE Paid(f)'
  <2>1. PICK e \in Events : Claimed(w, e)
    BY <1>8, ClaimEffect
  <2>2. run[w].on = {} /\ losses' = losses
    BY <1>8, ClaimEffect DEF OneAtATime, Claim, rounds
  <2>3. /\ Alone(w) /\ dispatches' = dispatches /\ failures' = failures
        /\ run'[w].on = {e}
    BY <2>1 DEF Claimed, Alone
  <2>4. CASE f = e
    <3>1. Mine(w, f) = 0 /\ Due(f)' = 0
      BY <2>1, <2>2, <2>3, <2>4 DEF Mine, Due, Open, Held, Claimed
    <3>2. Due(f) = 1
      BY <2>1, <2>2, <2>4 DEF Due, Open, Claimed, Claimable, Expired
    <3> QED BY <2>2, <2>3, <3>1, <3>2, Settled
  <2>5. CASE f # e
    BY <2>1, <2>2, <2>3, <2>5, Untouched DEF Claimed
  <2> QED BY <2>4, <2>5
<1>9. ASSUME NEW w \in Workers, Settles(w) PROVE Paid(f)'
  <2>1. PICK e \in Events : run[w].on = {e}
    BY <1>9, HasEntry
  <2>2. /\ run'[w].on = {e} /\ Alone(w) /\ inbox' = inbox /\ losses' = losses
        /\ \/ /\ run[w].pc = "dispatch" /\ run'[w].pc = "mark"
              /\ dispatches' = [dispatches EXCEPT ![e] = @ + 1] /\ failures' = failures
           \/ /\ run[w].pc = "mark" /\ run'[w].pc = "error"
              /\ dispatches' = dispatches /\ failures' = [failures EXCEPT ![e] = @ + 1]
    BY <1>9, <2>1, SettlesEffect DEF Alone
  <2>3. Due(f)' = Due(f)
    BY <2>1, <2>2 DEF Due, Open, Held, Alone
  <2>4. CASE f = e /\ run[w].pc = "dispatch"
    <3>1. Mine(w, f) = 1 /\ Mine(w, f)' = 0
      BY <2>1, <2>2, <2>4 DEF Mine
    <3>2. dispatches'[f] = dispatches[f] + 1 /\ failures'[f] = failures[f]
      BY <2>2, <2>4 DEF TypeOK
    <3> QED BY <2>2, <2>3, <3>1, <3>2, Settled
  <2>5. CASE f = e /\ run[w].pc = "mark"
    <3>1. Mine(w, f) = 0 /\ Mine(w, f)' = 1
      BY <2>1, <2>2, <2>5 DEF Mine
    <3>2. dispatches'[f] = dispatches[f] /\ failures'[f] = failures[f] + 1
      BY <2>2, <2>5 DEF TypeOK
    <3> QED BY <2>2, <2>3, <3>1, <3>2, Settled
  <2>6. CASE f # e
    <3>1. dispatches'[f] = dispatches[f] /\ failures'[f] = failures[f]
      BY <2>2, <2>6 DEF TypeOK
    <3> QED BY <2>1, <2>2, <2>6, <3>1, Untouched
  <2> QED BY <2>2, <2>4, <2>5, <2>6
<1>10. ASSUME NEW w \in Workers, Writes(w) PROVE Paid(f)'
  <2>1. PICK e \in Events : run[w].on = {e}
    BY <1>10, HasEntry
  <2>2. /\ run'[w].on = {} /\ Alone(w) /\ dispatches' = dispatches /\ failures' = failures
        /\ \A g \in Events \ {e} : inbox'[g] = inbox[g]
        /\ run[w].pc = "error" \/ inbox'[e].status = "done"
    BY <1>10, <2>1, WritesEffect DEF Alone
  <2>3. losses' = losses
    BY <1>10 DEF Writes, MarkDone, Retry, rounds
  <2>4. CASE f = e /\ run[w].pc = "error"
    <3>1. Mine(w, f) = 1 /\ Mine(w, f)' = 0
      BY <2>1, <2>2, <2>4 DEF Mine
    <3> QED BY <2>2, <2>3, <3>1, Settled
  <2>5. CASE f = e /\ inbox'[e].status = "done"
    <3>1. Due(f)' = 0 /\ Mine(w, f)' = 0
      BY <2>2, <2>5 DEF Due, Open, Mine
    <3> QED BY <2>2, <2>3, <3>1, Settled
  <2>6. CASE f # e
    BY <2>1, <2>2, <2>3, <2>6, Untouched
  <2> QED BY <2>2, <2>4, <2>5, <2>6
<1>11. ASSUME NEW w \in Workers, NEW e \in Events, Handler(w, e) PROVE Paid(f)'
  <2>1. /\ run' = run /\ inbox' = inbox /\ dispatches' = dispatches
        /\ failures' = failures /\ losses' = losses
    BY <1>11, HandlerEffect
  <2>2. Open(f)' => Open(f)
    BY <2>1 DEF Open, Held
  <2> QED BY <2>1, <2>2, Unmoved
<1> QED BY <1>1, <1>2, <1>3, <1>4, <1>5, <1>6, <1>7, <1>8, <1>9, <1>10, <1>11
        DEF Moves, LetsGo

(* WebhookInbox!DispatchedAgainForAReason, for any number of instances:    *)
(* the account is balanced, and the rounds under way only count against    *)
(* the dispatches.                                                         *)
THEOREM AgainForAReason == Spec => []DispatchedAgainForAReason
<1>1. Init => Expired /\ \A e \in Events : Paid(e)
  <2> SUFFICES ASSUME Init PROVE Expired /\ \A e \in Events : Paid(e)
    OBVIOUS
  <2>1. Expired
    BY DEF Init, Expired, Idle
  <2>2. ASSUME NEW e \in Events PROVE Paid(e)
    <3>1. Credited(e) = {}
      BY DEF Init, Credited, Idle
    <3>2. dispatches[e] = 0 /\ failures[e] = 0 /\ losses[e] = 0
      BY DEF Init
    <3> QED BY <3>1, <3>2, FS_EmptySet DEF Paid, Due
  <2> QED BY <2>1, <2>2
<1>2. Inv /\ Inv' /\ (Expired /\ \A e \in Events : Paid(e)) /\ [Next]_vars
        => (Expired /\ \A e \in Events : Paid(e))'
  <2>1. Inv /\ Inv' /\ Expired /\ (\A e \in Events : Paid(e)) /\ Next
          => Expired' /\ \A e \in Events : Paid(e)'
    BY NextMoves, NextExpired, NextPaid DEF PayInv, Inv
  <2>2. UNCHANGED vars /\ Expired /\ (\A e \in Events : Paid(e))
          => Expired' /\ \A e \in Events : Paid(e)'
    BY DEF vars, rounds, Expired, Paid, Credited, Due, Open, Held
  <2> QED BY <2>1, <2>2
<1>3. Inv /\ (\A e \in Events : Paid(e)) => DispatchedAgainForAReason
  <2> SUFFICES ASSUME Inv, NEW e \in Events, Paid(e)
               PROVE  dispatches[e] <= 1 + failures[e] + losses[e]
    BY DEF DispatchedAgainForAReason
  <2>1. Cardinality(Credited(e)) \in Nat /\ Due(e) \in {0, 1}
    BY FS_CardinalityType DEF Paid, Due
  <2>2. dispatches[e] \in Nat /\ failures[e] \in Nat /\ losses[e] \in Nat
    BY DEF Inv, TypeOK
  <2> QED BY <2>1, <2>2 DEF Paid
<1> QED BY <1>1, <1>2, <1>3, Invariance, PTL DEF Spec

-----------------------------------------------------------------------------
(* Entries that look the same are in the same state.                       *)
LEMMA BarSame ==
  ASSUME NEW f \in Events, dispatches'[f] = dispatches[f],
         inbox'[f].status = inbox[f].status
  PROVE  stateBar'[f] = stateBar[f]
  BY DEF stateBar, Fate, Emitted

(* A step that changes the outside state of no event is a stutter.         *)
LEMMA BarStutter ==
  ASSUME \A f \in Events : stateBar'[f] = stateBar[f]
  PROVE  stateBar' = stateBar
  BY DEF stateBar

(* A step that moves one event on is a step of the promise.                *)
LEMMA BarStep ==
  ASSUME NEW e \in Events, \A f \in Events \ {e} : stateBar'[f] = stateBar[f],
         \/ stateBar'[e] = stateBar[e]
         \/ stateBar[e] = "none" /\ stateBar'[e] = "owed"
         \/ stateBar[e] \in {"owed", "given_up"} /\ stateBar'[e] = "sent"
         \/ stateBar[e] = "owed" /\ stateBar'[e] = "given_up"
         \/ stateBar[e] = "given_up" /\ stateBar'[e] = "owed"
  PROVE  [Promise!Next]_stateBar
<1>1. stateBar' = [stateBar EXCEPT ![e] = stateBar'[e]]
  BY ZenonT(60) DEF stateBar
<1>2. CASE stateBar'[e] = stateBar[e]
  BY <1>2, BarStutter
<1>3. CASE stateBar[e] = "none" /\ stateBar'[e] = "owed"
  BY <1>1, <1>3 DEF Promise!Next, Promise!Accept
<1>4. CASE stateBar[e] \in {"owed", "given_up"} /\ stateBar'[e] = "sent"
  BY <1>1, <1>4 DEF Promise!Next, Promise!Send
<1>5. CASE stateBar[e] = "owed" /\ stateBar'[e] = "given_up"
  BY <1>1, <1>5 DEF Promise!Next, Promise!GiveUp
<1>6. CASE stateBar[e] = "given_up" /\ stateBar'[e] = "owed"
  BY <1>1, <1>6 DEF Promise!Next, Promise!Resume
<1> QED BY <1>2, <1>3, <1>4, <1>5, <1>6

(* Every step of the inbox is a step of the promise or does not show.      *)
LEMMA StepImplements == Inv /\ Moves => [Promise!Next]_stateBar
<1> SUFFICES ASSUME Inv, Moves PROVE [Promise!Next]_stateBar
  OBVIOUS
<1> TypeOK /\ OneAtATime /\ Notified
  BY DEF Inv
<1>1. ASSUME NEW e \in Events, Change(e) PROVE [Promise!Next]_stateBar
  BY <1>1, ChangeEffect, BarSame, BarStutter
<1>2. ASSUME NEW e \in Events, Ingest(e) PROVE [Promise!Next]_stateBar
  <2>1. dispatches' = dispatches /\ \A f \in Events \ {e} : inbox'[f] = inbox[f]
    BY <1>2, IngestEffect
  <2>2. CASE inbox[e].status # "absent"
    BY <1>2, <2>1, <2>2, IngestEffect, BarSame, BarStutter
  <2>3. CASE inbox[e].status = "absent"
    <3>1. inbox'[e].status = IF e \in Malformed THEN "dead" ELSE "pending"
      BY <1>2, <2>3, IngestEffect
    <3>2. \/ stateBar'[e] = stateBar[e]
          \/ stateBar[e] = "none" /\ stateBar'[e] = "owed"
      <4>1. CASE Emitted(e)
        <5>1. stateBar[e] = "sent"
          BY <4>1 DEF stateBar, Fate, Emitted
        <5>2. stateBar'[e] = "sent"
          BY <2>1, <4>1 DEF stateBar, Fate, Emitted
        <5> QED BY <5>1, <5>2
      <4>2. CASE e \in Malformed /\ ~Emitted(e)
        <5>1. stateBar[e] = "none"
          BY <4>2 DEF stateBar, Fate, Emitted
        <5>2. stateBar'[e] = "none"
          BY <2>1, <4>2 DEF stateBar, Fate, Emitted
        <5> QED BY <5>1, <5>2
      <4>3. CASE e \notin Malformed /\ ~Emitted(e)
        BY <2>1, <2>3, <3>1, <4>3 DEF stateBar, Fate, Emitted
      <4> QED BY <4>1, <4>2, <4>3
    <3> QED BY <2>1, <3>2, BarSame, BarStep
  <2> QED BY <2>2, <2>3
<1>3. ASSUME NEW e \in Events, BecomeDue(e) \/ Lapse(e) \/ Overrun(e)
      PROVE  [Promise!Next]_stateBar
  BY <1>3, ClockEffect, BarSame, BarStutter
<1>4. ASSUME NEW w \in Workers, LetsGo(w) PROVE [Promise!Next]_stateBar
  BY <1>4, LetsGoEffect, BarSame, BarStutter
<1>5. ASSUME NEW w \in Workers, Claim(w) PROVE [Promise!Next]_stateBar
  <2>1. PICK e \in Events : Claimed(w, e)
    BY <1>5, ClaimEffect
  <2>2. dispatches' = dispatches
    BY <2>1 DEF Claimed
  <2>3. inbox[e].status \in {"pending", "processing"}
    BY <2>1 DEF Claimed, Claimable
  <2>4. stateBar'[e] = stateBar[e]
    BY <2>1, <2>2, <2>3 DEF Claimed, stateBar, Fate, Emitted
  <2> QED BY <2>1, <2>2, <2>4, BarSame, BarStutter DEF Claimed
<1>6. ASSUME NEW w \in Workers, Settles(w) PROVE [Promise!Next]_stateBar
  <2>1. PICK e \in Events : run[w].on = {e}
    BY <1>6, HasEntry
  <2>2. /\ \/ dispatches' = dispatches
           \/ dispatches' = [dispatches EXCEPT ![e] = @ + 1]
        /\ inbox' = inbox
    BY <1>6, <2>1, SettlesEffect
  <2>3. e \notin Malformed /\ inbox[e].status # "absent"
    BY <2>1 DEF Notified
  <2>4. \/ stateBar'[e] = stateBar[e]
        \/ stateBar[e] \in {"owed", "given_up"} /\ stateBar'[e] = "sent"
    <3>1. dispatches[e] \in Nat /\ dispatches'[e] \in {dispatches[e], dispatches[e] + 1}
      BY <2>2 DEF TypeOK
    <3>2. CASE dispatches'[e] = dispatches[e]
      BY <2>2, <3>2, BarSame
    <3>3. CASE dispatches'[e] = dispatches[e] + 1
      <4>1. dispatches'[e] > 0 /\ (dispatches[e] > 0 \/ dispatches[e] = 0)
        BY <3>1, <3>3
      <4>2. stateBar'[e] = "sent"
        BY <4>1 DEF stateBar, Fate, Emitted
      <4> QED BY <2>3, <4>1, <4>2 DEF stateBar, Fate, Emitted
    <3> QED BY <3>1, <3>2, <3>3
  <2>5. \A f \in Events \ {e} : stateBar'[f] = stateBar[f]
    BY <2>2, BarSame DEF TypeOK
  <2> QED BY <2>4, <2>5, BarStep
<1>7. ASSUME NEW w \in Workers, Writes(w) PROVE [Promise!Next]_stateBar
  <2>1. PICK e \in Events : run[w].on = {e}
    BY <1>7, HasEntry
  <2>2. /\ dispatches' = dispatches /\ inbox'[e].status \in {"done", "pending", "dead"}
        /\ \A f \in Events \ {e} : inbox'[f] = inbox[f]
        /\ inbox'[e].status = "done" => run[w].pc = "mark"
    BY <1>7, <2>1, WritesEffect
  <2>3. e \notin Malformed /\ inbox[e].status # "absent"
    BY <2>1 DEF Notified
  <2>4. \/ stateBar'[e] = stateBar[e]
        \/ stateBar[e] = "owed" /\ stateBar'[e] = "given_up"
        \/ stateBar[e] = "given_up" /\ stateBar'[e] = "owed"
    BY <2>2, <2>3 DEF stateBar, Fate, Emitted
  <2>5. \A f \in Events \ {e} : stateBar'[f] = stateBar[f]
    BY <2>2, BarSame
  <2> QED BY <2>4, <2>5, BarStep
<1>8. ASSUME NEW w \in Workers, NEW e \in Events, Handler(w, e)
      PROVE  [Promise!Next]_stateBar
  BY <1>8, HandlerEffect, BarSame, BarStutter
<1> QED BY <1>1, <1>2, <1>3, <1>4, <1>5, <1>6, <1>7, <1>8 DEF Moves

(* The inbox implements the safety part of the promise: an event is        *)
(* answered only after it was accepted, and an answer is never undone.     *)
THEOREM Implements == Spec => Promise!SafeSpec
<1>1. Init => Promise!Init
  BY DEF Init, Promise!Init, stateBar, Fate, Emitted, Absent
<1>2. Inv /\ [Next]_vars => [Promise!Next]_stateBar
  <2>1. UNCHANGED vars => UNCHANGED stateBar
    BY DEF vars, rounds, stateBar, Fate, Emitted
  <2> QED BY <2>1, NextMoves, StepImplements
<1> QED BY <1>1, <1>2, Invariance, PTL DEF Spec, Promise!SafeSpec
=============================================================================
