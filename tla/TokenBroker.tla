----------------------------- MODULE TokenBroker -----------------------------
(***************************************************************************)
(* The OAuth tokens of one marketplace: src/src/marketplace/auth.          *)
(*                                                                         *)
(* The document of the marketplace holds the accounts in an array, each    *)
(* with its token, and the account that publishes.  Requests that need a   *)
(* token read it there and refresh it when it is close to its end, one     *)
(* refresh per account and process (refreshLocks); a timer per token       *)
(* refreshes idle accounts.  Consents, profile updates and the             *)
(* administration of accounts write the same array: a token is written     *)
(* alone, the array as a whole.                                            *)
(*                                                                         *)
(* A token is the account it was granted to and the number of the grant;   *)
(* some come without expiresAt, some without a refreshToken.  Whether one  *)
(* with expiresAt is close to it when it is looked at is left open, and so *)
(* is whether the marketplace is enabled when a process starts.            *)
(* A step ends where the code waits for the database or the marketplace; a *)
(* write and what follows its acknowledgement are one step.                *)
(* A definition marked "fault" is the one below it with a plausible bug.   *)
(***************************************************************************)
EXTENDS Integers, FiniteSets

CONSTANTS
    Accounts,     \* ids of accounts: numbers, in the order of the array (the default first)
    None,
    Instances,    \* processes of the backend
    Calls,        \* concurrent calls, each in any instance
    Untimed,      \* tokens granted without expiresAt
    Unrenewable,  \* tokens granted without a refreshToken
    MaxGrants,    \* bound: grants per account
    MaxEvents     \* bound: consents, profile updates, administrative requests, crashes,
                  \* lost replies and failed writes

ASSUME AccountsAssumption == Accounts \subseteq Nat /\ None \notin Accounts
ASSUME InstancesAssumption == Instances # {}
ASSUME BoundsAssumption == MaxGrants \in Nat \ {0} /\ MaxEvents \in Nat

VARIABLES
    doc,          \* the marketplace document: accounts, tokens and active account
    grants,       \* at the marketplace: how many tokens it has granted to each account
    timers,       \* of each instance: the accounts that have a refresh timer
    booting,      \* instances that have not loaded their timers
    calls,
    events,
    gone,         \* history: deleted accounts
    contested,    \* history: accounts that two calls held at a time without a common lock
                  \* (Overlaps: refreshes in two processes among them), that a consent
                  \* was redirected from or to, or whose new token was not saved as it
                  \* was granted (ReplyLost, SaveFails, Crash)
    unattended    \* history: accounts whose last timed refresh or whose saving failed,
                  \* whose old token was written back, or which no process timed when
                  \* one started without setting timers (Boot)

history == <<gone, contested, unattended>>
vars == <<doc, grants, timers, booting, calls, events, history>>

Token == [of : Accounts, no : 1 .. MaxGrants]
NoToken == [of |-> None, no |-> 0]
Tokens == Token \cup {NoToken}
Ref == [acct : Accounts \cup {None}, tok : Tokens]
NoRef == [acct |-> None, tok |-> NoToken]
Document == [accounts : SUBSET Accounts, token : [Accounts -> Tokens],
             active : Accounts \cup {None}]
NoDocument == [accounts |-> {}, token |-> [a \in Accounts |-> NoToken], active |-> None]

Admin == {"register", "delete"}              \* they write the whole array
Refreshing == {"token", "force", "timer"}
Kinds == Refreshing \cup Admin \cup {"activate", "callback", "consent", "profile"}

Call == [pc : {"idle", "resolve", "refresh", "wait", "exchange", "redirect",
               "save", "reread"},
         kind : Kinds, at : Instances \cup {None},
         asked : Accounts \cup {None},        \* None: the account that publishes
         ref : Ref,                           \* the account as it was resolved; the answer
                                              \* when the call has ended
         cur : Ref,                           \* the account being refreshed or authorised
         hand : Tokens,                       \* the token to be written
         copy : Document,                     \* the document as it was read
         stale : BOOLEAN,                     \* __v has changed since
         chosen : SUBSET (Accounts \cup {None})]   \* history: what was to publish meanwhile
Idle == [pc |-> "idle", kind |-> "token", at |-> None, asked |-> None, ref |-> NoRef,
         cur |-> NoRef, hand |-> NoToken, copy |-> NoDocument, stale |-> FALSE,
         chosen |-> {}]

Authorised(d) == {a \in d.accounts : d.token[a] # NoToken}
Selected(d) == IF d.active \in d.accounts THEN d.active ELSE None

Renewable(tok) == tok \notin Unrenewable \cup {NoToken}
Schedulable(d) == {a \in d.accounts : Renewable(d.token[a]) /\ d.token[a] \notin Untimed}

\* Some accounts, all authorised; every instance has loaded its timers.
Init ==
    /\ \E A \in SUBSET Accounts, a \in Accounts \cup {None} :
         /\ a \in A \cup {None}
         /\ doc = [accounts |-> A, active |-> a,
                   token |-> [b \in Accounts |-> IF b \in A THEN [of |-> b, no |-> 1]
                                                 ELSE NoToken]]
    /\ grants = [a \in Accounts |-> IF a \in doc.accounts THEN 1 ELSE 0]
    /\ timers = [i \in Instances |-> Schedulable(doc)]
    /\ booting = {}
    /\ calls = [k \in Calls |-> Idle]
    /\ events = 0
    /\ gone = {} /\ contested = {} /\ unattended = {}

Event == events < MaxEvents /\ events' = events + 1

-----------------------------------------------------------------------------
(* Reading the document.                                                   *)

First(A) == CHOOSE a \in A : \A b \in A : a <= b

\* accountFor: the active account, or the default or first one.
AccountFor ==
    IF Selected(doc) # None \/ doc.accounts = {} THEN Selected(doc) ELSE First(doc.accounts)

LookupAnyway(asked) == IF asked \in doc.accounts THEN asked ELSE AccountFor     \* fault
Lookup(asked) ==
    IF asked = None THEN AccountFor ELSE IF asked \in doc.accounts THEN asked ELSE None

RefOf(a) == IF a = None THEN NoRef ELSE [acct |-> a, tok |-> doc.token[a]]

-----------------------------------------------------------------------------
(* Who writes which account.                                               *)

LockKey(c) == IF c.kind = "timer" THEN c.asked ELSE c.ref.acct
InRefresh(c) == c.kind \in Refreshing /\ c.pc \in {"exchange", "save"}
LockedNever(i, key) == FALSE                                                  \* fault
Locked(i, key) == \E l \in Calls : InRefresh(calls[l]) /\ calls[l].at = i /\ LockKey(calls[l]) = key

\* The call has read a token of the account, or has got a new one, and will write it.
Holds(c, a) ==
    \/ InRefresh(c) /\ c.cur.acct = a
    \/ c.kind \in {"profile", "callback", "consent"} /\ c.pc \in {"redirect", "save"} /\ c.cur.acct = a
    \/ c.kind \in Admin /\ c.pc = "save"

\* The accounts of A that others hold when k takes them, without a lock to prevent it.
Overlaps(k, A) ==
    {a \in A : \E l \in Calls \ {k} :
        /\ Holds(calls[l], a)
        /\ ~(calls[k].pc = "refresh" /\ InRefresh(calls[l]) /\ calls[l].at = calls[k].at
             /\ LockKey(calls[l]) = LockKey(calls[k]))}

-----------------------------------------------------------------------------
(* A call begins with its first read of the document, in any instance.     *)

Fresh(kind, i, asked) == [Idle EXCEPT !.kind = kind, !.at = i, !.asked = asked]
Begins(k, i) == calls[k].pc = "idle" /\ i \notin booting

\* ensureValidToken, ensureValidTokenByAccount: a token that is close to its end, and
\* has a refreshToken, is refreshed.  (Another is the answer, and nothing changes.)
\* forceRefresh tries it in any case, and then asks like the others.
Expiring(tok) == Renewable(tok) /\ tok \notin Untimed
Refreshed(c, ref) == [c EXCEPT !.pc = "refresh", !.ref = ref]
Answered(ref) == [Idle EXCEPT !.ref = ref]

Ask(k, i, asked) ==
    LET ref == RefOf(Lookup(asked))
    IN /\ Begins(k, i) /\ ref.tok # NoToken
       /\ \E kind \in IF Expiring(ref.tok) THEN {"token", "force"} ELSE {"force"} :
            calls' = [calls EXCEPT ![k] =
                [Refreshed(Fresh(kind, i, asked), ref) EXCEPT
                    !.chosen = IF asked = None THEN {Selected(doc)} ELSE {}]]
       /\ UNCHANGED <<doc, grants, timers, booting, events, history>>

\* The internal endpoint first asks whether anything is to be published at all.
Disabled == doc.accounts # {} /\ Selected(doc) \notin Authorised(doc)

Check(k, i) ==
    /\ Begins(k, i) /\ ~Disabled
    /\ calls' = [calls EXCEPT ![k] =
         [Fresh("token", i, None) EXCEPT !.pc = "resolve", !.chosen = {Selected(doc)}]]
    /\ UNCHANGED <<doc, grants, timers, booting, events, history>>

Resolve(k) ==
    LET c == calls[k]
        ref == RefOf(Lookup(c.asked))
    IN /\ c.pc = "resolve"
       /\ calls' \in {[calls EXCEPT ![k] = d] : d \in
            IF ref.tok = NoToken THEN {Idle}
            ELSE IF Expiring(ref.tok) THEN {Refreshed(c, ref), Answered(ref)}
            ELSE {Answered(ref)}}
       /\ UNCHANGED <<doc, grants, timers, booting, events, history>>

\* After the refresh the account is resolved again; without a token it is the first answer.
Reread(k) ==
    LET ref == RefOf(Lookup(calls[k].asked))
    IN /\ calls[k].pc = "reread"
       /\ calls' = [calls EXCEPT ![k] = Answered(IF ref.tok = NoToken THEN @.ref ELSE ref)]
       /\ UNCHANGED <<doc, grants, timers, booting, events, history>>

\* The timer of an account goes off (fire).
Fire(k, i, a) ==
    /\ Begins(k, i) /\ a \in timers[i]
    /\ timers' = [timers EXCEPT ![i] = @ \ {a}]
    /\ calls' = [calls EXCEPT ![k] = [Fresh("timer", i, a) EXCEPT !.pc = "refresh"]]
    /\ UNCHANGED <<doc, grants, booting, events, history>>

-----------------------------------------------------------------------------
(* refreshToken, doRefresh.                                                *)

\* What becomes of a caller when the refresh it waits for ends.
AfterRefresh(c, ok) ==
    IF ~ok \/ c.kind = "timer" THEN Idle
    ELSE [c EXCEPT !.pc = IF c.kind = "force" THEN "resolve" ELSE "reread",
                   !.kind = "token", !.cur = NoRef, !.hand = NoToken]

Waiters(k) ==
    {l \in Calls : calls[l].pc = "wait" /\ calls[l].at = calls[k].at
                     /\ LockKey(calls[l]) = LockKey(calls[k])}

Settle(k, ok) ==
    calls' = [l \in Calls |-> IF l \in Waiters(k) \cup {k} THEN AfterRefresh(calls[l], ok)
                              ELSE calls[l]]

\* fire logs a failure and does not set the timer again.
TimedOut(k) ==
    unattended \cup {calls[l].asked : l \in {m \in Waiters(k) \cup {k} : calls[m].kind = "timer"}}

\* The account is read again under the lock.  If it is gone, the one that publishes is
\* refreshed in its place; without a refreshToken that fails.
Acquire(k) ==
    LET c == calls[k]
        a == IF LockKey(c) \in doc.accounts THEN LockKey(c) ELSE AccountFor
    IN /\ c.pc = "refresh" /\ ~Locked(c.at, LockKey(c))
       /\ IF ~Renewable(RefOf(a).tok)
          THEN /\ Settle(k, FALSE)
               /\ unattended' = TimedOut(k)
               /\ UNCHANGED contested
          ELSE /\ calls' = [calls EXCEPT ![k] = [c EXCEPT !.pc = "exchange", !.cur = RefOf(a)]]
               /\ contested' = contested \cup Overlaps(k, {a})
               /\ UNCHANGED unattended
       /\ UNCHANGED <<doc, grants, timers, booting, events, gone>>

Join(k) ==
    /\ calls[k].pc = "refresh" /\ Locked(calls[k].at, LockKey(calls[k]))
    /\ calls' = [calls EXCEPT ![k] = [@ EXCEPT !.pc = "wait"]]
    /\ UNCHANGED <<doc, grants, timers, booting, events, history>>

\* The marketplace takes a refresh token once, from the account it was granted to, and the
\* last one only.
Live(a) == [of |-> a, no |-> grants[a]]
NextGrant(a) == [of |-> a, no |-> grants[a] + 1]
Granted(a) == grants[a] < MaxGrants /\ grants' = [grants EXCEPT ![a] = @ + 1]

Exchange(k) ==
    LET c == calls[k]
    IN /\ c.pc = "exchange" /\ c.kind \in Refreshing
       /\ c.cur.tok = Live(c.cur.acct)
       /\ Granted(c.cur.acct)
       /\ calls' = [calls EXCEPT ![k] = [c EXCEPT !.pc = "save", !.hand = NextGrant(c.cur.acct)]]
       /\ UNCHANGED <<doc, timers, booting, events, history>>

\* It refuses, or cannot be reached.
RefreshFails(k) ==
    /\ calls[k].pc = "exchange" /\ calls[k].kind \in Refreshing
    /\ Settle(k, FALSE)
    /\ unattended' = TimedOut(k)
    /\ UNCHANGED <<doc, grants, timers, booting, events, gone, contested>>

\* The marketplace has granted a token that the call never gets.
ReplyLost(k) ==
    LET c == calls[k]
    IN /\ c.pc = "exchange" /\ Event
       /\ c.kind \in Refreshing => c.cur.tok = Live(c.cur.acct)
       /\ Granted(c.cur.acct)
       /\ Settle(k, FALSE)
       /\ unattended' = TimedOut(k)
       /\ contested' = contested \cup {c.cur.acct}
       /\ UNCHANGED <<doc, timers, booting, gone>>

-----------------------------------------------------------------------------
(* Consents and profile updates.                                           *)

\* handleAuthCallback and refreshAccountProfile find the account by its id, authenticate
\* takes the one that publishes.
Authorise(k, i, asked) ==
    LET ref == RefOf(Lookup(asked))
        kind == IF asked = None THEN "consent" ELSE "callback"
    IN /\ Begins(k, i) /\ Event /\ ref.acct # None
       /\ calls' = [calls EXCEPT ![k] = [Fresh(kind, i, asked) EXCEPT !.pc = "exchange", !.cur = ref]]
       /\ UNCHANGED <<doc, grants, timers, booting, history>>

\* The profile is fetched, and written with the whole token that was read before.
Profile(k, i, asked) ==
    LET ref == RefOf(Lookup(asked))
    IN /\ Begins(k, i) /\ Event /\ asked # None /\ ref.tok # NoToken
       /\ calls' = [calls EXCEPT ![k] =
            [Fresh("profile", i, asked) EXCEPT !.pc = "save", !.cur = ref, !.hand = ref.tok]]
       /\ contested' = contested \cup Overlaps(k, {asked})
       /\ UNCHANGED <<doc, grants, timers, booting, gone, unattended>>

\* The code is exchanged for a token; authenticate then resolves the account again.
Authenticate(k) ==
    LET c == calls[k]
    IN /\ c.pc = "exchange" /\ c.kind \in {"callback", "consent"}
       /\ Granted(c.cur.acct)
       /\ calls' = [calls EXCEPT ![k] = [c EXCEPT !.hand = NextGrant(c.cur.acct),
                      !.pc = IF c.kind = "consent" THEN "redirect" ELSE "save"]]
       /\ contested' = contested \cup Overlaps(k, {c.cur.acct})
       /\ UNCHANGED <<doc, timers, booting, events, gone, unattended>>

\* saveTokenForDomain: another account may be the one that publishes by now.
Redirect(k) ==
    LET c == calls[k]
        a == AccountFor
    IN /\ c.pc = "redirect"
       /\ calls' = [calls EXCEPT ![k] = IF a = None THEN Idle
                      ELSE [c EXCEPT !.pc = "save", !.cur = RefOf(a)]]
       /\ contested' = IF a = c.cur.acct THEN contested
                       ELSE contested \cup ({c.cur.acct, a} \ {None})
       /\ UNCHANGED <<doc, grants, timers, booting, events, gone, unattended>>

\* The marketplace refuses the code or the profile, or cannot be reached.
CallFails(k) ==
    LET c == calls[k]
    IN /\ \/ c.kind \in {"callback", "consent"} /\ c.pc = "exchange"
          \/ c.kind = "profile" /\ c.pc = "save"
       /\ calls' = [calls EXCEPT ![k] = Idle]
       /\ UNCHANGED <<doc, grants, timers, booting, events, history>>

-----------------------------------------------------------------------------
(* saveAccountToken: the one place where a token is written.               *)

WrittenLate(c) == [doc EXCEPT !.token[c.cur.acct] = c.cur.tok]                 \* fault
Written(c) ==
    IF c.cur.acct \in doc.accounts THEN [doc EXCEPT !.token[c.cur.acct] = c.hand] ELSE doc

NotScheduled(c) == timers                                                     \* fault
ScheduledAsAsked(c) == [timers EXCEPT ![c.at] = @ \cup {c.asked}]             \* fault
Scheduled(c) ==      \* the timer there was is cleared, and set again if there is an expiresAt
    [timers EXCEPT ![c.at] =
        IF c.hand \in Untimed THEN @ \ {c.cur.acct} ELSE @ \cup {c.cur.acct}]

Save(k) ==
    LET c == calls[k]
    IN /\ c.pc = "save" /\ c.kind \notin Admin \cup {"activate"}
       /\ doc' = Written(c)
       /\ timers' = Scheduled(c)
       /\ unattended' = unattended \ {c.cur.acct}
       /\ IF c.kind \in Refreshing THEN Settle(k, TRUE)
          ELSE calls' = [calls EXCEPT ![k] = Idle]
       /\ UNCHANGED <<grants, booting, events, gone, contested>>

\* The write fails, or only its acknowledgement is lost.
SaveFails(k) ==
    LET c == calls[k]
    IN /\ c.pc = "save" /\ c.kind \notin Admin \cup {"activate"} /\ Event
       /\ doc' \in {doc, Written(c)}
       /\ contested' = contested \cup {c.cur.acct}
       /\ unattended' = TimedOut(k) \cup {c.cur.acct}
       /\ Settle(k, FALSE)
       /\ UNCHANGED <<grants, timers, booting, gone>>

-----------------------------------------------------------------------------
(* registerAccount, deleteAccount, setActiveAccount.                       *)

\* The id of a new account is new.
Allowed(kind, asked) ==
    \/ /\ kind = "register" /\ asked \in Accounts \ (doc.accounts \cup gone)
       /\ \A l \in Calls : calls[l].kind = "register" => calls[l].asked # asked
    \/ kind = "delete" /\ asked \in doc.accounts
    \/ kind = "activate" /\ asked \in Authorised(doc) \cup {None}

ReadDocument(k, i, kind, asked) ==
    /\ Begins(k, i) /\ Event /\ Allowed(kind, asked)
    /\ calls' = [calls EXCEPT ![k] = [Fresh(kind, i, asked) EXCEPT !.pc = "save",
                   !.copy = IF kind = "activate" THEN NoDocument ELSE doc]]
    /\ contested' = IF kind = "activate" THEN contested ELSE contested \cup Overlaps(k, Accounts)
    /\ UNCHANGED <<doc, grants, timers, booting, gone, unattended>>

\* A save that sets the array filters on __v and increments it; a token written alone and
\* the active account do neither.
SavableAlways(c) == TRUE                                                      \* fault
Savable(c) == ~c.stale

ArrayOf(c) ==
    IF c.kind = "register"
    THEN [doc EXCEPT !.accounts = c.copy.accounts \cup {c.asked}, !.token = c.copy.token]
    ELSE [accounts |-> c.copy.accounts \ {c.asked},
          token |-> [c.copy.token EXCEPT ![c.asked] = NoToken],
          active |-> IF c.copy.active = c.asked THEN None ELSE doc.active]

\* The other calls after a change of the document to d.
Meanwhile(k, d, versioned) ==
    calls' = [l \in Calls |-> IF l = k THEN Idle
        ELSE [calls[l] EXCEPT
            !.stale = @ \/ (versioned /\ calls[l].kind \in Admin),
            !.chosen = IF @ = {} THEN @ ELSE @ \cup {Selected(d)}]]

\* Accounts that get another token with the array; their timers are not touched.
Rewritten == {a \in Accounts : doc'.token[a] # doc.token[a]}

SaveArray(k) ==
    LET c == calls[k]
    IN /\ c.pc = "save" /\ c.kind \in Admin
       /\ IF Savable(c)
          THEN /\ doc' = ArrayOf(c)
               /\ unattended' = unattended \cup Rewritten
               /\ gone' = IF c.kind = "delete" THEN gone \cup {c.asked} ELSE gone
               /\ Meanwhile(k, doc', TRUE)
          ELSE calls' = [calls EXCEPT ![k] = Idle] /\ UNCHANGED <<doc, gone, unattended>>
       /\ UNCHANGED <<grants, timers, booting, events, contested>>

SaveActive(k) ==
    /\ calls[k].pc = "save" /\ calls[k].kind = "activate"
    /\ doc' = [doc EXCEPT !.active = calls[k].asked]
    /\ Meanwhile(k, doc', FALSE)
    /\ UNCHANGED <<grants, timers, booting, events, history>>

-----------------------------------------------------------------------------
(* Processes.                                                              *)

Crash(i) ==
    /\ Event /\ i \notin booting
    /\ booting' = booting \cup {i}
    /\ timers' = [timers EXCEPT ![i] = {}]
    /\ calls' = [k \in Calls |-> IF calls[k].at = i THEN Idle ELSE calls[k]]
    /\ contested' = contested \cup {calls[k].cur.acct : k \in
         {l \in Calls : calls[l].at = i /\ calls[l].hand # NoToken}}
    /\ UNCHANGED <<doc, grants, gone, unattended>>

\* onModuleInit: one timer per token that has a refreshToken and an expiresAt; none
\* while the marketplace is disabled, or when they cannot be read.
Timed == UNION {timers[i] : i \in Instances}
Boot(i) ==
    /\ i \in booting
    /\ booting' = booting \ {i}
    /\ \/ /\ timers' = [timers EXCEPT ![i] = Schedulable(doc)]
          /\ unattended' = unattended \ Schedulable(doc)
       \/ /\ unattended' = unattended \cup (Schedulable(doc) \ Timed)
          /\ UNCHANGED timers
    /\ UNCHANGED <<doc, grants, calls, events, gone, contested>>

Begin(k, i) ==
    \/ Check(k, i)
    \/ \E asked \in Accounts \cup {None} :
         \/ Ask(k, i, asked) \/ Authorise(k, i, asked) \/ Profile(k, i, asked)
         \/ \E kind \in Admin \cup {"activate"} : ReadDocument(k, i, kind, asked)
    \/ \E a \in Accounts : Fire(k, i, a)
Refresh(k) == Acquire(k) \/ Join(k) \/ Exchange(k) \/ RefreshFails(k) \/ ReplyLost(k)
Step(k) ==
    \/ Resolve(k) \/ Refresh(k) \/ Reread(k) \/ Authenticate(k) \/ Redirect(k) \/ CallFails(k)
    \/ Save(k) \/ SaveFails(k) \/ SaveArray(k) \/ SaveActive(k)

Next ==
    \/ \E k \in Calls : Step(k) \/ \E i \in Instances : Begin(k, i)
    \/ \E i \in Instances : Crash(i) \/ Boot(i)

Spec == Init /\ [][Next]_vars

-----------------------------------------------------------------------------
(* Properties.                                                             *)

TypeOK ==
    /\ doc \in Document /\ grants \in [Accounts -> 0 .. MaxGrants]
    /\ timers \in [Instances -> SUBSET Accounts] /\ booting \subseteq Instances
    /\ calls \in [Calls -> Call] /\ events \in 0 .. MaxEvents
    /\ {gone, contested, unattended} \subseteq SUBSET Accounts

\* The last token granted to an account is in the document or with the one call that will
\* write it there: refreshes in one process, however many, and timers never lose it.  It
\* does get lost by what makes an account contested: refreshes of it in two processes at a
\* time, a consent, profile or array written meanwhile, or a crash, a lost reply or a
\* failed write between the exchange and the save.
LiveTokenIsKept ==
    \A a \in doc.accounts \ contested :
        \/ grants[a] = 0 /\ doc.token[a] = NoToken
        \/ doc.token[a] = Live(a)
        \/ \E k \in Calls : Holds(calls[k], a) /\ calls[k].hand = Live(a)

\* A refresh presents the token the marketplace will take: of two callers in one process
\* the lock lets the second wait, and what a caller read before it had the lock is not
\* what it presents.  Of accounts that are contested it may present a replaced token:
\* the lock is not shared by processes, nor taken by consents, profiles and arrays.
RefreshesAreAccepted ==
    \A k \in Calls : LET c == calls[k] IN
        c.kind \in Refreshing /\ c.pc = "exchange" /\ c.cur.acct \notin contested
            => c.cur.tok = Live(c.cur.acct)

\* An answer is a token of the account that was asked for, or else of the one that was
\* chosen to publish at some time during the call, if one was chosen all the time.
Answer(k) == calls'[k].ref
AnswersFitTheQuestion ==
    [][\A k \in Calls : LET c == calls[k] IN
        c.pc # "idle" /\ calls'[k].pc = "idle" /\ Answer(k) # NoRef =>
            /\ c.asked # None => Answer(k).acct = c.asked
            /\ c.asked = None /\ None \notin c.chosen => Answer(k).acct \in c.chosen
            /\ Answer(k).acct \notin contested => Answer(k).tok.of = Answer(k).acct]_vars

\* A deleted account does not return with an array that was read before.
DeletedStaysDeleted == doc.accounts \cap gone = {}

\* Every token with an expiresAt and a refreshToken has a timer in some process, or a timer
\* has gone off and its refresh is under way, but for those that are unattended.
TokensAreTimed ==
    \A a \in Schedulable(doc) \ unattended :
        \/ booting # {}
        \/ a \in Timed
        \/ \E k \in Calls : calls[k].kind = "timer" /\ calls[k].asked = a
=============================================================================
