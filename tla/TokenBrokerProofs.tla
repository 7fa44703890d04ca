-------------------------- MODULE TokenBrokerProofs --------------------------
(***************************************************************************)
(* For all accounts, calls, instances, numbers of grants and events: the   *)
(* safety properties of TokenBroker.  A token in use of an account that is *)
(* not contested has one holder; who holds it has the last one granted, or *)
(* will present it.                                                        *)
(***************************************************************************)
EXTENDS TokenBroker, WellFoundedInduction, TLAPS

Known == doc.accounts \cup gone
Setting == Admin \cup {"activate"}

\* What a call carries fits what it does.
ShapedCall(c) ==
    /\ c.pc = "idle" => /\ c.kind = "token" /\ c.cur = NoRef
                        /\ c.hand = NoToken /\ c.chosen = {}
    /\ c.pc \in {"refresh", "wait"} => c.kind \in Refreshing
    /\ c.pc \in {"resolve", "reread"} => c.kind = "token"
    /\ c.pc = "redirect" => c.kind = "consent"
    /\ c.pc = "exchange" => c.kind \in Refreshing \cup {"callback", "consent"}
    /\ c.kind \in Setting \cup {"profile"} => c.pc = "save"
    /\ c.kind \in Admin \cup {"timer"} => c.asked # None
    /\ c.kind = "timer" => c.pc \in {"refresh", "wait", "exchange", "save"}
    /\ c.kind \in {"token", "force"} /\ c.pc \notin {"idle", "resolve"} => c.ref.acct # None
    /\ c.kind \notin Setting /\ c.pc \in {"exchange", "redirect", "save"} => c.cur.acct # None
    /\ IF c.kind \notin Setting /\ c.pc \in {"redirect", "save"}
       THEN c.hand # NoToken ELSE c.hand = NoToken
Shaped == \A k \in Calls : ShapedCall(calls[k])

\* Accounts that never were have no token, and nobody speaks of them.  A refresh is of the
\* account whose lock it has, unless that one was deleted.
NamedCall(c) ==
    /\ {c.cur.acct, c.ref.acct} \subseteq Known \cup {None}
    /\ c.kind = "timer" => c.asked \in Known
    /\ InRefresh(c) /\ c.cur.acct # LockKey(c) => LockKey(c) \in gone
Named ==
    /\ \A k \in Calls : NamedCall(calls[k])
    /\ \A i \in Instances : timers[i] \subseteq Known
    /\ \A a \in Accounts \ Known : grants[a] = 0 /\ doc.token[a] = NoToken

\* An account that is not contested has one holder.
Owned ==
    \A k, l \in Calls, a \in Accounts \ contested :
        Holds(calls[k], a) /\ Holds(calls[l], a) => k = l

\* The holder presents the last token that was granted, or has it in hand.
CurrentCall(c) ==
    c.kind \notin Setting /\ c.cur.acct \notin contested \cup {None} =>
        /\ InRefresh(c) /\ c.pc = "exchange" =>
             c.cur.tok = Live(c.cur.acct) /\ doc.token[c.cur.acct] = Live(c.cur.acct)
        /\ c.pc \in {"redirect", "save"} => c.hand = Live(c.cur.acct)
        /\ c.kind = "profile" => doc.token[c.cur.acct] = Live(c.cur.acct)
Current == \A k \in Calls : CurrentCall(calls[k])

\* An array that can still be saved is the one of the document, but for the tokens of
\* contested accounts; what it would add is new.
CopiedCall(c) ==
    /\ c.kind \in Admin /\ ~c.stale =>
         /\ c.copy.accounts = doc.accounts
         /\ \A a \in Accounts : c.copy.token[a] # NoToken => doc.token[a] # NoToken
         /\ \A a \in Accounts \ contested : c.copy.token[a] = doc.token[a]
         /\ c.kind = "delete" => c.asked \in c.copy.accounts
    /\ c.kind = "register" => c.asked \notin Known
Copied ==
    /\ \A k \in Calls : CopiedCall(calls[k])
    /\ \A k, l \in {m \in Calls : calls[m].kind = "register"} :
         calls[k].asked = calls[l].asked => k = l

\* The first answer of a call that refreshes is of the account it asked for.
AskedCall(c) ==
    /\ c.chosen # {} => Selected(doc) \in c.chosen
    /\ c.kind \in {"token", "force"} /\ c.pc # "idle" /\ c.asked = None => c.chosen # {}
    /\ c.kind \in {"token", "force"} /\ c.pc \notin {"idle", "resolve"} =>
         /\ c.asked # None => c.ref.acct = c.asked
         /\ c.asked = None /\ None \notin c.chosen => c.ref.acct \in c.chosen
         /\ c.ref.acct \notin contested => c.ref.tok.of = c.ref.acct
Asked ==
    /\ \A a \in Accounts \ contested : doc.token[a] = NoToken \/ doc.token[a].of = a
    /\ \A k \in Calls : AskedCall(calls[k])

Inv ==
    /\ TypeOK /\ Shaped /\ Named /\ Owned /\ Current /\ Copied /\ Asked
    /\ LiveTokenIsKept /\ DeletedStaysDeleted

-----------------------------------------------------------------------------
(* Of some accounts one is the first.                                      *)
LEMMA FirstOf ==
  ASSUME NEW A \in SUBSET Accounts, A # {}
  PROVE  First(A) \in A
<1>1. A \subseteq Nat
  BY AccountsAssumption
<1>2. PICK a \in A : \A b \in A : ~(<<b, a>> \in OpToRel(<, Nat))
  BY Zenon, <1>1, NatLessThanWellFounded, WFMin
<1>3. \A b \in A : ~(b < a)
  BY Zenon, <1>1, <1>2 DEF OpToRel
<1>4. \A b \in A : a <= b
  BY <1>1, <1>3
<1> QED BY <1>4 DEF First

(* accountFor finds an account of the document, the selected one if there  *)
(* is one.                                                                 *)
LEMMA Found ==
  ASSUME TypeOK
  PROVE  /\ AccountFor \in doc.accounts \cup {None}
         /\ Selected(doc) # None => AccountFor = Selected(doc)
         /\ doc.accounts \subseteq Accounts /\ None \notin Accounts
<1>1. doc.accounts \subseteq Accounts /\ None \notin Accounts
  BY AccountsAssumption DEF TypeOK, Document
<1>2. doc.accounts # {} => First(doc.accounts) \in doc.accounts
  BY <1>1, FirstOf
<1> QED BY <1>1, <1>2 DEF AccountFor, Selected

(* An account as it is resolved: its id and its token.                     *)
LEMMA Resolved ==
  ASSUME TypeOK, NEW a \in doc.accounts \cup {None}
  PROVE  /\ RefOf(a) \in Ref /\ RefOf(a).acct = a
         /\ a # None => RefOf(a).tok = doc.token[a]
         /\ RefOf(a).tok # NoToken => a # None
<1>1. doc \in Document /\ NoToken \in Tokens
  BY DEF TypeOK, Tokens
<1>2. doc.token \in [Accounts -> Tokens] /\ doc.accounts \subseteq Accounts
  BY <1>1 DEF Document
<1> QED BY <1>1, <1>2 DEF RefOf, NoRef, Ref

(* An account that is looked up is in the document, and the one that was   *)
(* asked for.                                                              *)
LEMMA LookedUp ==
  ASSUME TypeOK, NEW asked \in Accounts \cup {None}
  PROVE  LET ref == RefOf(Lookup(asked))
         IN /\ ref \in Ref /\ ref.acct \in doc.accounts \cup {None}
            /\ asked # None => ref.acct \in {asked, None}
            /\ asked = None => ref.acct = AccountFor
            /\ ref.acct # None => ref.tok = doc.token[ref.acct]
            /\ ref.tok # NoToken => ref.acct # None
<1>1. Lookup(asked) \in doc.accounts \cup {None}
  BY Found DEF Lookup
<1> QED BY <1>1, Resolved DEF Lookup

-----------------------------------------------------------------------------
(* What the steps of a call leave it with.                                 *)

Changes(k, new) == calls' = [calls EXCEPT ![k] = new]
Ended(c) == /\ c \in Call /\ c.pc = "idle" /\ c.kind = "token" /\ c.cur = NoRef
            /\ c.hand = NoToken /\ c.chosen = {}

(* A call that is idle is well typed.                                      *)
LEMMA IdleCall ==
  /\ Ended(Idle) /\ Idle.ref = NoRef /\ Idle.asked = None
  /\ NoDocument \in Document /\ NoToken \in Tokens /\ NoRef \in Ref
<1>1. NoToken \in Tokens /\ NoRef \in Ref
  BY DEF NoToken, Tokens, NoRef, Ref
<1>2. NoDocument \in Document
  BY <1>1 DEF NoDocument, Document
<1> QED BY <1>1, <1>2 DEF Ended, Idle, Call, Kinds, Refreshing, Admin

(* A call that begins, before it has done anything.                        *)
LEMMA FreshCall ==
  ASSUME NEW kind \in Kinds, NEW i \in Instances, NEW asked \in Accounts \cup {None}
  PROVE  /\ Fresh(kind, i, asked) \in Call
         /\ Fresh(kind, i, asked).pc = "idle" /\ Fresh(kind, i, asked).kind = kind
         /\ Fresh(kind, i, asked).asked = asked /\ Fresh(kind, i, asked).at = i
         /\ Fresh(kind, i, asked).ref = NoRef /\ Fresh(kind, i, asked).cur = NoRef
         /\ Fresh(kind, i, asked).hand = NoToken /\ Fresh(kind, i, asked).chosen = {}
  BY IdleCall DEF Fresh, Ended, Call, Idle

(* A call that is changed is changed in its place.                         *)
LEMMA ChangedCall ==
  ASSUME TypeOK, NEW k \in Calls, NEW new \in Call, Changes(k, new)
  PROVE  /\ calls'[k] = new /\ \A l \in Calls \ {k} : calls'[l] = calls[l]
         /\ calls' \in [Calls -> Call]
  BY DEF TypeOK, Changes

AsksFor(k, asked, new) ==
    /\ Changes(k, new) /\ calls[k].pc = "idle"
    /\ new.pc = "refresh" /\ new.kind \in {"token", "force"} /\ new.asked = asked
    /\ new.ref = RefOf(Lookup(asked)) /\ new.ref.tok # NoToken
    /\ new.cur = NoRef /\ new.hand = NoToken
    /\ new.chosen = IF asked = None THEN {Selected(doc)} ELSE {}

(* Ask: the call will refresh what it found.                               *)
LEMMA AskEffect ==
  ASSUME TypeOK, NEW k \in Calls, NEW i \in Instances, NEW asked \in Accounts \cup {None},
         Ask(k, i, asked)
  PROVE  \E new \in Call : AsksFor(k, asked, new)
<1>1. PICK kind \in {"token", "force"} :
        calls' = [calls EXCEPT ![k] =
          [Refreshed(Fresh(kind, i, asked), RefOf(Lookup(asked))) EXCEPT
             !.chosen = IF asked = None THEN {Selected(doc)} ELSE {}]]
  BY DEF Ask
<1> DEFINE new == [Refreshed(Fresh(kind, i, asked), RefOf(Lookup(asked))) EXCEPT
                     !.chosen = IF asked = None THEN {Selected(doc)} ELSE {}]
<1> DEFINE fresh == Fresh(kind, i, asked)
<1>2. /\ fresh \in Call /\ fresh.kind = kind /\ fresh.asked = asked
      /\ fresh.cur = NoRef /\ fresh.hand = NoToken
  <2>1. kind \in Kinds
    BY DEF Kinds, Refreshing
  <2> QED BY <2>1, FreshCall
<1>6. RefOf(Lookup(asked)) \in Ref /\ Selected(doc) \in Accounts \cup {None}
  BY LookedUp, Found DEF Selected
<1> HIDE DEF fresh
<1>3. new \in Call
  BY <1>2, <1>6 DEF Refreshed, Call, fresh
<1>4. /\ new.pc = "refresh" /\ new.kind = kind /\ new.asked = asked
      /\ new.ref = RefOf(Lookup(asked)) /\ new.cur = NoRef /\ new.hand = NoToken
      /\ new.chosen = IF asked = None THEN {Selected(doc)} ELSE {}
  BY <1>2 DEF Refreshed, Call, fresh
<1>5. Changes(k, new) /\ calls[k].pc = "idle" /\ RefOf(Lookup(asked)).tok # NoToken
  BY <1>1 DEF Changes, Ask, Begins
<1> HIDE DEF new
<1> QED BY <1>3, <1>4, <1>5 DEF AsksFor

(* Check: the call will resolve the account that publishes.                *)
LEMMA CheckEffect ==
  ASSUME TypeOK, NEW k \in Calls, NEW i \in Instances, Check(k, i)
  PROVE  \E new \in Call :
           /\ Changes(k, new) /\ calls[k].pc = "idle"
           /\ new.pc = "resolve" /\ new.kind = "token" /\ new.asked = None
           /\ new.ref = NoRef /\ new.cur = NoRef /\ new.hand = NoToken
           /\ new.chosen = {Selected(doc)}
<1> DEFINE new == [Fresh("token", i, None) EXCEPT !.pc = "resolve", !.chosen = {Selected(doc)}]
<1> DEFINE fresh == Fresh("token", i, None)
<1>1. /\ fresh \in Call /\ fresh.kind = "token" /\ fresh.asked = None
      /\ fresh.ref = NoRef /\ fresh.cur = NoRef /\ fresh.hand = NoToken
  <2>1. "token" \in Kinds
    BY DEF Kinds, Refreshing
  <2> QED BY <2>1, FreshCall
<1>5. Selected(doc) \in Accounts \cup {None}
  BY Found DEF Selected
<1> HIDE DEF fresh
<1>2. new \in Call
  BY <1>1, <1>5 DEF Call, fresh
<1>3. /\ new.pc = "resolve" /\ new.kind = "token" /\ new.asked = None
      /\ new.ref = NoRef /\ new.cur = NoRef /\ new.hand = NoToken
      /\ new.chosen = {Selected(doc)}
  BY <1>1 DEF Call, fresh
<1>4. Changes(k, new) /\ calls[k].pc = "idle"
  BY DEF Changes, Check, Begins
<1> HIDE DEF new
<1> QED BY <1>2, <1>3, <1>4

(* Resolve: the call ends, with an answer or without, or goes on to        *)
(* refresh what it found.                                                  *)
LEMMA ResolveEffect ==
  ASSUME TypeOK, NEW k \in Calls, Resolve(k)
  PROVE  LET c == calls[k]  ref == RefOf(Lookup(c.asked))
         IN \E new \in Call :
              /\ Changes(k, new) /\ c.pc = "resolve"
              /\ \/ Ended(new) /\ (new.ref = NoRef \/ (new.ref = ref /\ ref.tok # NoToken))
                 \/ /\ new.pc = "refresh" /\ new.ref = ref /\ ref.tok # NoToken
                    /\ new.kind = c.kind /\ new.asked = c.asked /\ new.cur = c.cur
                    /\ new.hand = c.hand /\ new.chosen = c.chosen
<1> DEFINE c == calls[k]
           ref == RefOf(Lookup(c.asked))
<1>1. c \in Call /\ c.asked \in Accounts \cup {None}
  BY DEF TypeOK, Call
<1>2. ref \in Ref
  BY <1>1, LookedUp
<1>3. PICK d : /\ calls' = [calls EXCEPT ![k] = d] /\ c.pc = "resolve"
               /\ \/ d = Idle
                  \/ d \in {Refreshed(c, ref), Answered(ref)} /\ ref.tok # NoToken
  BY DEF Resolve
<1>4. CASE d = Idle
  BY <1>3, <1>4, IdleCall DEF Changes, Ended
<1>5. CASE d = Refreshed(c, ref) /\ ref.tok # NoToken
  <2>1. d \in Call
    BY <1>1, <1>2, <1>5 DEF Refreshed, Call
  <2>2. /\ d.pc = "refresh" /\ d.ref = ref /\ d.kind = c.kind /\ d.asked = c.asked
        /\ d.cur = c.cur /\ d.hand = c.hand /\ d.chosen = c.chosen
    BY <1>1, <1>5 DEF Refreshed, Call
  <2> QED BY <1>3, <1>5, <2>1, <2>2 DEF Changes
<1>6. CASE d = Answered(ref) /\ ref.tok # NoToken
  <2>1. d \in Call /\ d.ref = ref /\ d.pc = Idle.pc /\ d.kind = Idle.kind /\ d.cur = Idle.cur
        /\ d.hand = Idle.hand /\ d.chosen = Idle.chosen
    BY <1>2, <1>6, IdleCall DEF Answered, Idle, Ended, Call
  <2>2. Ended(d)
    BY <2>1, IdleCall DEF Ended
  <2> QED BY <1>3, <1>6, <2>1, <2>2 DEF Changes
<1> QED BY <1>3, <1>4, <1>5, <1>6

(* Reread: the call ends with what it finds now, or found at first.        *)
LEMMA RereadEffect ==
  ASSUME TypeOK, NEW k \in Calls, Reread(k)
  PROVE  LET c == calls[k]  ref == RefOf(Lookup(c.asked))
         IN \E new \in Call :
              /\ Changes(k, new) /\ c.pc = "reread" /\ Ended(new)
              /\ new.ref = IF ref.tok = NoToken THEN c.ref ELSE ref
<1> DEFINE c == calls[k]
           ref == RefOf(Lookup(c.asked))
           answer == IF ref.tok = NoToken THEN c.ref ELSE ref
           new == Answered(answer)
<1>1. c \in Call /\ c.asked \in Accounts \cup {None} /\ c.ref \in Ref
  BY DEF TypeOK, Call
<1>2. answer \in Ref
  BY <1>1, LookedUp
<1>3. new \in Call /\ new.ref = answer /\ new.pc = Idle.pc /\ new.kind = Idle.kind
      /\ new.cur = Idle.cur /\ new.hand = Idle.hand /\ new.chosen = Idle.chosen
  BY <1>2, IdleCall DEF Answered, Idle, Ended, Call
<1>4. Ended(new)
  BY <1>3, IdleCall DEF Ended
<1>5. Changes(k, new) /\ c.pc = "reread"
  BY DEF Changes, Reread, TypeOK
<1> HIDE DEF new
<1> QED BY <1>3, <1>4, <1>5

(* Fire: the timer is gone and its refresh begins.                         *)
LEMMA FireEffect ==
  ASSUME TypeOK, NEW k \in Calls, NEW i \in Instances, NEW a \in Accounts, Fire(k, i, a)
  PROVE  \E new \in Call :
           /\ Changes(k, new) /\ calls[k].pc = "idle" /\ a \in timers[i]
           /\ new.pc = "refresh" /\ new.kind = "timer" /\ new.asked = a
           /\ new.ref = NoRef /\ new.cur = NoRef /\ new.hand = NoToken /\ new.chosen = {}
<1> DEFINE new == [Fresh("timer", i, a) EXCEPT !.pc = "refresh"]
<1> DEFINE fresh == Fresh("timer", i, a)
<1>1. /\ fresh \in Call /\ fresh.kind = "timer" /\ fresh.asked = a /\ fresh.ref = NoRef
      /\ fresh.cur = NoRef /\ fresh.hand = NoToken /\ fresh.chosen = {}
  <2>1. "timer" \in Kinds
    BY DEF Kinds, Refreshing
  <2> QED BY <2>1, FreshCall
<1> HIDE DEF fresh
<1>2. new \in Call
  BY <1>1 DEF Call, fresh
<1>3. /\ new.pc = "refresh" /\ new.kind = "timer" /\ new.asked = a
      /\ new.ref = NoRef /\ new.cur = NoRef /\ new.hand = NoToken /\ new.chosen = {}
  BY <1>1 DEF Call, fresh
<1>4. Changes(k, new) /\ calls[k].pc = "idle" /\ a \in timers[i]
  BY DEF Changes, Fire, Begins
<1> HIDE DEF new
<1> QED BY <1>2, <1>3, <1>4

(* Join: the call waits.                                                   *)
LEMMA JoinEffect ==
  ASSUME TypeOK, NEW k \in Calls, Join(k)
  PROVE  LET c == calls[k]
         IN \E new \in Call :
              /\ Changes(k, new) /\ c.pc = "refresh"
              /\ new.pc = "wait" /\ new.kind = c.kind /\ new.asked = c.asked /\ new.at = c.at
              /\ new.ref = c.ref /\ new.cur = c.cur /\ new.hand = c.hand /\ new.chosen = c.chosen
<1> DEFINE c == calls[k]
           new == [c EXCEPT !.pc = "wait"]
<1>1. c \in Call
  BY DEF TypeOK
<1>2. /\ new \in Call /\ new.pc = "wait" /\ new.kind = c.kind /\ new.asked = c.asked
      /\ new.at = c.at /\ new.ref = c.ref /\ new.cur = c.cur /\ new.hand = c.hand
      /\ new.chosen = c.chosen
  BY <1>1 DEF Call
<1>3. Changes(k, new) /\ c.pc = "refresh"
  BY DEF Changes, Join, TypeOK
<1> HIDE DEF new
<1> QED BY <1>2, <1>3

(* Authorise: the call has found its account.                              *)
LEMMA AuthoriseEffect ==
  ASSUME TypeOK, NEW k \in Calls, NEW i \in Instances, NEW asked \in Accounts \cup {None},
         Authorise(k, i, asked)
  PROVE  \E new \in Call :
           /\ Changes(k, new) /\ calls[k].pc = "idle"
           /\ new.pc = "exchange" /\ new.kind \in {"callback", "consent"}
           /\ new.cur = RefOf(Lookup(asked)) /\ new.cur.acct # None
           /\ new.ref = NoRef /\ new.hand = NoToken /\ new.chosen = {}
<1> DEFINE kind == IF asked = None THEN "consent" ELSE "callback"
           ref == RefOf(Lookup(asked))
           fresh == Fresh(kind, i, asked)
           new == [fresh EXCEPT !.pc = "exchange", !.cur = ref]
<1>1. kind \in Kinds
  BY DEF Kinds
<1>2. /\ fresh \in Call /\ fresh.kind = kind /\ fresh.ref = NoRef
      /\ fresh.hand = NoToken /\ fresh.chosen = {}
  BY <1>1, FreshCall
<1>3. ref \in Ref
  BY LookedUp
<1>4. Changes(k, new) /\ calls[k].pc = "idle" /\ ref.acct # None
  BY DEF Changes, Authorise, Begins
<1> HIDE DEF fresh, ref
<1>5. /\ new \in Call /\ new.pc = "exchange" /\ new.kind = kind /\ new.cur = ref
      /\ new.ref = NoRef /\ new.hand = NoToken /\ new.chosen = {}
  BY <1>2, <1>3 DEF Call
<1> HIDE DEF new
<1> QED BY <1>4, <1>5 DEF ref

TakesProfile(k, asked, new) ==
    /\ Changes(k, new) /\ calls[k].pc = "idle" /\ asked # None
    /\ contested' = contested \cup Overlaps(k, {asked})
    /\ new.pc = "save" /\ new.kind = "profile" /\ new.asked = asked
    /\ asked \in doc.accounts /\ new.cur.acct = asked
    /\ new.hand = doc.token[asked] /\ new.hand # NoToken
    /\ new.ref = NoRef /\ new.chosen = {}

(* Profile: the call has the token it will write.                          *)
LEMMA ProfileEffect ==
  ASSUME TypeOK, NEW k \in Calls, NEW i \in Instances, NEW asked \in Accounts \cup {None},
         Profile(k, i, asked)
  PROVE  \E new \in Call : TakesProfile(k, asked, new)
<1> DEFINE ref == RefOf(Lookup(asked))
           fresh == Fresh("profile", i, asked)
           new == [fresh EXCEPT !.pc = "save", !.cur = ref, !.hand = ref.tok]
<1>1. "profile" \in Kinds
  BY DEF Kinds
<1>2. /\ fresh \in Call /\ fresh.kind = "profile" /\ fresh.ref = NoRef
      /\ fresh.asked = asked /\ fresh.chosen = {}
  BY <1>1, FreshCall
<1>3. /\ Changes(k, new) /\ calls[k].pc = "idle" /\ asked # None /\ ref.tok # NoToken
      /\ contested' = contested \cup Overlaps(k, {asked})
  BY DEF Changes, Profile, Begins
<1>4. /\ ref \in Ref /\ ref.acct = asked /\ asked \in doc.accounts
      /\ ref.tok = doc.token[asked]
  BY <1>3, LookedUp
<1> HIDE DEF fresh, ref
<1>5. /\ new \in Call /\ new.pc = "save" /\ new.kind = "profile" /\ new.cur = ref
      /\ new.ref = NoRef /\ new.hand = ref.tok /\ new.chosen = {} /\ new.asked = asked
  BY <1>2, <1>4 DEF Call, Ref
<1> HIDE DEF new
<1> QED BY <1>3, <1>4, <1>5 DEF TakesProfile

(* Authenticate: the call has a new token in hand.                         *)
LEMMA AuthenticateEffect ==
  ASSUME TypeOK, NEW k \in Calls, calls[k].cur.acct # None, Authenticate(k)
  PROVE  LET c == calls[k]  a == calls[k].cur.acct
         IN \E new \in Call :
              /\ Changes(k, new) /\ c.pc = "exchange" /\ c.kind \in {"callback", "consent"}
              /\ new.kind = c.kind /\ new.cur = c.cur /\ new.hand = NextGrant(a)
              /\ new.pc \in {"save", "redirect"} /\ (new.pc = "redirect" => c.kind = "consent")
              /\ new.ref = c.ref /\ new.chosen = c.chosen /\ new.asked = c.asked
              /\ NextGrant(a) \in Token /\ a \in Accounts
              /\ contested' = contested \cup Overlaps(k, {a})
              /\ grants' = [grants EXCEPT ![a] = @ + 1] /\ grants' \in [Accounts -> 0 .. MaxGrants]
<1> DEFINE c == calls[k]
           a == c.cur.acct
           pc == IF c.kind = "consent" THEN "redirect" ELSE "save"
           new == [c EXCEPT !.hand = NextGrant(a), !.pc = pc]
<1>1. c \in Call /\ a \in Accounts
  BY DEF TypeOK, Call, Ref
<1>2. grants[a] \in 0 .. MaxGrants /\ grants[a] < MaxGrants /\ MaxGrants \in Nat
  BY <1>1, BoundsAssumption DEF TypeOK, Authenticate, Granted
<1>3. NextGrant(a) \in Token
  BY <1>1, <1>2 DEF NextGrant, Token
<1>4. /\ new \in Call /\ new.pc = pc /\ new.kind = c.kind /\ new.cur = c.cur
      /\ new.hand = NextGrant(a) /\ new.ref = c.ref /\ new.chosen = c.chosen
      /\ new.asked = c.asked
  <2> HIDE DEF c
  <2> QED BY <1>1, <1>3 DEF Call, Tokens
<1>5. /\ Changes(k, new) /\ c.pc = "exchange" /\ c.kind \in {"callback", "consent"}
      /\ contested' = contested \cup Overlaps(k, {a})
      /\ grants' = [grants EXCEPT ![a] = @ + 1]
  BY DEF Changes, Authenticate, Granted
<1>6. grants' \in [Accounts -> 0 .. MaxGrants]
  BY <1>1, <1>2, <1>5 DEF TypeOK
<1> HIDE DEF new
<1> QED BY <1>1, <1>3, <1>4, <1>5, <1>6

(* Redirect: the call ends, or will write the token to the account that    *)
(* publishes now.                                                          *)
LEMMA RedirectEffect ==
  ASSUME TypeOK, NEW k \in Calls, Redirect(k)
  PROVE  LET c == calls[k]  a == AccountFor
         IN \E new \in Call :
              /\ Changes(k, new) /\ c.pc = "redirect"
              /\ contested' = IF a = c.cur.acct THEN contested
                              ELSE contested \cup ({c.cur.acct, a} \ {None})
              /\ \/ Ended(new) /\ new.ref = NoRef /\ a = None
                 \/ /\ a # None /\ new.pc = "save" /\ new.kind = c.kind /\ new.cur.acct = a
                    /\ new.hand = c.hand /\ new.ref = c.ref /\ new.chosen = c.chosen
                    /\ new.asked = c.asked
<1> DEFINE c == calls[k]
           a == AccountFor
           new == IF a = None THEN Idle ELSE [c EXCEPT !.pc = "save", !.cur = RefOf(a)]
<1>1. c \in Call
  BY DEF TypeOK
<1>2. RefOf(a) \in Ref /\ RefOf(a).acct = a
  BY Found, Resolved
<1>3. /\ Changes(k, new) /\ c.pc = "redirect"
      /\ contested' = IF a = c.cur.acct THEN contested
                      ELSE contested \cup ({c.cur.acct, a} \ {None})
  BY DEF Changes, Redirect
<1>4. CASE a = None
  BY <1>3, <1>4, IdleCall DEF Ended
<1>5. CASE a # None
  <2>1. /\ new \in Call /\ new.pc = "save" /\ new.kind = c.kind /\ new.cur.acct = a
        /\ new.hand = c.hand /\ new.ref = c.ref /\ new.chosen = c.chosen /\ new.asked = c.asked
    <3> HIDE DEF c, a
    <3> QED BY <1>1, <1>2, <1>5 DEF Call
  <2> HIDE DEF new
  <2> QED BY <1>3, <1>5, <2>1
<1> QED BY <1>4, <1>5

(* ReadDocument: the call has read the array it will write.                *)
LEMMA ReadEffect ==
  ASSUME TypeOK, NEW k \in Calls, NEW i \in Instances, NEW kind \in Setting,
         NEW asked \in Accounts \cup {None}, ReadDocument(k, i, kind, asked)
  PROVE  \E new \in Call :
           /\ Changes(k, new) /\ calls[k].pc = "idle" /\ Allowed(kind, asked)
           /\ new.pc = "save" /\ new.kind = kind /\ new.asked = asked
           /\ new.ref = NoRef /\ new.cur = NoRef /\ new.hand = NoToken /\ new.chosen = {}
           /\ kind \in Admin => new.copy = doc
           /\ kind \in Admin => contested' = contested \cup Overlaps(k, Accounts)
           /\ kind \notin Admin => contested' = contested
<1> DEFINE fresh == Fresh(kind, i, asked)
           copy == IF kind = "activate" THEN NoDocument ELSE doc
           new == [fresh EXCEPT !.pc = "save", !.copy = copy]
<1>1. kind \in Kinds
  BY DEF Kinds, Setting
<1>2. /\ fresh \in Call /\ fresh.kind = kind /\ fresh.asked = asked /\ fresh.ref = NoRef
      /\ fresh.cur = NoRef /\ fresh.hand = NoToken /\ fresh.chosen = {}
  BY <1>1, FreshCall
<1>3. copy \in Document
  BY IdleCall DEF TypeOK
<1>4. /\ Changes(k, new) /\ calls[k].pc = "idle" /\ Allowed(kind, asked)
      /\ contested' = IF kind = "activate" THEN contested
                      ELSE contested \cup Overlaps(k, Accounts)
  BY DEF Changes, ReadDocument, Begins
<1>5. (kind \in Admin => copy = doc) /\ (kind \in Admin <=> kind # "activate")
  BY DEF Admin, Setting
<1> HIDE DEF fresh, copy
<1>6. /\ new \in Call /\ new.pc = "save" /\ new.kind = kind /\ new.asked = asked
      /\ new.ref = NoRef /\ new.cur = NoRef /\ new.hand = NoToken /\ new.chosen = {}
      /\ new.copy = copy
  BY <1>2, <1>3 DEF Call
<1> HIDE DEF new
<1> QED BY <1>4, <1>5, <1>6

\* The calls of a set of calls end what they wait for.
Settles(S, ok) ==
    calls' = [l \in Calls |-> IF l \in S THEN AfterRefresh(calls[l], ok) ELSE calls[l]]

(* Acquire: no call has the lock.  The refresh fails for want of a token,  *)
(* or the call has the token it will present.                              *)
LEMMA AcquireEffect ==
  ASSUME TypeOK, NEW k \in Calls, Acquire(k)
  PROVE  LET c == calls[k]
         IN /\ c.pc = "refresh" /\ ~Locked(c.at, LockKey(c))
            /\ \/ /\ Settles(Waiters(k) \cup {k}, FALSE)
                  /\ unattended' = TimedOut(k) /\ contested' = contested
               \/ \E new \in Call, a \in doc.accounts :
                    /\ Changes(k, new) /\ unattended' = unattended
                    /\ contested' = contested \cup Overlaps(k, {a})
                    /\ LockKey(c) \in doc.accounts => a = LockKey(c)
                    /\ new.pc = "exchange" /\ new.kind = c.kind /\ new.asked = c.asked
                    /\ new.ref = c.ref /\ new.hand = c.hand /\ new.chosen = c.chosen
                    /\ new.at = c.at
                    /\ new.cur.acct = a /\ new.cur.tok = doc.token[a] /\ new.cur.tok # NoToken
<1> DEFINE c == calls[k]
           a == IF LockKey(c) \in doc.accounts THEN LockKey(c) ELSE AccountFor
           new == [c EXCEPT !.pc = "exchange", !.cur = RefOf(a)]
<1>1. c \in Call /\ a \in doc.accounts \cup {None}
  BY Found DEF TypeOK
<1>2. c.pc = "refresh" /\ ~Locked(c.at, LockKey(c))
  BY DEF Acquire
<1>3. CASE ~Renewable(RefOf(a).tok)
  BY <1>2, <1>3 DEF Acquire, Settle, Settles
<1>4. CASE Renewable(RefOf(a).tok)
  <2> RefOf(a).tok # NoToken
    BY <1>4 DEF Renewable
  <2>1. /\ Changes(k, new) /\ unattended' = unattended
        /\ contested' = contested \cup Overlaps(k, {a})
    BY <1>4 DEF Acquire, Changes
  <2>2. /\ a \in doc.accounts /\ RefOf(a) \in Ref /\ RefOf(a).acct = a
        /\ RefOf(a).tok = doc.token[a]
    BY <1>1, <1>4, Resolved
  <2>3. LockKey(c) \in doc.accounts => a = LockKey(c)
    OBVIOUS
  <2>4. /\ new \in Call /\ new.pc = "exchange" /\ new.kind = c.kind /\ new.asked = c.asked
        /\ new.ref = c.ref /\ new.hand = c.hand /\ new.chosen = c.chosen /\ new.at = c.at
        /\ new.cur = RefOf(a)
    <3> HIDE DEF c, a
    <3> QED BY <1>1, <2>2 DEF Call
  <2> HIDE DEF new, a
  <2> QED BY <1>2, <1>4, <2>1, <2>2, <2>3, <2>4
<1> QED BY <1>3, <1>4

(* Exchange: the call presents the last token and has the next in hand.    *)
LEMMA ExchangeEffect ==
  ASSUME TypeOK, NEW k \in Calls, calls[k].cur.acct # None, Exchange(k)
  PROVE  LET c == calls[k]  a == calls[k].cur.acct
         IN \E new \in Call :
              /\ Changes(k, new) /\ c.pc = "exchange" /\ c.kind \in Refreshing
              /\ new.pc = "save" /\ new.kind = c.kind /\ new.cur = c.cur
              /\ new.hand = NextGrant(a) /\ new.ref = c.ref /\ new.chosen = c.chosen
              /\ new.asked = c.asked /\ new.at = c.at
              /\ NextGrant(a) \in Token /\ a \in Accounts
              /\ grants' = [grants EXCEPT ![a] = @ + 1] /\ grants' \in [Accounts -> 0 .. MaxGrants]
<1> DEFINE c == calls[k]
           a == c.cur.acct
           new == [c EXCEPT !.pc = "save", !.hand = NextGrant(a)]
<1>1. c \in Call /\ a \in Accounts
  BY DEF TypeOK, Call, Ref
<1>2. grants[a] \in 0 .. MaxGrants /\ grants[a] < MaxGrants /\ MaxGrants \in Nat
  BY <1>1, BoundsAssumption DEF TypeOK, Exchange, Granted
<1>3. NextGrant(a) \in Token
  BY <1>1, <1>2 DEF NextGrant, Token
<1>4. /\ new \in Call /\ new.pc = "save" /\ new.kind = c.kind /\ new.cur = c.cur
      /\ new.hand = NextGrant(a) /\ new.ref = c.ref /\ new.chosen = c.chosen
      /\ new.asked = c.asked /\ new.at = c.at
  <2> HIDE DEF c
  <2> QED BY <1>1, <1>3 DEF Call, Tokens
<1>5. /\ Changes(k, new) /\ c.pc = "exchange" /\ c.kind \in Refreshing
      /\ grants' = [grants EXCEPT ![a] = @ + 1]
  BY DEF Changes, Exchange, Granted
<1>6. grants' \in [Accounts -> 0 .. MaxGrants]
  BY <1>1, <1>2, <1>5 DEF TypeOK
<1> HIDE DEF new
<1> QED BY <1>1, <1>3, <1>4, <1>5, <1>6

(* AfterRefresh: the caller ends, or resolves its account again.           *)
LEMMA AfterEffect ==
  ASSUME NEW c \in Call, NEW ok \in BOOLEAN
  PROVE  LET new == AfterRefresh(c, ok)
         IN /\ new \in Call
            /\ \/ Ended(new) /\ new.ref = NoRef
               \/ /\ c.kind # "timer" /\ new.kind = "token" /\ new.cur = NoRef
                  /\ new.hand = NoToken
                  /\ IF c.kind = "force" THEN new.pc = "resolve" ELSE new.pc = "reread"
                  /\ new.asked = c.asked /\ new.ref = c.ref /\ new.chosen = c.chosen
<1> DEFINE pc == IF c.kind = "force" THEN "resolve" ELSE "reread"
           on == [c EXCEPT !.pc = pc, !.kind = "token", !.cur = NoRef, !.hand = NoToken]
<1>0. NoRef \in Ref /\ NoToken \in Tokens /\ "token" \in Kinds
  BY IdleCall DEF Kinds, Refreshing
<1>1. /\ on \in Call /\ on.kind = "token" /\ on.cur = NoRef /\ on.hand = NoToken /\ on.pc = pc
      /\ on.asked = c.asked /\ on.ref = c.ref /\ on.chosen = c.chosen
  BY <1>0 DEF Call
<1>2. CASE ~ok \/ c.kind = "timer"
  BY <1>2, IdleCall DEF AfterRefresh, Ended
<1>3. CASE ok /\ c.kind # "timer"
  <2>1. AfterRefresh(c, ok) = on
    BY <1>3 DEF AfterRefresh
  <2> HIDE DEF on
  <2> QED BY <1>1, <1>3, <2>1
<1> QED BY <1>2, <1>3

-----------------------------------------------------------------------------
(* The state keeps its type.                                               *)

(* Settle leaves every call well typed; those whose timers failed are      *)
(* accounts.                                                               *)
LEMMA SettleType ==
  ASSUME TypeOK, Shaped, NEW k \in Calls, NEW ok \in BOOLEAN
  PROVE  /\ Settle(k, ok) => calls' \in [Calls -> Call]
         /\ TimedOut(k) \in SUBSET Accounts /\ Waiters(k) \cup {k} \subseteq Calls
<1>1. \A l \in Calls : AfterRefresh(calls[l], ok) \in Call /\ calls[l] \in Call
  BY AfterEffect DEF TypeOK
<1>2. Settle(k, ok) => calls' \in [Calls -> Call]
  BY <1>1 DEF Settle
<1>3. Waiters(k) \cup {k} \subseteq Calls
  BY DEF Waiters
<1>4. \A l \in Calls : calls[l].kind = "timer" => calls[l].asked \in Accounts
  BY <1>1 DEF Shaped, ShapedCall, Call
<1>5. TimedOut(k) \in SUBSET Accounts
  BY <1>3, <1>4 DEF TimedOut, TypeOK
<1> QED BY <1>2, <1>3, <1>5

(* Meanwhile leaves every call well typed.                                 *)
LEMMA MeanwhileType ==
  ASSUME TypeOK, NEW k \in Calls, NEW d \in Document, NEW versioned \in BOOLEAN,
         Meanwhile(k, d, versioned)
  PROVE  calls' \in [Calls -> Call]
<1>1. Selected(d) \in Accounts \cup {None}
  BY DEF Selected, Document
<1>2. ASSUME NEW l \in Calls PROVE calls'[l] \in Call
  <2> DEFINE c == calls[l]
             stale == c.stale \/ (versioned /\ c.kind \in Admin)
             chosen == IF c.chosen = {} THEN c.chosen ELSE c.chosen \cup {Selected(d)}
  <2>1. c \in Call
    BY DEF TypeOK
  <2>2. stale \in BOOLEAN /\ chosen \in SUBSET (Accounts \cup {None})
    BY <1>1, <2>1 DEF Call
  <2>3. calls'[l] = IF l = k THEN Idle ELSE [c EXCEPT !.stale = stale, !.chosen = chosen]
    BY DEF Meanwhile
  <2> HIDE DEF stale, chosen
  <2>4. [c EXCEPT !.stale = stale, !.chosen = chosen] \in Call
    BY <2>1, <2>2 DEF Call
  <2> QED BY <2>3, <2>4, IdleCall DEF Ended
<1>3. DOMAIN calls' = Calls /\ calls' = [l \in DOMAIN calls' |-> calls'[l]]
  BY DEF Meanwhile
<1> QED BY <1>2, <1>3

(* What a call writes is a document.                                       *)
LEMMA WrittenType ==
  ASSUME TypeOK, NEW k \in Calls, calls[k].cur.acct # None
  PROVE  /\ Written(calls[k]) \in Document /\ calls[k].cur.acct \in Accounts
         /\ Written(calls[k]).accounts = doc.accounts
         /\ Written(calls[k]).active = doc.active
         /\ \A a \in Accounts :
              Written(calls[k]).token[a] = IF a = calls[k].cur.acct /\ a \in doc.accounts
                                           THEN calls[k].hand ELSE doc.token[a]
<1>1. calls[k] \in Call /\ doc \in Document
  BY DEF TypeOK
<1>2. calls[k].cur.acct \in Accounts /\ calls[k].hand \in Tokens
  BY <1>1 DEF Call, Ref
<1> QED BY <1>1, <1>2 DEF Written, Document

(* So is the array that a call saves.                                      *)
LEMMA ArrayType ==
  ASSUME TypeOK, Shaped, NEW k \in Calls, calls[k].kind \in Admin
  PROVE  LET c == calls[k]
         IN /\ ArrayOf(c) \in Document /\ c.asked \in Accounts /\ c.copy \in Document
            /\ c.kind = "register" =>
                 /\ ArrayOf(c).accounts = c.copy.accounts \cup {c.asked}
                 /\ \A a \in Accounts : ArrayOf(c).token[a] = c.copy.token[a]
            /\ c.kind # "register" =>
                 /\ c.kind = "delete" /\ ArrayOf(c).accounts = c.copy.accounts \ {c.asked}
                 /\ \A a \in Accounts : ArrayOf(c).token[a] =
                      IF a = c.asked THEN NoToken ELSE c.copy.token[a]
<1> DEFINE c == calls[k]
<1>1. c \in Call /\ doc \in Document /\ c.copy \in Document
  BY DEF TypeOK, Call
<1>2. c.asked \in Accounts /\ NoToken \in Tokens
  BY <1>1, IdleCall DEF Shaped, ShapedCall, Call
<1>3. CASE c.kind = "register"
  <2> DEFINE new == [doc EXCEPT !.accounts = c.copy.accounts \cup {c.asked},
                                !.token = c.copy.token]
  <2>1. ArrayOf(c) = new
    BY <1>3 DEF ArrayOf
  <2>2. new \in Document /\ new.accounts = c.copy.accounts \cup {c.asked}
        /\ new.token = c.copy.token
    <3> HIDE DEF c
    <3> QED BY <1>1, <1>2 DEF Document
  <2> HIDE DEF new
  <2> QED BY <1>1, <1>2, <1>3, <2>1, <2>2
<1>4. CASE c.kind = "delete"
  <2> DEFINE new == [accounts |-> c.copy.accounts \ {c.asked},
                     token |-> [c.copy.token EXCEPT ![c.asked] = NoToken],
                     active |-> IF c.copy.active = c.asked THEN None ELSE doc.active]
  <2>1. ArrayOf(c) = new
    BY <1>4 DEF ArrayOf
  <2>2. new \in Document /\ new.accounts = c.copy.accounts \ {c.asked}
        /\ \A a \in Accounts :
             new.token[a] = IF a = c.asked THEN NoToken ELSE c.copy.token[a]
    <3> HIDE DEF c
    <3> QED BY <1>1, <1>2 DEF Document
  <2> HIDE DEF new
  <2> QED BY <1>1, <1>2, <1>4, <2>1, <2>2
<1> QED BY <1>3, <1>4 DEF Admin

(* Every step keeps the type.                                              *)
LEMMA NextType ==
  ASSUME TypeOK, Shaped, Next
  PROVE  TypeOK'
<1> USE DEF TypeOK
<1>1. /\ \A A \in SUBSET Accounts, k \in Calls : Overlaps(k, A) \subseteq Accounts
      /\ \A k \in Calls : calls[k] \in Call /\ calls[k].cur.acct \in Accounts \cup {None}
  BY DEF Overlaps, Call, Ref
<1>2. Event => events' \in 0 .. MaxEvents
  BY BoundsAssumption DEF Event
<1>3. ASSUME NEW k \in Calls, NEW i \in Instances, Check(k, i) PROVE TypeOK'
  BY <1>3, CheckEffect, ChangedCall DEF Check, history
<1>4. ASSUME NEW k \in Calls, NEW i \in Instances, NEW asked \in Accounts \cup {None},
             Ask(k, i, asked) PROVE TypeOK'
  BY <1>4, AskEffect, ChangedCall DEF Ask, AsksFor, history
<1>5. ASSUME NEW k \in Calls, NEW i \in Instances, NEW asked \in Accounts \cup {None},
             Authorise(k, i, asked) PROVE TypeOK'
  BY <1>2, <1>5, AuthoriseEffect, ChangedCall DEF Authorise, history
<1>6. ASSUME NEW k \in Calls, NEW i \in Instances, NEW asked \in Accounts \cup {None},
             Profile(k, i, asked) PROVE TypeOK'
  <2>1. calls' \in [Calls -> Call]
    <3>1. PICK new \in Call : Changes(k, new)
      BY <1>6, ProfileEffect DEF TakesProfile
    <3> QED BY <3>1, ChangedCall
  <2>2. {asked} \in SUBSET Accounts
    BY <1>6 DEF Profile
  <2>3. Overlaps(k, {asked}) \subseteq Accounts
    BY <1>1, <2>2
  <2> QED BY <1>2, <1>6, <2>1, <2>3 DEF Profile
<1>7. ASSUME NEW k \in Calls, NEW i \in Instances, NEW kind \in Setting,
             NEW asked \in Accounts \cup {None}, ReadDocument(k, i, kind, asked) PROVE TypeOK'
  <2>1. calls' \in [Calls -> Call] /\ contested' \in SUBSET Accounts
    BY <1>1, <1>7, ReadEffect, ChangedCall
  <2> QED BY <1>2, <1>7, <2>1 DEF ReadDocument
<1>8. ASSUME NEW k \in Calls, NEW i \in Instances, NEW a \in Accounts, Fire(k, i, a)
      PROVE TypeOK'
  BY <1>8, FireEffect, ChangedCall DEF Fire, history
<1>9. ASSUME NEW k \in Calls, Resolve(k) PROVE TypeOK'
  BY <1>9, ResolveEffect, ChangedCall DEF Resolve, history
<1>10. ASSUME NEW k \in Calls, Acquire(k) PROVE TypeOK'
  <2>1. CASE Settles(Waiters(k) \cup {k}, FALSE) /\ unattended' = TimedOut(k)
             /\ contested' = contested
    BY <1>10, <2>1, SettleType DEF Acquire, Settles, Settle
  <2>2. ASSUME NEW new \in Call, NEW a \in doc.accounts,
               Changes(k, new), unattended' = unattended,
               contested' = contested \cup Overlaps(k, {a})
        PROVE TypeOK'
    BY <1>1, <1>10, <2>2, ChangedCall, Found DEF Acquire
  <2> QED BY <1>10, <2>1, <2>2, AcquireEffect
<1>11. ASSUME NEW k \in Calls, Join(k) PROVE TypeOK'
  BY <1>11, JoinEffect, ChangedCall DEF Join, history
<1>12. ASSUME NEW k \in Calls, Exchange(k) PROVE TypeOK'
  <2>1. calls[k].cur.acct # None
    BY <1>12 DEF Exchange, Shaped, ShapedCall, Refreshing, Setting, Admin
  <2>2. calls' \in [Calls -> Call] /\ grants' \in [Accounts -> 0 .. MaxGrants]
    BY <1>12, <2>1, ExchangeEffect, ChangedCall
  <2> QED BY <1>12, <2>2 DEF Exchange, history
<1>13. ASSUME NEW k \in Calls, RefreshFails(k) PROVE TypeOK'
  BY <1>13, SettleType DEF RefreshFails
<1>14. ASSUME NEW k \in Calls, ReplyLost(k) PROVE TypeOK'
  <2>1. calls[k].cur.acct \in Accounts
    BY <1>1, <1>14 DEF ReplyLost, Shaped, ShapedCall, Refreshing, Setting, Admin
  <2>2. grants' \in [Accounts -> 0 .. MaxGrants]
    BY <1>14, <2>1, BoundsAssumption DEF ReplyLost, Granted
  <2> QED BY <1>2, <1>14, <2>1, <2>2, SettleType DEF ReplyLost
<1>15. ASSUME NEW k \in Calls, Reread(k) PROVE TypeOK'
  BY <1>15, RereadEffect, ChangedCall DEF Reread, history
<1>16. ASSUME NEW k \in Calls, Authenticate(k) PROVE TypeOK'
  <2>1. calls[k].cur.acct \in Accounts
    BY <1>1, <1>16 DEF Authenticate, Shaped, ShapedCall, Refreshing, Setting, Admin
  <2>2. calls' \in [Calls -> Call] /\ grants' \in [Accounts -> 0 .. MaxGrants]
    BY <1>16, <2>1, AuthenticateEffect, ChangedCall, Found
  <2>3. Overlaps(k, {calls[k].cur.acct}) \subseteq Accounts
    BY <1>1, <2>1
  <2> QED BY <1>16, <2>2, <2>3 DEF Authenticate
<1>17. ASSUME NEW k \in Calls, Redirect(k) PROVE TypeOK'
  <2>1. calls' \in [Calls -> Call] /\ contested' \in SUBSET Accounts
    BY <1>1, <1>17, RedirectEffect, ChangedCall, Found
  <2> QED BY <1>17, <2>1 DEF Redirect
<1>18. ASSUME NEW k \in Calls, CallFails(k) PROVE TypeOK'
  BY <1>18, IdleCall, ChangedCall DEF CallFails, history, Ended, Changes
<1>19. ASSUME NEW k \in Calls, Save(k) PROVE TypeOK'
  <2>1. calls[k].cur.acct # None
    BY <1>19 DEF Save, Shaped, ShapedCall, Setting
  <2>2. doc' \in Document /\ calls[k].cur.acct \in Accounts
    BY <1>19, <2>1, WrittenType DEF Save
  <2>3. timers' \in [Instances -> SUBSET Accounts]
    BY <1>19, <2>2 DEF Save, Scheduled
  <2>4. calls' \in [Calls -> Call]
    BY <1>19, SettleType, IdleCall DEF Save, Ended
  <2> QED BY <1>19, <2>2, <2>3, <2>4 DEF Save
<1>20. ASSUME NEW k \in Calls, SaveFails(k) PROVE TypeOK'
  <2>1. calls[k].cur.acct # None
    BY <1>20 DEF SaveFails, Shaped, ShapedCall, Setting
  <2>2. doc' \in Document /\ calls[k].cur.acct \in Accounts
    BY <1>20, <2>1, WrittenType DEF SaveFails
  <2> QED BY <1>2, <1>20, <2>2, SettleType DEF SaveFails
<1>21. ASSUME NEW k \in Calls, SaveArray(k) PROVE TypeOK'
  <2>1. calls[k].kind \in Admin
    BY <1>21 DEF SaveArray
  <2>2. CASE Savable(calls[k])
    <3>1. /\ doc' \in Document /\ Meanwhile(k, doc', TRUE)
          /\ calls[k].asked \in Accounts
      BY <1>21, <2>1, <2>2, ArrayType DEF SaveArray
    <3>2. calls' \in [Calls -> Call]
      BY <3>1, MeanwhileType
    <3>3. unattended' \in SUBSET Accounts
      BY <1>21, <2>2 DEF SaveArray, Rewritten
    <3> QED BY <1>21, <2>2, <3>1, <3>2, <3>3 DEF SaveArray
  <2>3. CASE ~Savable(calls[k])
    BY <1>21, <2>3, IdleCall DEF SaveArray, Ended
  <2> QED BY <2>2, <2>3
<1>22. ASSUME NEW k \in Calls, SaveActive(k) PROVE TypeOK'
  <2>1. doc' \in Document /\ Meanwhile(k, doc', FALSE)
    BY <1>1, <1>22 DEF SaveActive, Document, Call
  <2>2. calls' \in [Calls -> Call]
    BY <2>1, MeanwhileType
  <2> QED BY <1>22, <2>1, <2>2 DEF SaveActive, history
<1>23. ASSUME NEW i \in Instances, Crash(i) PROVE TypeOK'
  <2>1. \A k \in Calls : calls[k].hand # NoToken => calls[k].cur.acct \in Accounts
    BY <1>1 DEF Shaped, ShapedCall
  <2>2. calls' \in [Calls -> Call]
    BY <1>1, <1>23, IdleCall DEF Crash, Ended
  <2>3. contested' \in SUBSET Accounts
    BY <1>23, <2>1 DEF Crash
  <2> QED BY <1>2, <1>23, <2>2, <2>3 DEF Crash
<1>24. ASSUME NEW i \in Instances, Boot(i) PROVE TypeOK'
  <2>1. Schedulable(doc) \subseteq Accounts
    BY <1>1 DEF Schedulable, Document
  <2>2. timers' \in [Instances -> SUBSET Accounts] /\ unattended' \in SUBSET Accounts
    BY <1>24, <2>1 DEF Boot
  <2> QED BY <1>2, <1>24, <2>2 DEF Boot
<1> QED
  BY <1>3, <1>4, <1>5, <1>6, <1>7, <1>8, <1>9, <1>10, <1>11, <1>12, <1>13, <1>14, <1>15,
     <1>16, <1>17, <1>18, <1>19, <1>20, <1>21, <1>22, <1>23, <1>24
  DEF Next, Step, Begin, Refresh, Setting

-----------------------------------------------------------------------------
(* What becomes of the invariant when calls let go of accounts, or take    *)
(* them.                                                                   *)

\* A call that holds no account.
Calm(c) ==
    /\ c.kind \notin Admin \cup {"profile"}
    /\ \/ c.kind = "activate"
       \/ c.pc \in {"idle", "resolve", "refresh", "wait", "reread"}
       \/ c.pc = "exchange" /\ c.kind \in {"callback", "consent"}

\* What can be said of a call whatever others do.
Sound(c) == ShapedCall(c) /\ NamedCall(c) /\ AskedCall(c)

(* A call that lets go leaves what it had in the document.                 *)
LEMMA Release ==
  ASSUME Inv, TypeOK', NEW S \in SUBSET Calls,
         doc'.accounts = doc.accounts, doc'.active = doc.active, gone' = gone,
         contested \subseteq contested', \A i \in Instances : timers'[i] \subseteq Known,
         \A l \in Calls \ S : calls'[l] = calls[l],
         \A l \in S : Calm(calls'[l]) /\ Sound(calls'[l]),
         \A a \in Accounts : /\ doc.token[a] # NoToken => doc'.token[a] # NoToken
                             /\ a \notin Known => grants'[a] = grants[a] /\ doc'.token[a] = doc.token[a],
         \A a \in Accounts \ contested' :
            /\ grants'[a] = grants[a]
            /\ \/ doc'.token[a] = doc.token[a]
               \/ doc'.token[a] = Live(a) /\ \E l \in S : Holds(calls[l], a)
            /\ \A l \in S : Holds(calls[l], a) /\ calls[l].hand = Live(a) /\ a \in doc.accounts =>
                 doc'.token[a] = Live(a)
  PROVE  Inv'
<1> USE DEF Inv
<1>1. Known' = Known /\ Selected(doc') = Selected(doc)
  BY DEF Known, Selected
<1>2. \A a \in Accounts \ contested' : Live(a)' = Live(a) /\ Live(a).of = a
  BY DEF Live
<1>3. ASSUME NEW l \in S
      PROVE  /\ \A a : ~Holds(calls'[l], a)
             /\ CurrentCall(calls[l])' /\ CopiedCall(calls[l])' /\ calls'[l].kind # "register"
  <2>1. Calm(calls'[l])
    OBVIOUS
  <2>2. (\A a : ~Holds(calls'[l], a)) /\ calls'[l].kind # "register"
    BY <2>1 DEF Calm, Holds, InRefresh, Admin, Refreshing
  <2>3. CurrentCall(calls[l])' /\ CopiedCall(calls[l])'
    BY <2>1 DEF Calm, CurrentCall, CopiedCall, InRefresh, Admin, Refreshing, Setting
  <2> QED BY <2>2, <2>3
<1>4. ASSUME NEW l \in Calls \ S, NEW a \in Accounts \ contested', Holds(calls[l], a)
      PROVE  doc'.token[a] = doc.token[a]
  BY <1>4 DEF Owned
<1>5. Shaped'
  <2> SUFFICES ASSUME NEW l \in Calls PROVE ShapedCall(calls'[l])
    BY DEF Shaped, ShapedCall
  <2> QED BY DEF Shaped, Sound
<1>6. Named'
  <2>1. ASSUME NEW l \in Calls PROVE NamedCall(calls[l])'
    <3>1. NamedCall(calls'[l])
      BY DEF Named, Sound
    <3> QED BY <1>1, <3>1 DEF NamedCall
  <2> QED BY <1>1, <2>1 DEF Named
<1>7. Owned'
  <2> SUFFICES ASSUME NEW l \in Calls, NEW m \in Calls, NEW a \in Accounts \ contested',
                      Holds(calls'[l], a), Holds(calls'[m], a)
               PROVE  l = m
    BY DEF Owned, Holds, InRefresh
  <2> QED BY <1>3 DEF Owned
<1>8. Current'
  <2>1. ASSUME NEW l \in Calls \ S PROVE CurrentCall(calls[l])'
    <3> DEFINE c == calls[l]
    <3>1. calls'[l] = c /\ CurrentCall(c) /\ c.cur.acct \in Accounts \cup {None}
      BY DEF Current, TypeOK, Call, Ref
    <3>2. CASE c.kind \notin Setting /\ c.cur.acct \notin contested' \cup {None}
      <4> DEFINE a == c.cur.acct
      <4>1. a \in Accounts \ contested'
        BY <3>1, <3>2
      <4>2. (InRefresh(c) /\ c.pc = "exchange") \/ c.kind = "profile" => Holds(c, a)
        BY DEF Holds, Current, Shaped, ShapedCall
      <4>3. InRefresh(c)' = InRefresh(c)
        BY <3>1 DEF InRefresh
      <4>4. Live(a)' = Live(a) /\ (Holds(c, a) => doc'.token[a] = doc.token[a])
        BY <1>2, <1>4, <4>1
      <4>5. a \notin contested \cup {None}
        BY <3>2
      <4> HIDE DEF a
      <4>6. /\ InRefresh(c) /\ c.pc = "exchange" => c.cur.tok = Live(a) /\ doc.token[a] = Live(a)
            /\ c.pc \in {"redirect", "save"} => c.hand = Live(a)
            /\ c.kind = "profile" => doc.token[a] = Live(a)
        BY <3>1, <3>2, <4>5 DEF CurrentCall, a
      <4> QED BY <3>1, <4>2, <4>3, <4>4, <4>6 DEF CurrentCall, a
    <3>3. CASE ~(c.kind \notin Setting /\ c.cur.acct \notin contested' \cup {None})
      BY <3>1, <3>3 DEF CurrentCall
    <3> QED BY <3>2, <3>3
  <2> QED BY <1>3, <2>1 DEF Current
<1>9. Copied'
  <2>1. ASSUME NEW l \in Calls \ S PROVE CopiedCall(calls[l])'
    <3> DEFINE c == calls[l]
    <3>1. calls'[l] = c /\ CopiedCall(c)
      BY DEF Copied
    <3>2. c.kind \in Admin => \A a \in Accounts : Holds(c, a)
      BY DEF Holds, Shaped, ShapedCall, Setting
    <3> HIDE DEF c
    <3>3. c.kind \in Admin => \A a \in Accounts \ contested' : doc'.token[a] = doc.token[a]
      BY <1>4, <3>2 DEF c
    <3> QED BY <1>1, <3>1, <3>3 DEF CopiedCall, c
  <2>2. ASSUME NEW l \in Calls, NEW m \in Calls, calls'[l].kind = "register",
               calls'[m].kind = "register", calls'[l].asked = calls'[m].asked
        PROVE  l = m
    <3>1. l \notin S /\ m \notin S
      BY <1>3, <2>2
    <3> QED BY <2>2, <3>1 DEF Copied
  <2>3. \A l \in Calls : CopiedCall(calls[l])'
    BY <1>3, <2>1
  <2> QED BY <2>2, <2>3 DEF Copied
<1>10. Asked'
  <2>1. ASSUME NEW a \in Accounts \ contested'
        PROVE  doc'.token[a] = NoToken \/ doc'.token[a].of = a
    BY <1>2 DEF Asked
  <2>2. ASSUME NEW l \in Calls PROVE AskedCall(calls[l])'
    <3>1. AskedCall(calls'[l])
      BY DEF Asked, Sound
    <3> QED BY <1>1, <3>1 DEF AskedCall
  <2> QED BY <2>1, <2>2 DEF Asked
<1>11. LiveTokenIsKept'
  <2> SUFFICES ASSUME NEW a \in doc.accounts \ contested'
               PROVE  \/ grants'[a] = 0 /\ doc'.token[a] = NoToken
                      \/ doc'.token[a] = Live(a)
                      \/ \E l \in Calls : Holds(calls'[l], a) /\ calls'[l].hand = Live(a)
    BY <1>2, Found DEF LiveTokenIsKept, Holds, InRefresh
  <2>1. a \in Accounts \ contested'
    BY Found
  <2>2. CASE doc.token[a] = Live(a) \/ (grants[a] = 0 /\ doc.token[a] = NoToken)
    BY <2>1, <2>2
  <2>3. ASSUME NEW l \in Calls, Holds(calls[l], a), calls[l].hand = Live(a)
        PROVE  doc'.token[a] = Live(a) \/ (Holds(calls'[l], a) /\ calls'[l].hand = Live(a))
    BY <2>1, <2>3
  <2> QED BY <2>1, <2>2, <2>3 DEF LiveTokenIsKept
<1>12. DeletedStaysDeleted'
  BY DEF DeletedStaysDeleted
<1> QED BY <1>5, <1>6, <1>7, <1>8, <1>9, <1>10, <1>11, <1>12

(* A call that takes accounts, or goes on with them, takes none that       *)
(* another call has, but for those that are contested from then on.        *)
LEMMA Take ==
  ASSUME Inv, TypeOK', NEW k \in Calls, NEW new \in Call, Changes(k, new),
         doc' = doc, gone' = gone, timers' = timers, contested \subseteq contested',
         Sound(new), CurrentCall(new)', CopiedCall(new),
         new.kind = "register" =>
           \A l \in Calls \ {k} : calls[l].kind = "register" => calls[l].asked # new.asked,
         \A a \in Accounts : grants'[a] = grants[a] \/ a \in Known,
         \A a \in Accounts \ contested' :
            /\ Holds(new, a) => \A l \in Calls \ {k} : ~Holds(calls[l], a)
            /\ grants'[a] = grants[a] \/ (Holds(new, a) /\ new.hand = Live(a)')
            /\ Holds(calls[k], a) /\ calls[k].hand = Live(a) /\ doc.token[a] # Live(a) =>
                 Holds(new, a) /\ new.hand = Live(a)'
  PROVE  Inv'
<1> USE DEF Inv
<1>1. /\ calls'[k] = new /\ \A l \in Calls \ {k} : calls'[l] = calls[l]
      /\ Known' = Known
  BY ChangedCall DEF Known
<1>2. ASSUME NEW l \in Calls \ {k}, NEW a \in Accounts \ contested', Holds(calls[l], a)
      PROVE  grants'[a] = grants[a] /\ Live(a)' = Live(a)
  BY <1>2 DEF Live
<1>3. Shaped'
  BY <1>1 DEF Shaped, ShapedCall, Sound
<1>4. Named'
  <2>1. ASSUME NEW l \in Calls PROVE NamedCall(calls[l])'
    <3>1. NamedCall(calls'[l])
      BY <1>1 DEF Named, Sound
    <3> QED BY <1>1, <3>1 DEF NamedCall
  <2> QED BY <1>1, <2>1 DEF Named
<1>5. Owned'
  <2> SUFFICES ASSUME NEW l \in Calls, NEW m \in Calls, NEW a \in Accounts \ contested',
                      Holds(calls'[l], a), Holds(calls'[m], a)
               PROVE  l = m
    BY DEF Owned, Holds, InRefresh
  <2> QED BY <1>1 DEF Owned
<1>6. Current'
  <2>1. CurrentCall(calls[k])'
    BY <1>1 DEF CurrentCall
  <2>2. ASSUME NEW l \in Calls \ {k} PROVE CurrentCall(calls[l])'
    <3> DEFINE c == calls[l]
    <3>1. calls'[l] = c /\ CurrentCall(c) /\ c.cur.acct \in Accounts \cup {None}
      BY <1>1 DEF Current, TypeOK, Call, Ref
    <3>2. CASE c.kind \notin Setting /\ c.cur.acct \notin contested' \cup {None}
      <4> DEFINE a == c.cur.acct
      <4>1. a \in Accounts \ contested'
        BY <3>1, <3>2
      <4>2. /\ (InRefresh(c) /\ c.pc = "exchange") \/ c.kind = "profile" => Holds(c, a)
            /\ c.pc \in {"redirect", "save"} => Holds(c, a)
        BY <3>2 DEF Holds, Shaped, ShapedCall, InRefresh, Setting, Admin, Refreshing,
                    TypeOK, Call, Kinds
      <4>3. InRefresh(c)' = InRefresh(c)
        BY <3>1 DEF InRefresh
      <4>4. Holds(c, a) => Live(a)' = Live(a)
        <5>1. Holds(c, a) => grants'[a] = grants[a]
          BY <1>2, <4>1
        <5> QED BY <3>1, <5>1 DEF Live
      <4>5. a \notin contested \cup {None}
        BY <3>2
      <4> HIDE DEF a
      <4>6. /\ InRefresh(c) /\ c.pc = "exchange" => c.cur.tok = Live(a) /\ doc.token[a] = Live(a)
            /\ c.pc \in {"redirect", "save"} => c.hand = Live(a)
            /\ c.kind = "profile" => doc.token[a] = Live(a)
        BY <3>1, <3>2, <4>5 DEF CurrentCall, a
      <4> QED BY <3>1, <4>2, <4>3, <4>4, <4>6 DEF CurrentCall, a
    <3>3. CASE ~(c.kind \notin Setting /\ c.cur.acct \notin contested' \cup {None})
      BY <3>1, <3>3 DEF CurrentCall
    <3> QED BY <3>2, <3>3
  <2> QED BY <2>1, <2>2 DEF Current
<1>7. Copied'
  <2>1. ASSUME NEW l \in Calls PROVE CopiedCall(calls[l])'
    <3>1. CopiedCall(calls'[l])
      BY <1>1 DEF Copied
    <3> QED BY <1>1, <3>1 DEF CopiedCall
  <2>2. ASSUME NEW l \in Calls, NEW m \in Calls, calls'[l].kind = "register",
               calls'[m].kind = "register", calls'[l].asked = calls'[m].asked
        PROVE  l = m
    BY <1>1, <2>2 DEF Copied
  <2> QED BY <2>1, <2>2 DEF Copied
<1>8. Asked'
  <2>1. ASSUME NEW l \in Calls PROVE AskedCall(calls[l])'
    <3>1. AskedCall(calls'[l])
      BY <1>1 DEF Asked, Sound
    <3> QED BY <1>1, <3>1 DEF AskedCall
  <2> QED BY <2>1 DEF Asked
<1>9. LiveTokenIsKept'
  <2> SUFFICES ASSUME NEW a \in doc.accounts \ contested'
               PROVE  \/ grants'[a] = 0 /\ doc.token[a] = NoToken
                      \/ doc.token[a] = Live(a)'
                      \/ \E l \in Calls : Holds(calls'[l], a) /\ calls'[l].hand = Live(a)'
    BY Found DEF LiveTokenIsKept, Holds, InRefresh
  <2>1. a \in Accounts \ contested'
    BY Found
  <2>2. CASE grants'[a] # grants[a] \/ (Holds(new, a) /\ new.hand = Live(a)')
    BY <1>1, <2>1, <2>2
  <2>3. CASE grants'[a] = grants[a] /\ ~(Holds(new, a) /\ new.hand = Live(a)')
    <3>1. Live(a)' = Live(a)
      BY <2>3 DEF Live
    <3>2. CASE doc.token[a] = Live(a) \/ (grants[a] = 0 /\ doc.token[a] = NoToken)
      BY <2>3, <3>1, <3>2
    <3>3. ASSUME NEW l \in Calls, Holds(calls[l], a), calls[l].hand = Live(a)
          PROVE  doc.token[a] = Live(a) \/ (Holds(calls'[l], a) /\ calls'[l].hand = Live(a))
      BY <1>1, <2>1, <2>3, <3>3
    <3> QED BY <2>1, <3>1, <3>2, <3>3 DEF LiveTokenIsKept
  <2> QED BY <2>2, <2>3
<1>10. DeletedStaysDeleted'
  BY DEF DeletedStaysDeleted
<1> QED BY <1>3, <1>4, <1>5, <1>6, <1>7, <1>8, <1>9, <1>10

(* Steps of one call that leave it calm.                                   *)
LEMMA CalmStep ==
  ASSUME Inv, TypeOK', NEW k \in Calls, NEW new \in Call, Changes(k, new),
         doc' = doc, grants' = grants, gone' = gone, contested' = contested,
         \A i \in Instances : timers'[i] \subseteq Known,
         Calm(new), Sound(new),
         \A a \in Accounts \ contested :
            Holds(calls[k], a) /\ calls[k].hand = Live(a) => doc.token[a] = Live(a)
  PROVE  Inv'
<1>1. calls'[k] = new /\ \A l \in Calls \ {k} : calls'[l] = calls[l]
  BY ChangedCall DEF Inv
<1>2. {k} \in SUBSET Calls
  OBVIOUS
<1>3. \A l \in {k} : Calm(calls'[l]) /\ Sound(calls'[l])
  BY <1>1
<1> QED BY <1>1, <1>2, <1>3, Release

(* An account that is found with a token is the one asked for, or the one  *)
(* selected, and the token is its own.                                     *)
LEMMA Answers ==
  ASSUME Inv, NEW asked \in Accounts \cup {None}, RefOf(Lookup(asked)).tok # NoToken
  PROVE  /\ RefOf(Lookup(asked)).acct \in doc.accounts
         /\ asked # None => RefOf(Lookup(asked)).acct = asked
         /\ asked = None /\ Selected(doc) # None => RefOf(Lookup(asked)).acct = Selected(doc)
         /\ RefOf(Lookup(asked)).acct \notin contested =>
              RefOf(Lookup(asked)).tok.of = RefOf(Lookup(asked)).acct
<1> DEFINE ref == RefOf(Lookup(asked))
<1> TypeOK
  BY DEF Inv
<1>1. /\ ref.acct \in doc.accounts /\ (asked # None => ref.acct = asked)
      /\ asked = None => ref.acct = AccountFor
      /\ ref.tok = doc.token[ref.acct] /\ ref.tok # NoToken
  BY LookedUp
<1>2. doc.accounts \subseteq Accounts /\ (Selected(doc) # None => AccountFor = Selected(doc))
  BY Found
<1>3. ref.acct \notin contested => ref.tok.of = ref.acct
  <2> HIDE DEF ref
  <2> QED BY <1>1, <1>2 DEF Inv, Asked
<1> QED BY <1>1, <1>2, <1>3

(* A call that begins, resolves, waits, answers or goes wrong is calm.     *)
LEMMA CalmInv ==
  ASSUME Inv, TypeOK', NEW k \in Calls,
         \/ Resolve(k) \/ Reread(k) \/ Join(k) \/ CallFails(k)
         \/ \E i \in Instances :
              \/ Check(k, i)
              \/ \E asked \in Accounts \cup {None} : Ask(k, i, asked) \/ Authorise(k, i, asked)
              \/ \E a \in Accounts : Fire(k, i, a)
  PROVE  Inv'
<1> DEFINE c == calls[k]
<1> TypeOK /\ Shaped /\ Named /\ Asked
  BY DEF Inv
<1>1. /\ c \in Call /\ c.asked \in Accounts \cup {None}
      /\ ShapedCall(c) /\ NamedCall(c) /\ AskedCall(c)
  BY DEF TypeOK, Call, Shaped, Named, Asked
<1>2. Selected(doc) \in doc.accounts \cup {None} /\ NoRef.acct = None
      /\ \A i \in Instances : timers[i] \subseteq Known
  BY DEF Selected, NoRef, Named
<1>3. \A new : Ended(new) /\ new.ref.acct \in Known \cup {None} => Calm(new) /\ Sound(new)
  BY <1>2 DEF Ended, Calm, Sound, ShapedCall, NamedCall, AskedCall, InRefresh, Admin, Setting
<1>4. \A a \in Accounts : c.hand = Live(a) => c.hand # NoToken
  BY AccountsAssumption DEF Live, NoToken
<1> DEFINE Lets == \A a \in Accounts \ contested :
                     Holds(c, a) /\ c.hand = Live(a) => doc.token[a] = Live(a)
<1>5. c.hand = NoToken => Lets
  BY <1>4
<1> HIDE DEF c
<1>6. ASSUME Resolve(k) PROVE Inv'
  <2> DEFINE ref == RefOf(Lookup(c.asked))
  <2>1. PICK new \in Call :
          /\ Changes(k, new) /\ c.pc = "resolve"
          /\ \/ Ended(new) /\ (new.ref = NoRef \/ (new.ref = ref /\ ref.tok # NoToken))
             \/ /\ new.pc = "refresh" /\ new.ref = ref /\ ref.tok # NoToken
                /\ new.kind = c.kind /\ new.asked = c.asked /\ new.cur = c.cur
                /\ new.hand = c.hand /\ new.chosen = c.chosen
    BY <1>6, ResolveEffect DEF c
  <2>2. /\ doc' = doc /\ grants' = grants /\ gone' = gone /\ contested' = contested
        /\ timers' = timers
    BY <1>6 DEF Resolve, history
  <2>3. c.kind = "token" /\ c.hand = NoToken
    BY <1>1, <2>1 DEF ShapedCall, Setting, Admin
  <2>4. ref.tok # NoToken =>
          /\ ref.acct \in doc.accounts /\ ref.acct # None
          /\ c.asked # None => ref.acct = c.asked
          /\ c.asked = None /\ Selected(doc) # None => ref.acct = Selected(doc)
          /\ ref.acct \notin contested => ref.tok.of = ref.acct
    BY <1>1, Answers, Found
  <2> HIDE DEF ref
  <2>5. CASE Ended(new)
    <3>1. Calm(new) /\ Sound(new)
      BY <1>2, <1>3, <2>1, <2>4, <2>5 DEF Known, Ended
    <3> QED BY <1>2, <1>5, <2>1, <2>2, <2>3, <3>1, CalmStep DEF c
  <2>6. CASE ~Ended(new)
    <3>1. Calm(new) /\ ShapedCall(new)
      BY <1>1, <2>1, <2>3, <2>4, <2>6 DEF Calm, ShapedCall, Admin, Refreshing, Setting
    <3>2. NamedCall(new)
      BY <1>1, <2>1, <2>3, <2>4, <2>6 DEF NamedCall, InRefresh, Known
    <3>3. AskedCall(new)
      BY <1>1, <2>1, <2>3, <2>4, <2>6 DEF AskedCall
    <3> QED BY <1>2, <1>5, <2>1, <2>2, <2>3, <3>1, <3>2, <3>3, CalmStep DEF c, Sound
  <2> QED BY <2>5, <2>6
<1>7. ASSUME Reread(k) PROVE Inv'
  <2> DEFINE ref == RefOf(Lookup(c.asked))
  <2>1. PICK new \in Call :
          /\ Changes(k, new) /\ c.pc = "reread" /\ Ended(new)
          /\ new.ref = IF ref.tok = NoToken THEN c.ref ELSE ref
    BY <1>7, RereadEffect DEF c
  <2>2. /\ doc' = doc /\ grants' = grants /\ gone' = gone /\ contested' = contested
        /\ timers' = timers
    BY <1>7 DEF Reread, history
  <2>3. c.hand = NoToken
    BY <1>1, <2>1 DEF ShapedCall
  <2>4. new.ref.acct \in Known \cup {None}
    BY <1>1, <2>1, LookedUp DEF NamedCall, Known
  <2>5. Calm(new) /\ Sound(new)
    BY <1>3, <2>1, <2>4
  <2> QED BY <1>2, <1>5, <2>1, <2>2, <2>3, <2>5, CalmStep DEF c
<1>8. ASSUME Join(k) PROVE Inv'
  <2>1. PICK new \in Call :
          /\ Changes(k, new) /\ c.pc = "refresh"
          /\ new.pc = "wait" /\ new.kind = c.kind /\ new.asked = c.asked /\ new.at = c.at
          /\ new.ref = c.ref /\ new.cur = c.cur /\ new.hand = c.hand /\ new.chosen = c.chosen
    BY <1>8, JoinEffect DEF c
  <2>2. /\ doc' = doc /\ grants' = grants /\ gone' = gone /\ contested' = contested
        /\ timers' = timers
    BY <1>8 DEF Join, history
  <2>3. c.kind \in Refreshing /\ c.hand = NoToken
    BY <1>1, <2>1 DEF ShapedCall
  <2>4. Calm(new) /\ ShapedCall(new)
    BY <1>1, <2>1, <2>3 DEF Calm, ShapedCall, Admin, Refreshing, Setting
  <2>5. NamedCall(new)
    BY <1>1, <2>1 DEF NamedCall, InRefresh
  <2>6. AskedCall(new)
    BY <1>1, <2>1 DEF AskedCall
  <2> QED BY <1>2, <1>5, <2>1, <2>2, <2>3, <2>4, <2>5, <2>6, CalmStep DEF c, Sound
<1>9. ASSUME CallFails(k) PROVE Inv'
  <2>1. /\ Changes(k, Idle) /\ doc' = doc /\ grants' = grants /\ gone' = gone
        /\ contested' = contested /\ timers' = timers
    BY <1>9 DEF CallFails, history, Changes
  <2>2. Idle \in Call /\ Calm(Idle) /\ Sound(Idle)
    BY <1>2, <1>3, IdleCall DEF Ended
  <2>3. Lets
    <3>1. CASE c.kind = "profile"
      <4>1. CurrentCall(c)
        BY DEF c, Inv, Current
      <4>2. \A a \in Accounts : Holds(c, a) => a = c.cur.acct
        BY <3>1 DEF Holds, InRefresh, Refreshing, Admin
      <4> QED BY <3>1, <4>1, <4>2, AccountsAssumption DEF CurrentCall, Setting, Admin
    <3>2. CASE c.pc = "exchange"
      BY <1>1, <1>5, <3>2 DEF ShapedCall
    <3> QED BY <1>9, <3>1, <3>2 DEF CallFails, c
  <2> QED BY <1>2, <2>1, <2>2, <2>3, CalmStep DEF c
<1>10. ASSUME NEW i \in Instances, Check(k, i) PROVE Inv'
  <2>1. PICK new \in Call :
          /\ Changes(k, new) /\ c.pc = "idle"
          /\ new.pc = "resolve" /\ new.kind = "token" /\ new.asked = None
          /\ new.ref = NoRef /\ new.cur = NoRef /\ new.hand = NoToken
          /\ new.chosen = {Selected(doc)}
    BY <1>10, CheckEffect DEF c
  <2>2. /\ doc' = doc /\ grants' = grants /\ gone' = gone /\ contested' = contested
        /\ timers' = timers
    BY <1>10 DEF Check, history
  <2>3. Calm(new) /\ ShapedCall(new)
    BY <2>1 DEF Calm, ShapedCall, Admin, Setting
  <2>4. NamedCall(new) /\ AskedCall(new)
    BY <1>2, <2>1 DEF NamedCall, AskedCall, InRefresh
  <2>5. Lets
    BY <1>1, <1>5, <2>1 DEF ShapedCall
  <2> QED BY <1>2, <2>1, <2>2, <2>3, <2>4, <2>5, CalmStep DEF c, Sound
<1>11. ASSUME NEW i \in Instances, NEW asked \in Accounts \cup {None}, Ask(k, i, asked)
       PROVE  Inv'
  <2> DEFINE ref == RefOf(Lookup(asked))
  <2>0. PICK new \in Call : AsksFor(k, asked, new)
    BY <1>11, AskEffect
  <2>1. /\ Changes(k, new) /\ calls[k].pc = "idle"
        /\ new.pc = "refresh" /\ new.kind \in {"token", "force"} /\ new.asked = asked
        /\ new.ref = RefOf(Lookup(asked)) /\ new.ref.tok # NoToken
        /\ new.cur = NoRef /\ new.hand = NoToken
        /\ new.chosen = IF asked = None THEN {Selected(doc)} ELSE {}
    BY <2>0 DEF AsksFor
  <2>2. /\ doc' = doc /\ grants' = grants /\ gone' = gone /\ contested' = contested
        /\ timers' = timers
    BY <1>11 DEF Ask, history
  <2>3. /\ ref.acct \in doc.accounts /\ ref.acct # None
        /\ asked # None => ref.acct = asked
        /\ asked = None /\ Selected(doc) # None => ref.acct = Selected(doc)
        /\ ref.acct \notin contested => ref.tok.of = ref.acct
    BY <2>1, Answers, Found
  <2>8. new.ref = ref /\ c.pc = "idle"
    BY <2>1 DEF c
  <2> HIDE DEF ref
  <2>4. Calm(new) /\ ShapedCall(new)
    BY <2>1, <2>3, <2>8 DEF Calm, ShapedCall, Admin, Refreshing, Setting
  <2>5. NamedCall(new)
    BY <1>2, <2>1, <2>3, <2>8 DEF NamedCall, InRefresh, Known
  <2>6. AskedCall(new)
    BY <2>1, <2>3, <2>8 DEF AskedCall
  <2>7. Lets
    BY <1>1, <1>5, <2>8 DEF ShapedCall
  <2> QED BY <1>2, <2>1, <2>2, <2>4, <2>5, <2>6, <2>7, CalmStep DEF c, Sound
<1>12. ASSUME NEW i \in Instances, NEW asked \in Accounts \cup {None}, Authorise(k, i, asked)
       PROVE  Inv'
  <2>1. PICK new \in Call :
          /\ Changes(k, new) /\ c.pc = "idle"
          /\ new.pc = "exchange" /\ new.kind \in {"callback", "consent"}
          /\ new.cur = RefOf(Lookup(asked)) /\ new.cur.acct # None
          /\ new.ref = NoRef /\ new.hand = NoToken /\ new.chosen = {}
    BY <1>12, AuthoriseEffect DEF c
  <2>2. /\ doc' = doc /\ grants' = grants /\ gone' = gone /\ contested' = contested
        /\ timers' = timers
    BY <1>12 DEF Authorise, history
  <2>3. new.cur.acct \in Known
    BY <2>1, LookedUp DEF Known
  <2>4. Calm(new) /\ ShapedCall(new)
    BY <2>1 DEF Calm, ShapedCall, Admin, Refreshing, Setting
  <2>5. NamedCall(new) /\ AskedCall(new)
    BY <1>2, <2>1, <2>3 DEF NamedCall, AskedCall, InRefresh, Refreshing
  <2>6. Lets
    BY <1>1, <1>5, <2>1 DEF ShapedCall
  <2> QED BY <1>2, <2>1, <2>2, <2>4, <2>5, <2>6, CalmStep DEF c, Sound
<1>13. ASSUME NEW i \in Instances, NEW a \in Accounts, Fire(k, i, a)
       PROVE  Inv'
  <2>1. PICK new \in Call :
          /\ Changes(k, new) /\ c.pc = "idle" /\ a \in timers[i]
          /\ new.pc = "refresh" /\ new.kind = "timer" /\ new.asked = a
          /\ new.ref = NoRef /\ new.cur = NoRef /\ new.hand = NoToken /\ new.chosen = {}
    BY <1>13, FireEffect DEF c
  <2>2. /\ doc' = doc /\ grants' = grants /\ gone' = gone /\ contested' = contested
        /\ timers' = [timers EXCEPT ![i] = @ \ {a}]
    BY <1>13 DEF Fire, history
  <2>3. (\A j \in Instances : timers'[j] \subseteq Known) /\ a \in Known /\ a # None
    BY <1>2, <2>1, <2>2, AccountsAssumption DEF TypeOK
  <2>4. Calm(new) /\ ShapedCall(new)
    BY <2>1, <2>3 DEF Calm, ShapedCall, Admin, Refreshing, Setting
  <2>5. NamedCall(new) /\ AskedCall(new)
    BY <1>2, <2>1, <2>3 DEF NamedCall, AskedCall, InRefresh
  <2>6. Lets
    BY <1>1, <1>5, <2>1 DEF ShapedCall
  <2> QED BY <2>1, <2>2, <2>3, <2>4, <2>5, <2>6, CalmStep DEF c, Sound
<1> QED BY <1>6, <1>7, <1>8, <1>9, <1>10, <1>11, <1>12, <1>13

-----------------------------------------------------------------------------
(* The steps that take accounts, or go on with them.                       *)

(* Overlaps are the accounts that others hold.                             *)
LEMMA NoOverlap ==
  ASSUME NEW k \in Calls, NEW A \in SUBSET Accounts, NEW a \in A, a \notin Overlaps(k, A),
         NEW l \in Calls \ {k}, Holds(calls[l], a)
  PROVE  /\ calls[k].pc = "refresh" /\ InRefresh(calls[l]) /\ calls[l].at = calls[k].at
         /\ LockKey(calls[l]) = LockKey(calls[k])
  BY DEF Overlaps

(* The profile of an account is written with the token that was read.      *)
LEMMA ProfileInv ==
  ASSUME Inv, TypeOK', NEW k \in Calls, NEW i \in Instances, NEW asked \in Accounts \cup {None},
         Profile(k, i, asked)
  PROVE  Inv'
<1> TypeOK /\ Shaped /\ Named
  BY DEF Inv
<1>0. PICK new \in Call : TakesProfile(k, asked, new)
  BY ProfileEffect
<1>1. /\ Changes(k, new) /\ calls[k].pc = "idle" /\ asked # None
      /\ contested' = contested \cup Overlaps(k, {asked})
      /\ new.pc = "save" /\ new.kind = "profile" /\ new.asked = asked
      /\ asked \in doc.accounts /\ new.cur.acct = asked
      /\ new.hand = doc.token[asked] /\ new.hand # NoToken
      /\ new.ref = NoRef /\ new.chosen = {}
  BY <1>0 DEF TakesProfile
<1>2. /\ doc' = doc /\ grants' = grants /\ gone' = gone /\ timers' = timers
      /\ \A a : Live(a)' = Live(a)
  BY DEF Profile, Live
<1>3. asked \in Accounts /\ asked \in Known /\ {asked} \in SUBSET Accounts
  BY <1>1 DEF Known, TypeOK, Document
<1>4. calls[k].kind = "token" /\ calls[k].hand = NoToken
  BY <1>1 DEF Shaped, ShapedCall
<1>5. ShapedCall(new)
  BY <1>1 DEF ShapedCall, Admin, Refreshing, Setting
<1>6. NamedCall(new) /\ AskedCall(new)
  BY <1>1, <1>3 DEF NamedCall, AskedCall, InRefresh, Refreshing, NoRef
<1>7. \A a \in Accounts : Holds(new, a) <=> a = asked
  BY <1>1 DEF Holds, InRefresh, Refreshing, Admin
<1>8. asked \notin contested' => \A l \in Calls \ {k} : ~Holds(calls[l], asked)
  BY <1>1, <1>3, NoOverlap
<1>9. asked \notin contested' => doc.token[asked] = Live(asked)
  <2>1. asked \notin contested' => asked \notin contested /\ ~Holds(calls[k], asked)
    BY <1>1, <1>4 DEF Holds, InRefresh, Admin
  <2> QED BY <1>1, <1>3, <1>8, <2>1 DEF Inv, LiveTokenIsKept
<1>10. CurrentCall(new)'
  BY <1>1, <1>2, <1>9 DEF CurrentCall, InRefresh, Refreshing
<1>11. CopiedCall(new)
  BY <1>1 DEF CopiedCall, Admin
<1>12. \A a \in Accounts : calls[k].hand # Live(a)
  BY <1>4, AccountsAssumption DEF Live, NoToken
<1> HIDE DEF Inv
<1> QED BY <1>1, <1>2, <1>5, <1>6, <1>7, <1>8, <1>10, <1>11, <1>12, Take DEF Sound

(* A consent's token is newly granted; whoever held the account has it     *)
(* contested.                                                              *)
LEMMA AuthenticateInv ==
  ASSUME Inv, TypeOK', NEW k \in Calls, Authenticate(k)
  PROVE  Inv'
<1> DEFINE c == calls[k]
<1> TypeOK /\ Shaped /\ Named /\ Asked
  BY DEF Inv
<1>1. /\ c \in Call /\ ShapedCall(c) /\ NamedCall(c) /\ AskedCall(c)
  BY DEF TypeOK, Shaped, Named, Asked
<1>2. c.pc = "exchange" /\ c.kind \in {"callback", "consent"}
  BY DEF Authenticate
<1>3. c.cur.acct # None /\ c.hand = NoToken
  BY <1>1, <1>2 DEF ShapedCall, Refreshing, Setting, Admin
<1>0. PICK b : b = calls[k].cur.acct
  OBVIOUS
<1>4. PICK new \in Call :
        /\ Changes(k, new) /\ c.pc = "exchange" /\ c.kind \in {"callback", "consent"}
        /\ new.kind = c.kind /\ new.cur = c.cur /\ new.hand = NextGrant(b)
        /\ new.pc \in {"save", "redirect"} /\ (new.pc = "redirect" => c.kind = "consent")
        /\ new.ref = c.ref /\ new.chosen = c.chosen /\ new.asked = c.asked
        /\ NextGrant(b) \in Token /\ b \in Accounts
        /\ contested' = contested \cup Overlaps(k, {b})
        /\ grants' = [grants EXCEPT ![b] = @ + 1] /\ grants' \in [Accounts -> 0 .. MaxGrants]
  BY <1>0, <1>3, AuthenticateEffect
<1>5. doc' = doc /\ gone' = gone /\ timers' = timers
  BY DEF Authenticate
<1>6. b \in Known /\ {b} \in SUBSET Accounts
  BY <1>0, <1>1, <1>3, <1>4 DEF NamedCall
<1>7. /\ new.hand # NoToken /\ new.hand = Live(b)'
      /\ \A a \in Accounts \ {b} : grants'[a] = grants[a]
  BY <1>4, AccountsAssumption DEF TypeOK, NextGrant, Live, Token, NoToken
<1>8. b \notin contested' => \A l \in Calls \ {k} : ~Holds(calls[l], b)
  BY <1>2, <1>4, <1>6, NoOverlap
<1> HIDE DEF c
<1>9. \A a \in Accounts : Holds(new, a) <=> a = b
  BY <1>0, <1>2, <1>4 DEF Holds, InRefresh, Refreshing, Admin, c
<1>10. ShapedCall(new)
  BY <1>2, <1>3, <1>4, <1>7 DEF ShapedCall, Admin, Refreshing, Setting
<1>11. NamedCall(new) /\ AskedCall(new)
  BY <1>1, <1>2, <1>4 DEF NamedCall, AskedCall, InRefresh, Refreshing
<1>12. CurrentCall(new)'
  BY <1>0, <1>2, <1>4, <1>7 DEF CurrentCall, InRefresh, Refreshing, c
<1>13. CopiedCall(new)
  BY <1>2, <1>4 DEF CopiedCall, Admin
<1>14. \A a \in Accounts : c.hand # Live(a)
  BY <1>3, AccountsAssumption DEF Live, NoToken
<1>15. contested \subseteq contested' /\ new.kind # "register"
  BY <1>2, <1>4
<1>16. \A a \in Accounts : grants'[a] = grants[a] \/ a \in Known
  BY <1>6, <1>7
<1>17. \A a \in Accounts \ contested' :
         /\ Holds(new, a) => \A l \in Calls \ {k} : ~Holds(calls[l], a)
         /\ grants'[a] = grants[a] \/ (Holds(new, a) /\ new.hand = Live(a)')
  BY <1>7, <1>8, <1>9
<1> QED BY <1>4, <1>5, <1>10, <1>11, <1>12, <1>13, <1>14, <1>15, <1>16, <1>17, Take
        DEF Sound, c

(* A refresh presents the last token and gets the next.                    *)
LEMMA ExchangeInv ==
  ASSUME Inv, TypeOK', NEW k \in Calls, Exchange(k)
  PROVE  Inv'
<1> DEFINE c == calls[k]
<1> TypeOK /\ Shaped /\ Named /\ Asked
  BY DEF Inv
<1>1. /\ c \in Call /\ ShapedCall(c) /\ NamedCall(c) /\ AskedCall(c)
  BY DEF TypeOK, Shaped, Named, Asked
<1>2. c.pc = "exchange" /\ c.kind \in Refreshing
  BY DEF Exchange
<1>3. c.cur.acct # None /\ c.hand = NoToken
  BY <1>1, <1>2 DEF ShapedCall, Refreshing, Setting, Admin
<1>0. PICK b : b = calls[k].cur.acct
  OBVIOUS
<1>4. PICK new \in Call :
        /\ Changes(k, new) /\ c.pc = "exchange" /\ c.kind \in Refreshing
        /\ new.pc = "save" /\ new.kind = c.kind /\ new.cur = c.cur
        /\ new.hand = NextGrant(b) /\ new.ref = c.ref /\ new.chosen = c.chosen
        /\ new.asked = c.asked /\ new.at = c.at
        /\ NextGrant(b) \in Token /\ b \in Accounts
        /\ grants' = [grants EXCEPT ![b] = @ + 1] /\ grants' \in [Accounts -> 0 .. MaxGrants]
  BY <1>3, <1>0, ExchangeEffect
<1>5. doc' = doc /\ gone' = gone /\ timers' = timers /\ contested' = contested
  BY DEF Exchange, history
<1>6. b \in Known
  BY <1>1, <1>3, <1>4, <1>0 DEF NamedCall
<1>7. /\ new.hand # NoToken /\ new.hand = Live(b)'
      /\ \A a \in Accounts \ {b} : grants'[a] = grants[a]
  BY <1>4, AccountsAssumption DEF TypeOK, NextGrant, Live, Token, NoToken
<1> HIDE DEF c
<1>8. Holds(c, b) /\ \A a \in Accounts : Holds(new, a) <=> a = b
  BY <1>2, <1>4, <1>0 DEF Holds, InRefresh, Refreshing, Admin, c
<1>9. b \notin contested' => \A l \in Calls \ {k} : ~Holds(calls[l], b)
  BY <1>4, <1>5, <1>8 DEF Inv, Owned, c
<1>10. ShapedCall(new)
  BY <1>1, <1>2, <1>3, <1>4, <1>7 DEF ShapedCall, Admin, Refreshing, Setting
<1>11. NamedCall(new) /\ AskedCall(new)
  BY <1>1, <1>2, <1>4 DEF NamedCall, AskedCall, InRefresh, LockKey
<1>12. CurrentCall(new)'
  BY <1>2, <1>4, <1>7, <1>0 DEF CurrentCall, InRefresh, Refreshing, c
<1>13. CopiedCall(new)
  BY <1>2, <1>4 DEF CopiedCall, Admin, Refreshing
<1>14. \A a \in Accounts : c.hand # Live(a)
  BY <1>3, AccountsAssumption DEF Live, NoToken
<1>15. contested \subseteq contested' /\ new.kind # "register"
  BY <1>2, <1>4, <1>5 DEF Refreshing
<1>16. \A a \in Accounts : grants'[a] = grants[a] \/ a \in Known
  BY <1>6, <1>7
<1>17. \A a \in Accounts \ contested' :
         /\ Holds(new, a) => \A l \in Calls \ {k} : ~Holds(calls[l], a)
         /\ grants'[a] = grants[a] \/ (Holds(new, a) /\ new.hand = Live(a)')
  BY <1>7, <1>8, <1>9
<1> QED BY <1>4, <1>5, <1>10, <1>11, <1>12, <1>13, <1>14, <1>15, <1>16, <1>17, Take
        DEF Sound, c

(* A consent's token is written to the account that publishes; if that is  *)
(* another one, both are contested.                                        *)
LEMMA RedirectInv ==
  ASSUME Inv, TypeOK', NEW k \in Calls, Redirect(k)
  PROVE  Inv'
<1> DEFINE c == calls[k]
           b == AccountFor
<1> TypeOK /\ Shaped /\ Named /\ Asked
  BY DEF Inv
<1>1. /\ c \in Call /\ ShapedCall(c) /\ NamedCall(c) /\ AskedCall(c)
      /\ b \in doc.accounts \cup {None}
  BY Found DEF TypeOK, Shaped, Named, Asked
<1>2. PICK new \in Call :
        /\ Changes(k, new) /\ c.pc = "redirect"
        /\ contested' = IF b = c.cur.acct THEN contested
                        ELSE contested \cup ({c.cur.acct, b} \ {None})
        /\ \/ Ended(new) /\ new.ref = NoRef /\ b = None
           \/ /\ b # None /\ new.pc = "save" /\ new.kind = c.kind /\ new.cur.acct = b
              /\ new.hand = c.hand /\ new.ref = c.ref /\ new.chosen = c.chosen
              /\ new.asked = c.asked
  BY RedirectEffect
<1>3. /\ doc' = doc /\ gone' = gone /\ timers' = timers /\ grants' = grants
      /\ \A a : Live(a)' = Live(a)
  BY DEF Redirect, Live
<1> HIDE DEF c, b
<1>4. c.kind = "consent" /\ c.cur.acct # None /\ c.hand # NoToken
  BY <1>1, <1>2 DEF ShapedCall, Setting, Admin
<1>5. \A a \in Accounts : Holds(c, a) <=> a = c.cur.acct
  BY <1>2, <1>4 DEF Holds, InRefresh, Refreshing, Admin
<1>6. CASE Ended(new)
  <2>1. c.cur.acct \in contested' /\ contested \subseteq contested'
    BY <1>2, <1>4, <1>6 DEF Ended
  <2>2. Calm(new) /\ Sound(new)
    BY <1>2, <1>6 DEF Ended, Calm, Sound, ShapedCall, NamedCall, AskedCall, InRefresh, Admin,
                      Setting, NoRef
  <2>3. calls'[k] = new /\ \A l \in Calls \ {k} : calls'[l] = calls[l]
    BY <1>2, ChangedCall
  <2>4. \A l \in {k} : Calm(calls'[l]) /\ Sound(calls'[l])
    BY <2>2, <2>3
  <2>5. \A i \in Instances : timers'[i] \subseteq Known
    BY <1>3 DEF Named
  <2>6. \A a \in Accounts \ contested', l \in {k} : ~Holds(calls[l], a)
    BY <1>5, <2>1 DEF c
  <2>7. {k} \in SUBSET Calls /\ \A l \in Calls \ {k} : calls'[l] = calls[l]
    BY <2>3
  <2> HIDE DEF Inv
  <2> QED BY <1>3, <2>1, <2>4, <2>5, <2>6, <2>7, Release
<1>7. CASE ~Ended(new)
  <2>1. /\ b # None /\ b \in Known /\ b \in Accounts
    BY <1>1, <1>2, <1>7, Found DEF Known
  <2>2. \A a \in Accounts : Holds(new, a) <=> a = b
    BY <1>2, <1>4, <1>7 DEF Holds, InRefresh, Refreshing, Admin
  <2>3. b \notin contested' => b = c.cur.acct /\ contested' = contested
    BY <1>2, <2>1
  <2>4. b \notin contested' => \A l \in Calls \ {k} : ~Holds(calls[l], b)
    BY <1>5, <2>1, <2>3 DEF Inv, Owned, c
  <2>5. b \notin contested' => c.hand = Live(b)
    <3>1. CurrentCall(c)
      BY DEF Inv, Current, c
    <3> QED BY <1>2, <1>4, <2>1, <2>3, <3>1 DEF CurrentCall, Setting, Admin
  <2>6. ShapedCall(new)
    BY <1>1, <1>2, <1>4, <1>7, <2>1 DEF ShapedCall, Admin, Refreshing, Setting
  <2>7. NamedCall(new) /\ AskedCall(new)
    BY <1>1, <1>2, <1>4, <1>7, <2>1 DEF NamedCall, AskedCall, InRefresh, Refreshing
  <2>8. CurrentCall(new)'
    BY <1>2, <1>3, <1>4, <1>7, <2>5 DEF CurrentCall, InRefresh, Refreshing
  <2>9. CopiedCall(new)
    BY <1>2, <1>4, <1>7 DEF CopiedCall, Admin
  <2>10. \A a \in Accounts \ contested' : Holds(c, a) => a = b
    BY <1>2, <1>4, <1>5
  <2>11. contested \subseteq contested' /\ new.kind # "register" /\ new.hand = c.hand
    BY <1>2, <1>4, <1>7
  <2> QED BY <1>2, <1>3, <2>2, <2>4, <2>5, <2>6, <2>7, <2>8, <2>9, <2>10, <2>11, Take
          DEF Sound, c
<1> QED BY <1>6, <1>7

(* Whoever reads the array holds all accounts.                             *)
LEMMA ReadInv ==
  ASSUME Inv, TypeOK', NEW k \in Calls, NEW i \in Instances, NEW kind \in Setting,
         NEW asked \in Accounts \cup {None}, ReadDocument(k, i, kind, asked)
  PROVE  Inv'
<1> TypeOK /\ Shaped /\ Named /\ Asked
  BY DEF Inv
<1>1. PICK new \in Call :
        /\ Changes(k, new) /\ calls[k].pc = "idle" /\ Allowed(kind, asked)
        /\ new.pc = "save" /\ new.kind = kind /\ new.asked = asked
        /\ new.ref = NoRef /\ new.cur = NoRef /\ new.hand = NoToken /\ new.chosen = {}
        /\ kind \in Admin => new.copy = doc
        /\ kind \in Admin => contested' = contested \cup Overlaps(k, Accounts)
        /\ kind \notin Admin => contested' = contested
  BY ReadEffect
<1>2. /\ doc' = doc /\ gone' = gone /\ timers' = timers /\ grants' = grants
      /\ \A a : Live(a)' = Live(a)
  BY DEF ReadDocument, Live
<1>3. calls[k].hand = NoToken
  BY <1>1 DEF Shaped, ShapedCall
<1>4. kind \in Admin =>
        \A a \in Accounts \ contested', l \in Calls \ {k} : ~Holds(calls[l], a)
  BY <1>1, NoOverlap
<1>5. kind \notin Admin => \A a \in Accounts : ~Holds(new, a)
  BY <1>1 DEF Holds, InRefresh, Refreshing, Setting
<1>6. kind \in Admin => asked # None
  BY <1>1, Found, AccountsAssumption DEF Allowed, Admin
<1>7. ShapedCall(new)
  BY <1>1, <1>6 DEF ShapedCall, Admin, Refreshing, Setting
<1>8. NamedCall(new) /\ AskedCall(new)
  BY <1>1 DEF NamedCall, AskedCall, InRefresh, Refreshing, Setting, Admin, NoRef
<1>9. CurrentCall(new)'
  BY <1>1 DEF CurrentCall
<1>10. CopiedCall(new)
  <2>1. kind = "register" => asked \notin Known
    BY <1>1 DEF Allowed, Known
  <2>2. kind = "delete" => asked \in doc.accounts
    BY <1>1 DEF Allowed
  <2> QED BY <1>1, <2>1, <2>2 DEF CopiedCall
<1>11. \A a \in Accounts : calls[k].hand # Live(a)
  BY <1>3, AccountsAssumption DEF Live, NoToken
<1>12. contested \subseteq contested'
  BY <1>1
<1>13. new.kind = "register" =>
         \A l \in Calls \ {k} : calls[l].kind = "register" => calls[l].asked # new.asked
  BY <1>1 DEF Allowed
<1> QED BY <1>1, <1>2, <1>4, <1>5, <1>7, <1>8, <1>9, <1>10, <1>11, <1>12, <1>13, Take
        DEF Sound

-----------------------------------------------------------------------------
(* The steps that end refreshes, and writes of one token.                  *)

(* A call that ends, or resolves its account again, is calm.               *)
LEMMA AfterSound ==
  ASSUME Inv, NEW l \in Calls, NEW ok \in BOOLEAN,
         ok => calls[l].kind \in Refreshing /\ calls[l].pc \notin {"idle", "resolve"}
  PROVE  Calm(AfterRefresh(calls[l], ok)) /\ Sound(AfterRefresh(calls[l], ok))
<1> DEFINE c == calls[l]
           new == AfterRefresh(c, ok)
<1>1. /\ c \in Call /\ ShapedCall(c) /\ NamedCall(c) /\ AskedCall(c)
  BY DEF Inv, TypeOK, Shaped, Named, Asked
<1>2. \/ Ended(new) /\ new.ref = NoRef
      \/ /\ c.kind # "timer" /\ new.kind = "token" /\ new.cur = NoRef
         /\ new.hand = NoToken
         /\ IF c.kind = "force" THEN new.pc = "resolve" ELSE new.pc = "reread"
         /\ new.asked = c.asked /\ new.ref = c.ref /\ new.chosen = c.chosen
  BY <1>1, AfterEffect
<1>3. ~ok => Ended(new) /\ new.ref = NoRef
  BY IdleCall DEF AfterRefresh
<1> HIDE DEF new, c
<1>4. CASE Ended(new) /\ new.ref = NoRef
  BY <1>4 DEF Ended, Calm, Sound, ShapedCall, NamedCall, AskedCall, InRefresh, Admin,
              Setting, NoRef, new, c
<1>5. CASE ~(Ended(new) /\ new.ref = NoRef)
  <2>1. /\ c.kind \in {"token", "force"} /\ c.pc \notin {"idle", "resolve"}
        /\ new.kind = "token" /\ new.cur = NoRef /\ new.hand = NoToken
        /\ IF c.kind = "force" THEN new.pc = "resolve" ELSE new.pc = "reread"
        /\ new.asked = c.asked /\ new.ref = c.ref /\ new.chosen = c.chosen
    BY <1>2, <1>3, <1>5 DEF Refreshing, c
  <2>2. Calm(new)
    BY <2>1 DEF Calm, Admin
  <2>3. ShapedCall(new) /\ NamedCall(new)
    BY <1>1, <2>1 DEF ShapedCall, NamedCall, InRefresh, Admin, Setting, NoRef
  <2>4. AskedCall(new)
    BY <1>1, <2>1 DEF AskedCall
  <2> QED BY <2>2, <2>3, <2>4 DEF Sound, new, c
<1> QED BY <1>4, <1>5

(* The waiters for a refresh, and the calls that end with it.              *)
LEMMA Settling ==
  ASSUME Inv, NEW k \in Calls, NEW ok \in BOOLEAN, Settle(k, ok),
         ok => calls[k].kind \in Refreshing /\ calls[k].pc \notin {"idle", "resolve"}
  PROVE  LET S == Waiters(k) \cup {k}
         IN /\ S \in SUBSET Calls
            /\ \A l \in Calls \ S : calls'[l] = calls[l]
            /\ \A l \in S : Calm(calls'[l]) /\ Sound(calls'[l])
            /\ \A l \in S \ {k} : \A a : ~Holds(calls[l], a)
<1> DEFINE S == Waiters(k) \cup {k}
<1>1. /\ S \in SUBSET Calls /\ k \in S
      /\ \A l \in Calls \ S : calls'[l] = calls[l]
      /\ \A l \in S : calls'[l] = AfterRefresh(calls[l], ok)
  BY DEF Settle, Waiters
<1>2. \A l \in S \ {k} : calls[l].pc = "wait" /\ calls[l].kind \in Refreshing
  BY DEF Waiters, Inv, Shaped, ShapedCall
<1>3. \A l \in S \ {k} : \A a : ~Holds(calls[l], a)
  BY <1>2 DEF Holds, InRefresh, Admin
<1>4. \A l \in S : ok => calls[l].kind \in Refreshing /\ calls[l].pc \notin {"idle", "resolve"}
  BY <1>2
<1> HIDE DEF S
<1>5. \A l \in S : Calm(calls'[l]) /\ Sound(calls'[l])
  BY <1>1, <1>4, AfterSound
<1> QED BY <1>1, <1>3, <1>5 DEF S

(* A refresh that finds no token, or that the marketplace refuses, leaves  *)
(* the document as it was.                                                 *)
LEMMA FailInv ==
  ASSUME Inv, TypeOK', NEW k \in Calls, Settle(k, FALSE),
         calls[k].kind \in Refreshing /\ calls[k].pc \in {"refresh", "exchange"},
         UNCHANGED <<doc, grants, timers, gone, contested>>
  PROVE  Inv'
<1> DEFINE S == Waiters(k) \cup {k}
<1>1. /\ S \in SUBSET Calls
      /\ \A l \in Calls \ S : calls'[l] = calls[l]
      /\ \A l \in S : Calm(calls'[l]) /\ Sound(calls'[l])
      /\ \A l \in S \ {k} : \A a : ~Holds(calls[l], a)
  BY Settling
<1>2. calls[k].hand = NoToken /\ \A i \in Instances : timers'[i] \subseteq Known
  BY DEF Inv, Shaped, ShapedCall, Named, Refreshing, Admin, Setting
<1>3. \A a \in Accounts : calls[k].hand # Live(a)
  BY <1>2, AccountsAssumption DEF Live, NoToken
<1>4. \A a \in Accounts, l \in S : ~(Holds(calls[l], a) /\ calls[l].hand = Live(a))
  BY <1>1, <1>3
<1> HIDE DEF S
<1> QED BY <1>1, <1>2, <1>4, Release

(* The marketplace grants a token that the call never gets: the account is *)
(* contested.                                                              *)
LEMMA LostInv ==
  ASSUME Inv, TypeOK', NEW k \in Calls, ReplyLost(k)
  PROVE  Inv'
<1> DEFINE S == Waiters(k) \cup {k}
           c == calls[k]
<1> TypeOK /\ Shaped /\ Named
  BY DEF Inv
<1>1. PICK b : b = calls[k].cur.acct
  OBVIOUS
<1>2. /\ Settle(k, FALSE) /\ contested' = contested \cup {b} /\ c.pc = "exchange"
      /\ grants' = [grants EXCEPT ![b] = @ + 1]
      /\ doc' = doc /\ timers' = timers /\ gone' = gone
  BY <1>1 DEF ReplyLost, Granted
<1>3. /\ S \in SUBSET Calls
      /\ \A l \in Calls \ S : calls'[l] = calls[l]
      /\ \A l \in S : Calm(calls'[l]) /\ Sound(calls'[l])
  BY <1>2, Settling
<1>4. /\ c.hand = NoToken /\ \A i \in Instances : timers'[i] \subseteq Known
      /\ b \in Known /\ b # None
  BY <1>1, <1>2 DEF Shaped, ShapedCall, Named, NamedCall, Refreshing, Admin, Setting
<1>5. \A l \in S : calls[l].hand = NoToken
  BY <1>4 DEF Waiters, Shaped, ShapedCall
<1>6. \A a \in Accounts, l \in S : ~(Holds(calls[l], a) /\ calls[l].hand = Live(a))
  BY <1>5, AccountsAssumption DEF Live, NoToken
<1>7. \A a \in Accounts \ {b} : grants'[a] = grants[a]
  BY <1>2 DEF TypeOK
<1> HIDE DEF S, c
<1> QED BY <1>2, <1>3, <1>4, <1>6, <1>7, Release

(* A token is written: the holder lets go of the account.                  *)
LEMMA SaveInv ==
  ASSUME Inv, TypeOK', NEW k \in Calls, Save(k)
  PROVE  Inv'
<1> DEFINE c == calls[k]
           S == IF c.kind \in Refreshing THEN Waiters(k) \cup {k} ELSE {k}
<1> TypeOK /\ Shaped /\ Named
  BY DEF Inv
<1>1. PICK b : b = calls[k].cur.acct
  OBVIOUS
<1>2. /\ c.pc = "save" /\ c.kind \notin Setting
      /\ doc' = Written(c) /\ timers' = Scheduled(c) /\ grants' = grants /\ gone' = gone
      /\ contested' = contested
      /\ IF c.kind \in Refreshing THEN Settle(k, TRUE) ELSE Changes(k, Idle)
  BY DEF Save, Setting, Changes
<1>3. b # None /\ b \in Known /\ c.hand # NoToken /\ b \in Accounts
  BY <1>1, <1>2, WrittenType DEF Shaped, ShapedCall, Named, NamedCall, Setting, Admin
<1>4. /\ doc'.accounts = doc.accounts /\ doc'.active = doc.active
      /\ \A a \in Accounts :
           doc'.token[a] = IF a = b /\ a \in doc.accounts THEN c.hand ELSE doc.token[a]
  BY <1>1, <1>2, <1>3, WrittenType
<1>5. /\ S \in SUBSET Calls /\ k \in S
      /\ \A l \in Calls \ S : calls'[l] = calls[l]
      /\ \A l \in S : Calm(calls'[l]) /\ Sound(calls'[l])
      /\ \A l \in S \ {k} : \A a : ~Holds(calls[l], a)
  <2>1. CASE c.kind \in Refreshing
    BY <1>2, <2>1, Settling
  <2>2. CASE c.kind \notin Refreshing
    <3>1. calls'[k] = Idle /\ \A l \in Calls \ {k} : calls'[l] = calls[l]
      BY <1>2, <2>2, IdleCall, ChangedCall DEF Ended
    <3>2. Calm(Idle) /\ Sound(Idle)
      BY IdleCall DEF Ended, Calm, Sound, ShapedCall, NamedCall, AskedCall, InRefresh, Admin,
                      Setting, NoRef
    <3> QED BY <2>2, <3>1, <3>2
  <2> QED BY <2>1, <2>2
<1>6. \A a \in Accounts : Holds(c, a) <=> a = b
  BY <1>1, <1>2 DEF Holds, InRefresh, Refreshing, Admin, Setting, TypeOK, Call, Kinds
<1>7. b \notin contested => c.hand = Live(b)
  BY <1>1, <1>2, <1>3 DEF Inv, Current, CurrentCall
<1>8. ASSUME NEW a \in Accounts \ contested
      PROVE  /\ \/ doc'.token[a] = doc.token[a]
                \/ doc'.token[a] = Live(a) /\ \E l \in S : Holds(calls[l], a)
             /\ \A l \in S : Holds(calls[l], a) /\ calls[l].hand = Live(a) /\ a \in doc.accounts
                  => doc'.token[a] = Live(a)
  BY <1>4, <1>5, <1>6, <1>7
<1>9. \A i \in Instances : timers'[i] \subseteq Known
  BY <1>1, <1>2, <1>3 DEF Named, Scheduled
<1>10. \A a \in Accounts : /\ doc.token[a] # NoToken => doc'.token[a] # NoToken
                           /\ a \notin Known => doc'.token[a] = doc.token[a]
  BY <1>3, <1>4
<1> HIDE DEF S, c
<1> QED BY <1>2, <1>4, <1>5, <1>8, <1>9, <1>10, Release

(* The write fails, or only its acknowledgement is lost: the account is    *)
(* contested.                                                              *)
LEMMA SaveFailsInv ==
  ASSUME Inv, TypeOK', NEW k \in Calls, SaveFails(k)
  PROVE  Inv'
<1> DEFINE c == calls[k]
           S == Waiters(k) \cup {k}
<1> TypeOK /\ Shaped /\ Named
  BY DEF Inv
<1>1. PICK b : b = calls[k].cur.acct
  OBVIOUS
<1>2. /\ c.pc = "save" /\ c.kind \notin Setting
      /\ doc' \in {doc, Written(c)} /\ timers' = timers /\ grants' = grants /\ gone' = gone
      /\ contested' = contested \cup {b} /\ Settle(k, FALSE)
  BY <1>1 DEF SaveFails, Setting
<1>3. b # None /\ b \in Known /\ c.hand # NoToken /\ b \in Accounts
  BY <1>1, <1>2, WrittenType DEF Shaped, ShapedCall, Named, NamedCall, Setting, Admin
<1>4. /\ doc'.accounts = doc.accounts /\ doc'.active = doc.active
      /\ \A a \in Accounts : doc'.token[a] = doc.token[a] \/ (a = b /\ doc'.token[a] = c.hand)
  BY <1>1, <1>2, <1>3, WrittenType
<1>5. /\ S \in SUBSET Calls /\ k \in S
      /\ \A l \in Calls \ S : calls'[l] = calls[l]
      /\ \A l \in S : Calm(calls'[l]) /\ Sound(calls'[l])
      /\ \A l \in S \ {k} : \A a : ~Holds(calls[l], a)
  BY <1>2, Settling
<1>6. \A a \in Accounts : Holds(c, a) <=> a = b
  BY <1>1, <1>2 DEF Holds, InRefresh, Refreshing, Admin, Setting, TypeOK, Call, Kinds
<1>7. \A a \in Accounts \ contested' :
        doc'.token[a] = doc.token[a] /\ \A l \in S : ~Holds(calls[l], a)
  BY <1>2, <1>4, <1>5, <1>6
<1>8. \A i \in Instances : timers'[i] \subseteq Known
  BY <1>2 DEF Named
<1>9. \A a \in Accounts : /\ doc.token[a] # NoToken => doc'.token[a] # NoToken
                          /\ a \notin Known => doc'.token[a] = doc.token[a]
  BY <1>3, <1>4
<1> HIDE DEF S, c
<1> QED BY <1>2, <1>4, <1>5, <1>7, <1>8, <1>9, Release

(* A crash ends the calls of an instance; what they had in hand is lost.   *)
LEMMA CrashInv ==
  ASSUME Inv, TypeOK', NEW i \in Instances, Crash(i)
  PROVE  Inv'
<1> DEFINE S == {l \in Calls : calls[l].at = i}
<1> TypeOK /\ Shaped /\ Named
  BY DEF Inv
<1>1. /\ doc' = doc /\ grants' = grants /\ gone' = gone
      /\ timers' = [timers EXCEPT ![i] = {}]
      /\ contested \subseteq contested'
      /\ \A l \in S : calls[l].hand # NoToken => calls[l].cur.acct \in contested'
      /\ \A l \in S : calls'[l] = Idle
      /\ \A l \in Calls \ S : calls'[l] = calls[l]
  BY DEF Crash
<1>2. Calm(Idle) /\ Sound(Idle)
  BY IdleCall DEF Ended, Calm, Sound, ShapedCall, NamedCall, AskedCall, InRefresh, Admin,
                  Setting, NoRef
<1>3. \A l \in S : Calm(calls'[l]) /\ Sound(calls'[l])
  BY <1>1, <1>2
<1>4. \A j \in Instances : timers'[j] \subseteq Known
  BY <1>1 DEF Named, TypeOK
<1>5. \A l \in Calls, a \in Accounts : Holds(calls[l], a) /\ calls[l].hand = Live(a) =>
        calls[l].hand # NoToken /\ a = calls[l].cur.acct
  BY AccountsAssumption
  DEF Holds, InRefresh, Shaped, ShapedCall, Setting, Live, NoToken
<1>6. \A a \in Accounts \ contested', l \in S : ~(Holds(calls[l], a) /\ calls[l].hand = Live(a))
  BY <1>1, <1>5
<1>7. S \in SUBSET Calls
  OBVIOUS
<1> HIDE DEF S
<1> QED BY <1>1, <1>3, <1>4, <1>6, <1>7, Release

(* An instance that starts has timers for accounts of the document.        *)
LEMMA BootInv ==
  ASSUME Inv, TypeOK', NEW i \in Instances, Boot(i)
  PROVE  Inv'
<1>1. /\ doc' = doc /\ grants' = grants /\ gone' = gone /\ contested' = contested
      /\ calls' = calls
      /\ timers' = timers \/ timers' = [timers EXCEPT ![i] = Schedulable(doc)]
  BY DEF Boot
<1>2. \A j \in Instances : timers'[j] \subseteq Known
  BY <1>1 DEF Inv, Named, TypeOK, Schedulable, Known
<1>3. {} \in SUBSET Calls
  OBVIOUS
<1> QED BY <1>1, <1>2, <1>3, Release

(* A refresh reads the account again under the lock: it is the one holder  *)
(* from then on.                                                           *)
LEMMA AcquireInv ==
  ASSUME Inv, TypeOK', NEW k \in Calls, Acquire(k)
  PROVE  Inv'
<1> DEFINE c == calls[k]
<1> TypeOK /\ Shaped /\ Named /\ Asked
  BY DEF Inv
<1>1. /\ c \in Call /\ ShapedCall(c) /\ NamedCall(c) /\ AskedCall(c)
  BY DEF TypeOK, Shaped, Named, Asked
<1>2. c.pc = "refresh" /\ ~Locked(c.at, LockKey(c))
  BY DEF Acquire
<1>3. c.kind \in Refreshing /\ c.hand = NoToken
  BY <1>1, <1>2 DEF ShapedCall
<1>4. /\ doc' = doc /\ gone' = gone /\ timers' = timers /\ grants' = grants
      /\ \A a : Live(a)' = Live(a)
  BY DEF Acquire, Live
<1>5. CASE Settles(Waiters(k) \cup {k}, FALSE) /\ contested' = contested
  <2>1. Settle(k, FALSE)
    BY <1>5 DEF Settle, Settles
  <2> QED BY <1>2, <1>3, <1>4, <1>5, <2>1, FailInv
<1>6. ASSUME NEW new \in Call, NEW a \in doc.accounts, Changes(k, new),
             contested' = contested \cup Overlaps(k, {a}),
             LockKey(c) \in doc.accounts => a = LockKey(c),
             new.pc = "exchange", new.kind = c.kind, new.asked = c.asked,
             new.ref = c.ref, new.hand = c.hand, new.chosen = c.chosen, new.at = c.at,
             new.cur.acct = a, new.cur.tok = doc.token[a], new.cur.tok # NoToken
      PROVE  Inv'
  <2>1. a \in Accounts /\ a # None /\ {a} \in SUBSET Accounts /\ a \in Known
    BY Found DEF Known
  <2>2. \A b \in Accounts : Holds(new, b) <=> b = a
    BY <1>3, <1>6 DEF Holds, InRefresh, Refreshing, Admin
  <2>3. a \notin contested' => \A l \in Calls \ {k} : ~Holds(calls[l], a)
    BY <1>2, <1>6, <2>1, NoOverlap DEF Locked
  <2>4. a \notin contested' => doc.token[a] = Live(a)
    <3>1. ~Holds(calls[k], a)
      BY <1>2, <1>3 DEF Holds, InRefresh, Refreshing, Admin
    <3>2. a \notin contested' => a \notin contested
      BY <1>6
    <3> QED BY <1>6, <2>3, <3>1, <3>2 DEF Inv, LiveTokenIsKept
  <2>5. LockKey(new) = LockKey(c)
    BY <1>6 DEF LockKey
  <2>6. LockKey(c) \in Known
    BY <1>1, <1>2, <1>3 DEF LockKey, ShapedCall, NamedCall, Refreshing
  <2> HIDE DEF c
  <2>7. ShapedCall(new)
    BY <1>1, <1>2, <1>3, <1>6, <2>1 DEF ShapedCall, Admin, Refreshing, Setting
  <2>8. NamedCall(new)
    BY <1>1, <1>6, <2>1, <2>5, <2>6 DEF NamedCall, Known
  <2>9. AskedCall(new)
    BY <1>1, <1>2, <1>3, <1>6 DEF AskedCall
  <2>10. CurrentCall(new)'
    BY <1>3, <1>4, <1>6, <2>4 DEF CurrentCall, InRefresh, Refreshing
  <2>11. CopiedCall(new)
    BY <1>3, <1>6 DEF CopiedCall, Admin, Refreshing
  <2>12. \A b \in Accounts : c.hand # Live(b)
    BY <1>3, AccountsAssumption DEF Live, NoToken
  <2>13. contested \subseteq contested' /\ new.kind # "register"
    BY <1>3, <1>6 DEF Refreshing
  <2> QED BY <1>4, <1>6, <2>2, <2>3, <2>7, <2>8, <2>9, <2>10, <2>11, <2>12, <2>13, Take
          DEF Sound, c
<1> HIDE DEF Inv
<1> QED BY <1>5, <1>6, AcquireEffect

-----------------------------------------------------------------------------
(* The steps that write the whole array, or the active account.            *)

\* A call that goes on while the document becomes d.
Same(c, new) ==
    /\ new.pc = c.pc /\ new.kind = c.kind /\ new.at = c.at /\ new.asked = c.asked
    /\ new.ref = c.ref /\ new.cur = c.cur /\ new.hand = c.hand /\ new.copy = c.copy

Outdates(c, new, versioned) == ~new.stale => ~c.stale /\ ~(versioned /\ c.kind \in Admin)

(* Meanwhile ends one call, tells the others what is selected, and makes   *)
(* the arrays they have read stale.                                        *)
LEMMA MeanwhileEffect ==
  ASSUME TypeOK, NEW k \in Calls, NEW d, NEW versioned \in BOOLEAN, Meanwhile(k, d, versioned)
  PROVE  /\ calls'[k] = Idle
         /\ \A l \in Calls \ {k} :
              /\ Same(calls[l], calls'[l])
              /\ calls'[l].chosen = IF calls[l].chosen = {} THEN {}
                                    ELSE calls[l].chosen \cup {Selected(d)}
              /\ Outdates(calls[l], calls'[l], versioned)
<1>1. calls'[k] = Idle
  BY DEF Meanwhile
<1>2. ASSUME NEW l \in Calls \ {k}
      PROVE  /\ Same(calls[l], calls'[l])
             /\ calls'[l].chosen = IF calls[l].chosen = {} THEN {}
                                   ELSE calls[l].chosen \cup {Selected(d)}
             /\ Outdates(calls[l], calls'[l], versioned)
  <2> DEFINE c == calls[l]
             stale == c.stale \/ (versioned /\ c.kind \in Admin)
             chosen == IF c.chosen = {} THEN c.chosen ELSE c.chosen \cup {Selected(d)}
             new == [c EXCEPT !.stale = stale, !.chosen = chosen]
  <2>1. c \in Call /\ calls'[l] = new
    BY DEF TypeOK, Meanwhile
  <2> HIDE DEF c, stale, chosen
  <2>2. Same(c, new) /\ new.chosen = chosen
    BY <2>1 DEF Same, Call
  <2>3. new.stale = stale
    BY <2>1 DEF Call
  <2> HIDE DEF new
  <2>4. ~new.stale => ~stale
    BY Zenon, <2>3
  <2>5. ~stale => ~c.stale /\ ~(versioned /\ c.kind \in Admin)
    BY Zenon DEF stale
  <2>6. calls'[l].chosen = IF c.chosen = {} THEN {} ELSE c.chosen \cup {Selected(d)}
    BY <2>1, <2>2 DEF chosen
  <2>7. Outdates(c, calls'[l], versioned)
    BY Zenon, <2>1, <2>4, <2>5 DEF Outdates
  <2> QED BY <2>1, <2>2, <2>6, <2>7 DEF c
<1> QED BY <1>1, <1>2

(* Meanwhile changes nothing else of the other calls.                      *)
LEMMA MeanwhileSame ==
  ASSUME TypeOK, NEW k \in Calls, NEW d, NEW versioned \in BOOLEAN, Meanwhile(k, d, versioned),
         NEW l \in Calls \ {k}
  PROVE  Same(calls[l], calls'[l])
<1>1. CASE versioned = TRUE
  <2>1. Meanwhile(k, d, TRUE)
    BY <1>1
  <2> QED BY <2>1, MeanwhileEffect
<1>2. CASE versioned = FALSE
  <2>1. Meanwhile(k, d, FALSE)
    BY <1>2
  <2> QED BY <2>1, MeanwhileEffect
<1> QED BY <1>1, <1>2

(* What can be said of the other calls is still true of them.              *)
LEMMA OthersSound ==
  ASSUME Inv, NEW k \in Calls, calls'[k] = Idle,
         Known \subseteq Known', gone \subseteq gone',
         \A l \in Calls \ {k} :
           /\ Same(calls[l], calls'[l])
           /\ calls'[l].chosen = IF calls[l].chosen = {} THEN {}
                                 ELSE calls[l].chosen \cup {Selected(doc')},
         contested' = contested
  PROVE  /\ Shaped' /\ \A l \in Calls : NamedCall(calls[l])' /\ AskedCall(calls[l])'
         /\ Owned'
         /\ \A l \in Calls : \A a : Holds(calls'[l], a) <=> l # k /\ Holds(calls[l], a)
<1> Shaped /\ Named /\ Asked /\ Owned
  BY DEF Inv
<1>1. /\ ShapedCall(Idle) /\ ~InRefresh(Idle) /\ (\A a : ~Holds(Idle, a)) /\ Idle.ref = NoRef
      /\ Idle.cur = NoRef /\ Idle.kind = "token" /\ Idle.chosen = {} /\ Idle.pc = "idle"
  BY IdleCall DEF Ended, ShapedCall, InRefresh, Holds, Admin, Setting
<1>2. ASSUME NEW l \in Calls
      PROVE  /\ ShapedCall(calls'[l]) /\ NamedCall(calls[l])' /\ AskedCall(calls[l])'
             /\ \A a : Holds(calls'[l], a) <=> l # k /\ Holds(calls[l], a)
  <2>1. CASE l = k
    <3>1. NamedCall(calls[l])' /\ AskedCall(calls[l])'
      BY <1>1, <2>1 DEF NamedCall, AskedCall, NoRef, InRefresh
    <3> QED BY <1>1, <2>1, <3>1
  <2>2. CASE l # k
    <3> DEFINE c == calls[l]
               new == calls'[l]
    <3>1. /\ new.pc = c.pc /\ new.kind = c.kind /\ new.at = c.at /\ new.asked = c.asked
          /\ new.ref = c.ref /\ new.cur = c.cur /\ new.hand = c.hand
          /\ new.chosen = IF c.chosen = {} THEN {} ELSE c.chosen \cup {Selected(doc')}
      BY <2>2 DEF Same
    <3>2. ShapedCall(c) /\ NamedCall(c) /\ AskedCall(c)
      BY DEF Shaped, Named, Asked
    <3> HIDE DEF c, new
    <3>3. ShapedCall(new)
      BY <3>1, <3>2 DEF ShapedCall
    <3>4. InRefresh(new) = InRefresh(c) /\ LockKey(new) = LockKey(c)
          /\ \A a : Holds(new, a) <=> Holds(c, a)
      BY <3>1 DEF InRefresh, LockKey, Holds
    <3>5. NamedCall(calls[l])'
      BY <3>1, <3>2, <3>4 DEF NamedCall, new, InRefresh, LockKey
    <3>6. AskedCall(calls[l])'
      BY <3>1, <3>2 DEF AskedCall, new
    <3> QED BY <2>2, <3>3, <3>4, <3>5, <3>6 DEF c, new
  <2> QED BY <2>1, <2>2
<1>3. Shaped'
  BY <1>2 DEF Shaped, ShapedCall
<1>4. Owned'
  <2> SUFFICES ASSUME NEW l \in Calls, NEW m \in Calls, NEW a \in Accounts \ contested,
                      Holds(calls'[l], a), Holds(calls'[m], a)
               PROVE  l = m
    BY DEF Owned, Holds, InRefresh
  <2> QED BY <1>2 DEF Owned
<1> QED BY <1>2, <1>3, <1>4

(* Another account is chosen to publish.                                   *)
LEMMA ActiveInv ==
  ASSUME Inv, TypeOK', NEW k \in Calls, SaveActive(k)
  PROVE  Inv'
<1> TypeOK /\ Shaped /\ Named /\ Asked /\ Current /\ Copied
  BY DEF Inv
<1>1. /\ doc'.accounts = doc.accounts /\ doc'.token = doc.token /\ grants' = grants
      /\ gone' = gone /\ contested' = contested /\ timers' = timers
      /\ Meanwhile(k, doc', FALSE) /\ calls[k].kind = "activate" /\ calls[k].pc = "save"
      /\ \A a : Live(a)' = Live(a)
  BY DEF SaveActive, history, TypeOK, Document, Live
<1>2. Known' = Known
  BY <1>1 DEF Known
<1>3. /\ calls'[k] = Idle
      /\ \A l \in Calls \ {k} :
           /\ Same(calls[l], calls'[l])
           /\ calls'[l].chosen = IF calls[l].chosen = {} THEN {}
                                 ELSE calls[l].chosen \cup {Selected(doc')}
           /\ Outdates(calls[l], calls'[l], FALSE)
  BY <1>1, MeanwhileEffect
<1>4. /\ Shaped' /\ \A l \in Calls : NamedCall(calls[l])' /\ AskedCall(calls[l])'
      /\ Owned'
      /\ \A l \in Calls : \A a : Holds(calls'[l], a) <=> l # k /\ Holds(calls[l], a)
  BY <1>1, <1>2, <1>3, OthersSound
<1>5. Named'
  BY <1>1, <1>2, <1>4 DEF Named
<1>6. Asked'
  BY <1>1, <1>4 DEF Asked
<1>7. Current'
  <2>1. CurrentCall(calls[k])'
    BY <1>3, IdleCall DEF CurrentCall, Ended, NoRef
  <2>2. ASSUME NEW l \in Calls \ {k} PROVE CurrentCall(calls[l])'
    <3>1. CurrentCall(calls[l]) /\ Same(calls[l], calls'[l])
      BY <1>3 DEF Current
    <3> QED BY <1>1, <3>1 DEF CurrentCall, InRefresh, Same, Live
  <2> QED BY <2>1, <2>2 DEF Current
<1>8. Copied'
  <2>1. calls'[k].kind = "token"
    BY <1>3, IdleCall DEF Ended
  <2>2. ASSUME NEW l \in Calls \ {k} PROVE CopiedCall(calls[l])'
    <3>1. CopiedCall(calls[l]) /\ Same(calls[l], calls'[l])
      BY <1>3 DEF Copied
    <3>2. ~calls'[l].stale => ~calls[l].stale
      BY Zenon, <1>3 DEF Outdates
    <3> QED BY <1>1, <1>2, <3>1, <3>2 DEF CopiedCall, Same
  <2>3. CopiedCall(calls[k])'
    BY <2>1 DEF CopiedCall, Admin
  <2>4. ASSUME NEW l \in Calls, NEW m \in Calls, calls'[l].kind = "register",
               calls'[m].kind = "register", calls'[l].asked = calls'[m].asked
        PROVE  l = m
    <3>1. l # k /\ m # k
      BY <2>1, <2>4
    <3>2. /\ calls[l].kind = "register" /\ calls[m].kind = "register"
          /\ calls[l].asked = calls[m].asked
      BY <1>3, <2>4, <3>1 DEF Same
    <3> QED BY <3>2 DEF Copied
  <2> QED BY <2>2, <2>3, <2>4 DEF Copied
<1>9. LiveTokenIsKept'
  <2> SUFFICES ASSUME NEW a \in doc.accounts \ contested
               PROVE  \/ grants[a] = 0 /\ doc.token[a] = NoToken
                      \/ doc.token[a] = Live(a)
                      \/ \E l \in Calls : Holds(calls'[l], a) /\ calls'[l].hand = Live(a)
    BY <1>1 DEF LiveTokenIsKept, Holds, InRefresh, Live
  <2>1. ~Holds(calls[k], a)
    BY <1>1 DEF Holds, InRefresh, Refreshing, Admin
  <2>2. \A l \in Calls : Holds(calls[l], a) /\ calls[l].hand = Live(a) =>
          Holds(calls'[l], a) /\ calls'[l].hand = Live(a)
    BY <1>3, <1>4, <2>1 DEF Same
  <2> QED BY <2>2 DEF Inv, LiveTokenIsKept
<1>10. DeletedStaysDeleted'
  BY <1>1 DEF Inv, DeletedStaysDeleted
<1> QED BY <1>4, <1>5, <1>6, <1>7, <1>8, <1>9, <1>10 DEF Inv

(* An array that has been overtaken is not saved.                          *)
LEMMA StaleInv ==
  ASSUME Inv, TypeOK', NEW k \in Calls, SaveArray(k), ~Savable(calls[k])
  PROVE  Inv'
<1> TypeOK /\ Shaped /\ Named
  BY DEF Inv
<1>1. /\ Changes(k, Idle) /\ doc' = doc /\ gone' = gone /\ grants' = grants
      /\ timers' = timers /\ contested' = contested /\ calls[k].kind \in Admin
  BY DEF SaveArray, Changes
<1>2. Idle \in Call /\ Calm(Idle) /\ Sound(Idle)
  BY IdleCall DEF Ended, Calm, Sound, ShapedCall, NamedCall, AskedCall, InRefresh, Admin,
                  Setting, NoRef
<1>3. calls[k].hand = NoToken
  BY <1>1 DEF Shaped, ShapedCall, Setting
<1>4. \A a \in Accounts : calls[k].hand # Live(a)
  BY <1>3, AccountsAssumption DEF Live, NoToken
<1>5. \A i \in Instances : timers'[i] \subseteq Known
  BY <1>1 DEF Named
<1> QED BY <1>1, <1>2, <1>4, <1>5, CalmStep

(* The array is saved: nobody else holds an account, but for those that    *)
(* are contested.                                                          *)
LEMMA ArrayInv ==
  ASSUME Inv, TypeOK', NEW k \in Calls, SaveArray(k), Savable(calls[k])
  PROVE  Inv'
<1> TypeOK /\ Shaped /\ Named /\ Asked /\ Current /\ Copied
  BY DEF Inv
<1> DEFINE c == calls[k]
<1>1. /\ doc' = ArrayOf(c) /\ Meanwhile(k, doc', TRUE)
      /\ gone' = (IF c.kind = "delete" THEN gone \cup {c.asked} ELSE gone)
      /\ c.kind \in Admin /\ c.pc = "save" /\ grants' = grants /\ timers' = timers
      /\ contested' = contested /\ \A a : Live(a)' = Live(a)
  BY DEF SaveArray, Live
<1>2. /\ calls'[k] = Idle
      /\ \A l \in Calls \ {k} :
           /\ Same(calls[l], calls'[l])
           /\ calls'[l].chosen = IF calls[l].chosen = {} THEN {}
                                 ELSE calls[l].chosen \cup {Selected(doc')}
           /\ Outdates(calls[l], calls'[l], TRUE)
  BY <1>1, MeanwhileEffect
<1>3. /\ c.copy.accounts = doc.accounts
      /\ \A a \in Accounts : c.copy.token[a] # NoToken => doc.token[a] # NoToken
      /\ \A a \in Accounts \ contested : c.copy.token[a] = doc.token[a]
      /\ c.kind = "delete" => c.asked \in c.copy.accounts
      /\ c.kind = "register" => c.asked \notin Known
  BY <1>1 DEF Copied, CopiedCall, Savable
<1>4. /\ c.asked \in Accounts
      /\ c.kind = "register" =>
           /\ doc'.accounts = doc.accounts \cup {c.asked}
           /\ \A a \in Accounts : doc'.token[a] = c.copy.token[a]
      /\ c.kind # "register" =>
           /\ c.kind = "delete" /\ doc'.accounts = doc.accounts \ {c.asked}
           /\ \A a \in Accounts : doc'.token[a] = IF a = c.asked THEN NoToken ELSE c.copy.token[a]
  BY <1>1, <1>3, ArrayType
<1> HIDE DEF c
<1>5. /\ Known' = IF c.kind = "register" THEN Known \cup {c.asked} ELSE Known
      /\ gone \subseteq gone'
  BY <1>1, <1>3, <1>4 DEF Known, Admin
<1>6. /\ Shaped' /\ \A l \in Calls : NamedCall(calls[l])' /\ AskedCall(calls[l])'
      /\ Owned'
      /\ \A l \in Calls : \A a : Holds(calls'[l], a) <=> l # k /\ Holds(calls[l], a)
  <2>1. Known \subseteq Known'
    BY <1>5
  <2> QED BY <1>1, <1>2, <1>5, <2>1, OthersSound
<1>7. \A l \in Calls \ {k}, a \in Accounts \ contested : ~Holds(calls[l], a)
  <2>1. \A a \in Accounts : Holds(calls[k], a)
    BY <1>1 DEF Holds, c
  <2> QED BY <2>1 DEF Inv, Owned
<1>8. \A a \in Accounts \ contested :
        doc'.token[a] = doc.token[a] \/ (doc'.token[a] = NoToken /\ a \notin doc'.accounts)
  BY <1>3, <1>4
<1>9. Named'
  <2>1. \A a \in Accounts \ Known' : grants'[a] = 0 /\ doc'.token[a] = NoToken
    <3>1. \A a \in Accounts : doc.token[a] = NoToken => doc'.token[a] = NoToken
      BY <1>3, <1>4
    <3> QED BY <1>1, <1>5, <3>1 DEF Named
  <2>2. \A i \in Instances : timers'[i] \subseteq Known'
    BY <1>1, <1>5 DEF Named
  <2> QED BY <1>6, <2>1, <2>2 DEF Named
<1>10. Asked'
  BY <1>1, <1>6, <1>8 DEF Asked
<1>11. Current'
  <2>1. CurrentCall(calls[k])'
    BY <1>2, IdleCall DEF CurrentCall, Ended, NoRef
  <2>2. ASSUME NEW l \in Calls \ {k} PROVE CurrentCall(calls[l])'
    <3> DEFINE new == calls'[l]
    <3>1. \A a \in Accounts \ contested : ~Holds(new, a)
      BY <1>6, <1>7
    <3>2. new \in Call /\ ShapedCall(new)
      BY <1>6 DEF TypeOK, Shaped, ShapedCall
    <3>3. new.cur.acct \in Accounts \cup {None}
      BY <3>2 DEF Call, Ref
    <3> HIDE DEF new
    <3>4. new.kind \notin Setting /\ new.cur.acct \notin contested \cup {None} =>
            ~(InRefresh(new) /\ new.pc = "exchange") /\ new.pc \notin {"redirect", "save"}
      BY <3>1, <3>2, <3>3
      DEF Holds, InRefresh, ShapedCall, Setting, Admin, Refreshing, Call, Kinds
    <3>5. new.kind = "profile" => new.pc = "save"
      BY <3>2 DEF ShapedCall
    <3> QED BY <1>1, <3>4, <3>5 DEF CurrentCall, new, InRefresh
  <2> QED BY <2>1, <2>2 DEF Current
<1>12. Copied'
  <2>1. calls'[k].kind = "token"
    BY <1>2, IdleCall DEF Ended
  <2>2. ASSUME NEW l \in Calls \ {k} PROVE CopiedCall(calls[l])'
    <3>1. Same(calls[l], calls'[l]) /\ ~(~calls'[l].stale /\ calls[l].kind \in Admin)
      BY Zenon, <1>2 DEF Outdates
    <3>2. calls[l].kind = "register" => calls[l].asked \notin Known'
      BY <1>5 DEF Copied, CopiedCall, c
    <3> QED BY <3>1, <3>2 DEF CopiedCall, Same
  <2>3. CopiedCall(calls[k])'
    BY <2>1 DEF CopiedCall, Admin
  <2>4. ASSUME NEW l \in Calls, NEW m \in Calls, calls'[l].kind = "register",
               calls'[m].kind = "register", calls'[l].asked = calls'[m].asked
        PROVE  l = m
    <3>1. l # k /\ m # k
      BY <2>1, <2>4
    <3>2. /\ calls[l].kind = "register" /\ calls[m].kind = "register"
          /\ calls[l].asked = calls[m].asked
      BY <1>2, <2>4, <3>1 DEF Same
    <3> QED BY <3>2 DEF Copied
  <2> QED BY <2>2, <2>3, <2>4 DEF Copied
<1>13. LiveTokenIsKept'
  <2> SUFFICES ASSUME NEW a \in doc'.accounts \ contested
               PROVE  (grants[a] = 0 /\ doc'.token[a] = NoToken) \/ doc'.token[a] = Live(a)
    BY <1>1 DEF LiveTokenIsKept
  <2>1. a \in Accounts \ contested /\ doc'.token[a] = doc.token[a]
    BY <1>4, <1>8, Found
  <2>2. CASE a \in doc.accounts
    <3>1. c.hand = NoToken
      BY <1>1 DEF Shaped, ShapedCall, Setting, c
    <3>2. \A l \in Calls : ~(Holds(calls[l], a) /\ calls[l].hand = Live(a))
      <4>1. Live(a) # NoToken
        BY <2>1, AccountsAssumption DEF Live, NoToken
      <4> QED BY <1>7, <2>1, <3>1, <4>1 DEF c
    <3> QED BY <2>1, <2>2, <3>2 DEF Inv, LiveTokenIsKept
  <2>3. CASE a \notin doc.accounts
    <3>1. a \notin Known
      BY <1>3, <1>4, <2>3 DEF Known
    <3> QED BY <2>1, <3>1 DEF Named
  <2> QED BY <2>2, <2>3
<1>14. DeletedStaysDeleted'
  BY <1>1, <1>3, <1>4 DEF Inv, DeletedStaysDeleted, Known
<1> QED BY <1>6, <1>9, <1>10, <1>11, <1>12, <1>13, <1>14 DEF Inv

-----------------------------------------------------------------------------
(* The theorems.                                                           *)

(* The invariant holds at first.                                           *)
LEMMA InitInv ==
  ASSUME Init
  PROVE  Inv
<1>1. PICK A \in SUBSET Accounts, s \in Accounts \cup {None} :
        /\ s \in A \cup {None}
        /\ doc = [accounts |-> A, active |-> s,
                  token |-> [b \in Accounts |-> IF b \in A THEN [of |-> b, no |-> 1] ELSE NoToken]]
  BY DEF Init
<1>2. /\ doc.accounts = A /\ doc.active = s
      /\ \A a \in Accounts : doc.token[a] = IF a \in A THEN [of |-> a, no |-> 1] ELSE NoToken
      /\ doc.token \in [Accounts -> Tokens]
  BY <1>1, BoundsAssumption DEF Tokens, Token
<1>3. doc \in Document
  BY <1>1, <1>2 DEF Document
<1>4. /\ grants \in [Accounts -> 0 .. MaxGrants]
      /\ \A a \in Accounts : grants[a] = IF a \in A THEN 1 ELSE 0
  BY <1>2, BoundsAssumption DEF Init
<1>5. /\ timers = [i \in Instances |-> Schedulable(doc)] /\ Schedulable(doc) \subseteq A
      /\ A \subseteq Accounts /\ booting = {} /\ events = 0
      /\ gone = {} /\ contested = {} /\ unattended = {}
      /\ calls = [k \in Calls |-> Idle] /\ Known = A
  BY <1>1, <1>2 DEF Init, Known, Schedulable
<1>6. /\ Idle \in Call /\ Calm(Idle) /\ Sound(Idle) /\ Idle.kind = "token"
      /\ Idle.pc = "idle" /\ Idle.cur = NoRef
  BY IdleCall DEF Ended, Calm, Sound, ShapedCall, NamedCall, AskedCall, InRefresh, Admin,
                  Setting, NoRef
<1>7. TypeOK
  BY <1>3, <1>4, <1>5, <1>6, BoundsAssumption DEF TypeOK
<1>8. \A k \in Calls : calls[k] = Idle
  BY <1>5
<1>9. Shaped
  BY <1>6, <1>8 DEF Shaped, Sound
<1>10. Named
  BY <1>2, <1>4, <1>5, <1>6, <1>8 DEF Named, Sound
<1>11. Owned
  BY <1>6, <1>8 DEF Owned, Holds, InRefresh, Calm
<1>12. Current
  BY <1>6, <1>8 DEF Current, CurrentCall, NoRef
<1>13. Copied
  BY <1>6, <1>8 DEF Copied, CopiedCall, Admin
<1>14. Asked
  <2>1. ASSUME NEW a \in Accounts PROVE doc.token[a] = NoToken \/ doc.token[a].of = a
    <3>1. CASE a \in A
      <4>1. doc.token[a] = [of |-> a, no |-> 1]
        BY <1>2, <3>1
      <4> QED BY <4>1
    <3>2. CASE a \notin A
      BY <1>2, <3>2
    <3> QED BY <3>1, <3>2
  <2>2. \A k \in Calls : AskedCall(calls[k])
    BY <1>6, <1>8 DEF Sound
  <2> QED BY <2>1, <2>2 DEF Asked
<1>15. LiveTokenIsKept
  BY <1>2, <1>4 DEF LiveTokenIsKept, Live
<1>16. DeletedStaysDeleted
  BY <1>5 DEF DeletedStaysDeleted
<1> QED BY <1>7, <1>9, <1>10, <1>11, <1>12, <1>13, <1>14, <1>15, <1>16 DEF Inv

(* Every step keeps the invariant.                                         *)
LEMMA NextInv ==
  ASSUME Inv, [Next]_vars
  PROVE  Inv'
<1>1. CASE UNCHANGED vars
  BY <1>1 DEF vars, history, Inv, TypeOK, Shaped, ShapedCall, Named, NamedCall, Known, Owned,
     Holds, InRefresh, Current, CurrentCall, Live, Copied, CopiedCall, Asked, AskedCall,
     Selected, LiveTokenIsKept, DeletedStaysDeleted, LockKey
<1>2. CASE Next
  <2>1. TypeOK'
    BY <1>2, NextType DEF Inv
  <2>2. ASSUME NEW k \in Calls, Acquire(k) PROVE Inv'
    BY <2>1, <2>2, AcquireInv
  <2>3. ASSUME NEW k \in Calls, RefreshFails(k) PROVE Inv'
    BY <2>1, <2>3, FailInv DEF RefreshFails
  <2>4. ASSUME NEW k \in Calls, SaveArray(k) PROVE Inv'
    BY <2>1, <2>4, StaleInv, ArrayInv
  <2>5. ASSUME NEW k \in Calls, Step(k) PROVE Inv'
    BY <2>1, <2>2, <2>3, <2>4, <2>5, CalmInv, ExchangeInv, LostInv, AuthenticateInv,
       RedirectInv, SaveInv, SaveFailsInv, ActiveInv
    DEF Step, Refresh
  <2>6. ASSUME NEW k \in Calls, NEW i \in Instances, Begin(k, i) PROVE Inv'
    <3>1. ASSUME NEW asked \in Accounts \cup {None}, Profile(k, i, asked) PROVE Inv'
      BY <2>1, <3>1, ProfileInv
    <3>2. ASSUME NEW asked \in Accounts \cup {None}, NEW kind \in Setting,
                 ReadDocument(k, i, kind, asked) PROVE Inv'
      BY <2>1, <3>2, ReadInv
    <3> QED BY <2>1, <2>6, <3>1, <3>2, CalmInv DEF Begin, Setting
  <2> QED BY <1>2, <2>1, <2>5, <2>6, CrashInv, BootInv DEF Next
<1> QED BY <1>1, <1>2

(* The invariant holds for ever.                                           *)
LEMMA Invariance == Spec => []Inv
  BY InitInv, NextInv, PTL DEF Spec

(* Every reachable state is well typed.                                    *)
THEOREM Typed == Spec => []TypeOK
<1>1. Inv => TypeOK
  BY DEF Inv
<1> QED BY <1>1, Invariance, PTL

(* The last token granted to an account is stored, or one call has it and  *)
(* will store it, however many refreshes one process has under way and     *)
(* whenever timers go off.  Not of a contested account: one that was       *)
(* refreshed in two processes at a time, that a consent, a profile or an   *)
(* array was written for meanwhile, or whose new token was lost by a crash *)
(* or a failure between the exchange and the save.                         *)
THEOREM Kept == Spec => []LiveTokenIsKept
<1>1. Inv => LiveTokenIsKept
  BY DEF Inv
<1> QED BY <1>1, Invariance, PTL

(* Under the lock of one process no refresh presents a token that has been *)
(* replaced: the second caller waits, and the account is read again under  *)
(* the lock.  A refresh of a contested account may present one: processes  *)
(* share no lock, and consents, profiles and arrays take none.             *)
THEOREM Accepted == Spec => []RefreshesAreAccepted
<1>1. ASSUME Inv PROVE RefreshesAreAccepted
  <2> SUFFICES ASSUME NEW k \in Calls, calls[k].kind \in Refreshing, calls[k].pc = "exchange",
                      calls[k].cur.acct \notin contested
               PROVE  calls[k].cur.tok = Live(calls[k].cur.acct)
    BY DEF RefreshesAreAccepted
  <2>1. ShapedCall(calls[k]) /\ CurrentCall(calls[k])
    BY <1>1 DEF Inv, Shaped, Current
  <2>2. calls[k].kind \notin Setting /\ calls[k].cur.acct # None /\ InRefresh(calls[k])
    BY <2>1 DEF ShapedCall, InRefresh, Refreshing, Setting, Admin
  <2> QED BY <2>1, <2>2 DEF CurrentCall
<1> QED BY <1>1, Invariance, PTL

(* An account that was deleted does not come back with an array that was   *)
(* read before.                                                            *)
THEOREM Deleted == Spec => []DeletedStaysDeleted
<1>1. Inv => DeletedStaysDeleted
  BY DEF Inv
<1> QED BY <1>1, Invariance, PTL

(* A call ends with an answer only when it has resolved its account.       *)
LEMMA AnswersAreResolved ==
  ASSUME Inv, [Next]_vars, NEW l \in Calls,
         calls[l].pc # "idle", calls'[l].pc = "idle", calls'[l].ref # NoRef
  PROVE  Resolve(l) \/ Reread(l)
<1> USE DEF Inv
<1>1. \A k \in Calls : calls[k] \in Call
  BY DEF TypeOK
<1>2. calls' # calls
  OBVIOUS
<1>3. ~UNCHANGED vars
  BY <1>2 DEF vars
<1>4. ASSUME NEW k \in Calls, NEW ok \in BOOLEAN PROVE ~Settle(k, ok)
  <2>1. SUFFICES ASSUME Settle(k, ok) PROVE FALSE
    OBVIOUS
  <2>2. calls'[l] = calls[l] \/ calls'[l] = AfterRefresh(calls[l], ok)
    BY <2>1 DEF Settle
  <2>3. calls'[l] = AfterRefresh(calls[l], ok)
    BY <2>2
  <2> QED BY <1>1, <2>3, AfterEffect DEF Ended
<1>5. ASSUME NEW k \in Calls, NEW d, NEW versioned \in BOOLEAN PROVE ~Meanwhile(k, d, versioned)
  <2>1. SUFFICES ASSUME Meanwhile(k, d, versioned) PROVE FALSE
    OBVIOUS
  <2> QED BY <2>1, MeanwhileEffect, IdleCall DEF Same
<1>6. ASSUME NEW k \in Calls, NEW new \in Call, Changes(k, new),
             new.pc # "idle" \/ calls[k].pc = "idle" \/ new.ref = NoRef
      PROVE  FALSE
  BY <1>6, ChangedCall
<1>7. ~\E k \in Calls : Changes(k, Idle)
  BY <1>6, IdleCall DEF Ended
<1>8. ASSUME NEW k \in Calls, Step(k)
      PROVE  Resolve(l) \/ Reread(l)
  <2>1. CASE Resolve(k) \/ Reread(k)
    <3>1. \A m \in Calls \ {k} : calls'[m] = calls[m]
      BY <1>1, <2>1, ResolveEffect, RereadEffect, ChangedCall
    <3> QED BY <2>1, <3>1
  <2>2. ~Acquire(k)
    <3>1. SUFFICES ASSUME Acquire(k) PROVE FALSE
      OBVIOUS
    <3>2. ~Settles(Waiters(k) \cup {k}, FALSE)
      BY <1>4 DEF Settles, Settle
    <3> QED BY <1>6, <3>1, <3>2, AcquireEffect
  <2>3. ~Join(k)
    BY <1>6, JoinEffect
  <2>4. ~Exchange(k)
    <3>1. SUFFICES ASSUME Exchange(k) PROVE FALSE
      OBVIOUS
    <3>2. calls[k].cur.acct # None
      BY <3>1 DEF Exchange, Shaped, ShapedCall, Refreshing, Setting, Admin
    <3> QED BY <1>6, <3>1, <3>2, ExchangeEffect
  <2>5. ~RefreshFails(k) /\ ~ReplyLost(k) /\ ~SaveFails(k)
    BY <1>4 DEF RefreshFails, ReplyLost, SaveFails
  <2>6. ~Authenticate(k)
    <3>1. SUFFICES ASSUME Authenticate(k) PROVE FALSE
      OBVIOUS
    <3>2. calls[k].cur.acct # None
      BY <3>1 DEF Authenticate, Shaped, ShapedCall, Refreshing, Setting, Admin
    <3> QED BY <1>6, <3>1, <3>2, AuthenticateEffect
  <2>7. ~Redirect(k)
    BY <1>6, RedirectEffect
  <2>8. ~CallFails(k)
    BY <1>7 DEF CallFails, Changes
  <2>9. ~Save(k)
    BY <1>4, <1>7 DEF Save, Changes
  <2>10. ~SaveArray(k)
    BY <1>5, <1>7 DEF SaveArray, Changes
  <2>11. ~SaveActive(k)
    BY <1>5 DEF SaveActive
  <2> QED BY <1>8, <2>1, <2>2, <2>3, <2>4, <2>5, <2>6, <2>7, <2>8, <2>9, <2>10, <2>11
          DEF Step, Refresh
<1>9. ASSUME NEW k \in Calls, NEW i \in Instances PROVE ~Begin(k, i)
  <2>1. ~Check(k, i)
    BY <1>6, CheckEffect
  <2>2. ASSUME NEW asked \in Accounts \cup {None} PROVE ~Ask(k, i, asked)
    BY <1>6, AskEffect DEF AsksFor
  <2>3. ASSUME NEW asked \in Accounts \cup {None} PROVE ~Authorise(k, i, asked)
    BY <1>6, AuthoriseEffect
  <2>4. ASSUME NEW asked \in Accounts \cup {None} PROVE ~Profile(k, i, asked)
    BY <1>6, ProfileEffect DEF TakesProfile
  <2>5. ASSUME NEW asked \in Accounts \cup {None}, NEW kind \in Setting
        PROVE  ~ReadDocument(k, i, kind, asked)
    BY <1>6, ReadEffect
  <2>6. ASSUME NEW a \in Accounts PROVE ~Fire(k, i, a)
    BY <1>6, FireEffect
  <2> QED BY <2>1, <2>2, <2>3, <2>4, <2>5, <2>6 DEF Begin, Setting
<1>10. ASSUME NEW i \in Instances PROVE ~Crash(i)
  BY IdleCall DEF Crash, Ended
<1>11. ASSUME NEW i \in Instances PROVE ~Boot(i)
  BY <1>2 DEF Boot
<1> QED BY <1>3, <1>8, <1>9, <1>10, <1>11 DEF Next

(* An answer is a token of the account that was asked for, or else of one  *)
(* that was chosen to publish during the call.                             *)
THEOREM Fits == Spec => AnswersFitTheQuestion
<1>1. ASSUME Inv, [Next]_vars, NEW k \in Calls, calls[k].pc # "idle", calls'[k].pc = "idle",
             Answer(k) # NoRef
      PROVE  LET c == calls[k] IN
             /\ c.asked # None => Answer(k).acct = c.asked
             /\ c.asked = None /\ None \notin c.chosen => Answer(k).acct \in c.chosen
             /\ Answer(k).acct \notin contested => Answer(k).tok.of = Answer(k).acct
  <2> DEFINE c == calls[k]
             ref == RefOf(Lookup(c.asked))
  <2>1. TypeOK /\ ShapedCall(c) /\ AskedCall(c) /\ c.asked \in Accounts \cup {None}
    BY <1>1 DEF Inv, TypeOK, Shaped, Asked, Call
  <2>2. Resolve(k) \/ Reread(k)
    BY <1>1, AnswersAreResolved DEF Answer
  <2>3. /\ c.kind = "token"
        /\ \/ Answer(k) = ref /\ ref.tok # NoToken
           \/ Answer(k) = c.ref /\ c.pc = "reread"
    <3>1. CASE Resolve(k)
      <4>1. PICK new \in Call :
              /\ Changes(k, new) /\ c.pc = "resolve"
              /\ \/ Ended(new) /\ (new.ref = NoRef \/ (new.ref = ref /\ ref.tok # NoToken))
                 \/ /\ new.pc = "refresh" /\ new.ref = ref /\ ref.tok # NoToken
                    /\ new.kind = c.kind /\ new.asked = c.asked /\ new.cur = c.cur
                    /\ new.hand = c.hand /\ new.chosen = c.chosen
        BY <2>1, <3>1, ResolveEffect
      <4>2. calls'[k] = new
        BY <2>1, <4>1, ChangedCall
      <4> HIDE DEF c, ref
      <4> QED BY <1>1, <2>1, <4>1, <4>2 DEF Answer, ShapedCall
    <3>2. CASE Reread(k)
      <4>1. PICK new \in Call :
              /\ Changes(k, new) /\ c.pc = "reread" /\ Ended(new)
              /\ new.ref = IF ref.tok = NoToken THEN c.ref ELSE ref
        BY <2>1, <3>2, RereadEffect
      <4>2. calls'[k] = new
        BY <2>1, <4>1, ChangedCall
      <4> HIDE DEF c, ref
      <4> QED BY <2>1, <4>1, <4>2 DEF Answer, ShapedCall
    <3> QED BY <2>2, <3>1, <3>2
  <2>4. ref.tok # NoToken =>
          /\ c.asked # None => ref.acct = c.asked
          /\ c.asked = None /\ Selected(doc) # None => ref.acct = Selected(doc)
          /\ ref.acct \notin contested => ref.tok.of = ref.acct
    BY <1>1, <2>1, Answers
  <2> HIDE DEF c, ref
  <2>5. CASE Answer(k) = ref /\ ref.tok # NoToken
    <3>1. c.asked = None => c.chosen # {} /\ Selected(doc) \in c.chosen
      BY <1>1, <2>1, <2>3 DEF AskedCall, c
    <3> QED BY <2>4, <2>5, <3>1 DEF c
  <2>6. CASE Answer(k) = c.ref /\ c.pc = "reread"
    BY <2>1, <2>3, <2>6 DEF AskedCall, c
  <2> QED BY <2>3, <2>5, <2>6
<1>2. Inv /\ [Next]_vars =>
        [\A k \in Calls : LET c == calls[k] IN
          c.pc # "idle" /\ calls'[k].pc = "idle" /\ Answer(k) # NoRef =>
            /\ c.asked # None => Answer(k).acct = c.asked
            /\ c.asked = None /\ None \notin c.chosen => Answer(k).acct \in c.chosen
            /\ Answer(k).acct \notin contested => Answer(k).tok.of = Answer(k).acct]_vars
  BY <1>1
<1> QED BY <1>2, Invariance, PTL DEF Spec, AnswersFitTheQuestion

-----------------------------------------------------------------------------
(* Timers.                                                                 *)

\* A call that is not idle is in an instance.
Placed == \A k \in Calls : calls[k].pc # "idle" => calls[k].at \in Instances

(* Calls that begin are in an instance, and stay in it.                    *)
LEMMA PlacedNext ==
  ASSUME Inv, Placed, [Next]_vars
  PROVE  Placed'
<1> TypeOK /\ Shaped
  BY DEF Inv
<1>1. \A k \in Calls : calls[k] \in Call
  BY DEF TypeOK
<1>2. Idle.pc = "idle"
  BY IdleCall DEF Ended
<1>3. ASSUME NEW k \in Calls, NEW new,
             new.pc = "idle" \/ new.at \in Instances \/ (calls[k].pc # "idle" /\ new.at = calls[k].at),
             calls' = [calls EXCEPT ![k] = new]
      PROVE  Placed'
  BY <1>3 DEF Placed, TypeOK
<1>4. ASSUME NEW kind \in Kinds, NEW i \in Instances, NEW asked \in Accounts \cup {None},
             NEW pc, NEW ref, NEW cur, NEW hand, NEW copy, NEW chosen
      PROVE  /\ [Fresh(kind, i, asked) EXCEPT !.pc = pc, !.chosen = chosen].at = i
             /\ [Fresh(kind, i, asked) EXCEPT !.pc = pc, !.cur = cur].at = i
             /\ [Fresh(kind, i, asked) EXCEPT !.pc = pc].at = i
             /\ [Fresh(kind, i, asked) EXCEPT !.pc = pc, !.cur = cur, !.hand = hand].at = i
             /\ [Fresh(kind, i, asked) EXCEPT !.pc = pc, !.copy = copy].at = i
             /\ [Refreshed(Fresh(kind, i, asked), ref) EXCEPT !.chosen = chosen].at = i
  <2> DEFINE fresh == Fresh(kind, i, asked)
  <2>1. fresh \in Call /\ fresh.at = i
    BY FreshCall
  <2> HIDE DEF fresh
  <2>2. /\ [fresh EXCEPT !.pc = pc, !.chosen = chosen].at = i
        /\ [fresh EXCEPT !.pc = pc, !.cur = cur].at = i
        /\ [fresh EXCEPT !.pc = pc].at = i
        /\ [fresh EXCEPT !.pc = pc, !.cur = cur, !.hand = hand].at = i
        /\ [fresh EXCEPT !.pc = pc, !.copy = copy].at = i
        /\ [Refreshed(fresh, ref) EXCEPT !.chosen = chosen].at = i
    BY <2>1 DEF Call, Refreshed
  <2> QED BY <2>2 DEF fresh
<1>5. {"token", "force", "timer", "callback", "consent", "profile"} \cup Setting \subseteq Kinds
  BY DEF Kinds, Refreshing, Admin, Setting
<1>6. ASSUME NEW k \in Calls, NEW i \in Instances, Begin(k, i) PROVE Placed'
  <2>1. CASE Check(k, i)
    <3>1. [Fresh("token", i, None) EXCEPT !.pc = "resolve", !.chosen = {Selected(doc)}].at = i
      BY <1>4, <1>5
    <3> QED BY <1>3, <2>1, <3>1 DEF Check
  <2>2. ASSUME NEW asked \in Accounts \cup {None}, Ask(k, i, asked) PROVE Placed'
    <3> DEFINE new(kind) == [Refreshed(Fresh(kind, i, asked), RefOf(Lookup(asked))) EXCEPT
                               !.chosen = IF asked = None THEN {Selected(doc)} ELSE {}]
    <3>1. PICK kind \in {"token", "force"} : calls' = [calls EXCEPT ![k] = new(kind)]
      BY <2>2 DEF Ask
    <3>2. new(kind).at = i
      BY <1>4, <1>5
    <3> QED BY <1>3, <3>1, <3>2
  <2>3. ASSUME NEW asked \in Accounts \cup {None}, Authorise(k, i, asked) PROVE Placed'
    <3> DEFINE kind == IF asked = None THEN "consent" ELSE "callback"
    <3>1. [Fresh(kind, i, asked) EXCEPT !.pc = "exchange", !.cur = RefOf(Lookup(asked))].at = i
      <4>1. kind \in Kinds
        BY <1>5
      <4> HIDE DEF kind
      <4> QED BY <1>4, <4>1
    <3> QED BY <1>3, <2>3, <3>1 DEF Authorise
  <2>4. ASSUME NEW asked \in Accounts \cup {None}, Profile(k, i, asked) PROVE Placed'
    <3>1. [Fresh("profile", i, asked) EXCEPT !.pc = "save", !.cur = RefOf(Lookup(asked)),
             !.hand = RefOf(Lookup(asked)).tok].at = i
      BY <1>4, <1>5
    <3> QED BY <1>3, <2>4, <3>1 DEF Profile
  <2>5. ASSUME NEW asked \in Accounts \cup {None}, NEW kind \in Setting,
               ReadDocument(k, i, kind, asked) PROVE Placed'
    <3>1. [Fresh(kind, i, asked) EXCEPT !.pc = "save",
             !.copy = IF kind = "activate" THEN NoDocument ELSE doc].at = i
      BY <1>4, <1>5
    <3> QED BY <1>3, <2>5, <3>1 DEF ReadDocument
  <2>6. ASSUME NEW a \in Accounts, Fire(k, i, a) PROVE Placed'
    <3>1. [Fresh("timer", i, a) EXCEPT !.pc = "refresh"].at = i
      BY <1>4, <1>5
    <3> QED BY <1>3, <2>6, <3>1 DEF Fire
  <2> QED BY <1>6, <2>1, <2>2, <2>3, <2>4, <2>5, <2>6 DEF Begin, Setting
<1>7. ASSUME NEW k \in Calls, NEW ok \in BOOLEAN, Settle(k, ok), calls[k].pc # "idle"
      PROVE  Placed'
  <2>1. ASSUME NEW l \in Calls, calls'[l].pc # "idle" PROVE calls'[l].at \in Instances
    <3>1. CASE l \in Waiters(k) \cup {k}
      <4>1. calls[l].pc # "idle" /\ calls[l].at \in Instances
        BY <1>7, <3>1 DEF Waiters, Placed
      <4>2. calls'[l] = AfterRefresh(calls[l], ok)
        BY <1>7, <3>1 DEF Settle
      <4>3. AfterRefresh(calls[l], ok).pc # "idle" => AfterRefresh(calls[l], ok).at = calls[l].at
        BY <1>1, <1>2 DEF AfterRefresh, Call
      <4> QED BY <2>1, <4>1, <4>2, <4>3
    <3>2. CASE l \notin Waiters(k) \cup {k}
      BY <1>7, <2>1, <3>2 DEF Settle, Placed
    <3> QED BY <3>1, <3>2
  <2> QED BY <2>1 DEF Placed
<1>8. ASSUME NEW k \in Calls, NEW d, NEW versioned \in BOOLEAN, Meanwhile(k, d, versioned)
      PROVE  Placed'
  BY <1>2, <1>8, MeanwhileEffect DEF Placed, Same
<1>9. ASSUME NEW k \in Calls, Changes(k, Idle) PROVE Placed'
  BY <1>2, <1>3, <1>9 DEF Changes
<1>10. ASSUME NEW k \in Calls, Step(k) PROVE Placed'
  <2> DEFINE c == calls[k]
  <2>1. CASE Resolve(k)
    <3>1. /\ \A ref : Refreshed(c, ref).at = c.at
          /\ c.pc # "idle"
          /\ \A ref : Answered(ref).pc = "idle"
      BY <1>1, <2>1 DEF Refreshed, Answered, Call, Resolve, Idle
    <3>2. PICK d : /\ calls' = [calls EXCEPT ![k] = d]
                   /\ d = Idle \/ d = Refreshed(c, RefOf(Lookup(c.asked)))
                      \/ d = Answered(RefOf(Lookup(c.asked)))
      BY <2>1 DEF Resolve
    <3> QED BY <1>2, <1>3, <3>1, <3>2
  <2>2. CASE Reread(k)
    <3>1. \A ref : Answered(ref).pc = "idle"
      BY DEF Answered, Idle
    <3>2. PICK ref : calls' = [calls EXCEPT ![k] = Answered(ref)]
      BY <2>2 DEF Reread
    <3> QED BY <1>3, <3>1, <3>2
  <2>3. CASE Acquire(k)
    <3>1. CASE Settle(k, FALSE)
      BY <1>7, <2>3, <3>1 DEF Acquire
    <3>2. ASSUME NEW ref, calls' = [calls EXCEPT ![k] = [c EXCEPT !.pc = "exchange", !.cur = ref]]
          PROVE  Placed'
      <4>1. [c EXCEPT !.pc = "exchange", !.cur = ref].at = c.at /\ c.pc # "idle"
        BY <1>1, <2>3 DEF Acquire, Call
      <4> QED BY <1>3, <3>2, <4>1
    <3> QED BY <2>3, <3>1, <3>2 DEF Acquire
  <2>4. CASE Join(k)
    <3>1. [c EXCEPT !.pc = "wait"].at = c.at /\ c.pc # "idle"
      BY <1>1, <2>4 DEF Join, Call
    <3> QED BY <1>3, <2>4, <3>1 DEF Join
  <2>5. CASE Exchange(k)
    <3>1. [c EXCEPT !.pc = "save", !.hand = NextGrant(c.cur.acct)].at = c.at /\ c.pc # "idle"
      BY <1>1, <2>5 DEF Exchange, Call
    <3> QED BY <1>3, <2>5, <3>1 DEF Exchange
  <2>6. CASE RefreshFails(k) \/ ReplyLost(k) \/ SaveFails(k)
    BY <1>7, <2>6 DEF RefreshFails, ReplyLost, SaveFails
  <2>7. CASE Authenticate(k)
    <3> DEFINE pc == IF c.kind = "consent" THEN "redirect" ELSE "save"
    <3>1. [c EXCEPT !.hand = NextGrant(c.cur.acct), !.pc = pc].at = c.at /\ c.pc # "idle"
      BY <1>1, <2>7 DEF Authenticate, Call
    <3> QED BY <1>3, <2>7, <3>1 DEF Authenticate
  <2>8. CASE Redirect(k)
    <3>1. [c EXCEPT !.pc = "save", !.cur = RefOf(AccountFor)].at = c.at /\ c.pc # "idle"
      BY <1>1, <2>8 DEF Redirect, Call
    <3>2. CASE AccountFor = None
      BY <1>9, <2>8, <3>2 DEF Redirect, Changes
    <3>3. CASE AccountFor # None
      BY <1>3, <2>8, <3>1, <3>3 DEF Redirect
    <3> QED BY <3>2, <3>3
  <2>9. CASE CallFails(k)
    BY <1>9, <2>9 DEF CallFails, Changes
  <2>10. CASE Save(k)
    BY <1>7, <1>9, <2>10 DEF Save, Changes
  <2>11. CASE SaveArray(k)
    BY <1>8, <1>9, <2>11 DEF SaveArray, Changes
  <2>12. CASE SaveActive(k)
    BY <1>8, <2>12 DEF SaveActive
  <2> QED BY <1>10, <2>1, <2>2, <2>3, <2>4, <2>5, <2>6, <2>7, <2>8, <2>9, <2>10, <2>11, <2>12
          DEF Step, Refresh
<1>11. ASSUME NEW i \in Instances, Crash(i) PROVE Placed'
  BY <1>2, <1>11 DEF Crash, Placed
<1>12. ASSUME NEW i \in Instances, Boot(i) PROVE Placed'
  BY <1>12 DEF Boot, Placed
<1>13. CASE UNCHANGED vars
  BY <1>13 DEF vars, Placed
<1> QED BY <1>6, <1>10, <1>11, <1>12, <1>13 DEF Next

(* While the timers there are, and the calls they have begun, go on, or    *)
(* their accounts become unattended, every token has its timer.            *)
LEMMA KeepsTimers ==
  ASSUME TokensAreTimed,
         Schedulable(doc') \subseteq Schedulable(doc) \cup unattended',
         unattended \subseteq unattended', booting \subseteq booting',
         \A i \in Instances : timers[i] \subseteq timers'[i],
         \A l \in Calls : calls[l].kind = "timer" =>
           \/ calls'[l].kind = "timer" /\ calls'[l].asked = calls[l].asked
           \/ calls[l].asked \in unattended'
  PROVE  TokensAreTimed'
<1> SUFFICES ASSUME NEW a \in Schedulable(doc') \ unattended'
             PROVE  \/ booting' # {}
                    \/ a \in Timed'
                    \/ \E k \in Calls : calls'[k].kind = "timer" /\ calls'[k].asked = a
  BY DEF TokensAreTimed, Schedulable
<1>1. a \in Schedulable(doc) \ unattended
  OBVIOUS
<1>2. Timed \subseteq Timed'
  BY DEF Timed
<1> QED BY <1>1, <1>2 DEF TokensAreTimed

(* A refresh that fails leaves its timers unattended.                      *)
LEMMA SettleTimers ==
  ASSUME Inv, NEW k \in Calls, Settle(k, FALSE)
  PROVE  /\ unattended \subseteq TimedOut(k)
         /\ \A l \in Calls : calls[l].kind = "timer" =>
              \/ calls'[l].kind = "timer" /\ calls'[l].asked = calls[l].asked
              \/ calls[l].asked \in TimedOut(k)
  BY DEF Settle, TimedOut, Waiters

(* Every step keeps the timers.                                            *)
LEMMA TimedNext ==
  ASSUME Inv, Placed, TokensAreTimed, [Next]_vars
  PROVE  TokensAreTimed'
<1> TypeOK /\ Shaped /\ Named
  BY DEF Inv
<1>1. ASSUME NEW k \in Calls, NEW new \in Call, Changes(k, new),
             calls[k].kind = "timer" => new.kind = "timer" /\ new.asked = calls[k].asked,
             doc' = doc, unattended' = unattended, timers' = timers, booting' = booting
      PROVE  TokensAreTimed'
  <2>1. \A l \in Calls : calls[l].kind = "timer" =>
          calls'[l].kind = "timer" /\ calls'[l].asked = calls[l].asked
    BY <1>1, ChangedCall
  <2> QED BY <1>1, <2>1, KeepsTimers
<1>2. ASSUME NEW k \in Calls, Settle(k, FALSE), doc' = doc, TimedOut(k) \subseteq unattended',
             timers' = timers, booting' = booting
      PROVE  TokensAreTimed'
  BY <1>2, SettleTimers, KeepsTimers
<1>3. \A k \in Calls : calls[k].pc = "idle" => calls[k].kind = "token"
  BY DEF Shaped, ShapedCall
<1>4. ASSUME NEW k \in Calls, NEW i \in Instances, Begin(k, i) PROVE TokensAreTimed'
  <2>1. CASE Check(k, i)
    BY <1>1, <1>3, <2>1, CheckEffect DEF Check, history
  <2>2. ASSUME NEW asked \in Accounts \cup {None}, Ask(k, i, asked) PROVE TokensAreTimed'
    BY <1>1, <1>3, <2>2, AskEffect DEF Ask, history, AsksFor
  <2>3. ASSUME NEW asked \in Accounts \cup {None}, Authorise(k, i, asked) PROVE TokensAreTimed'
    BY <1>1, <1>3, <2>3, AuthoriseEffect DEF Authorise, history
  <2>4. ASSUME NEW asked \in Accounts \cup {None}, Profile(k, i, asked) PROVE TokensAreTimed'
    <3>1. PICK new \in Call : TakesProfile(k, asked, new)
      BY <2>4, ProfileEffect
    <3>2. Changes(k, new) /\ calls[k].kind # "timer"
      BY <1>3, <3>1 DEF TakesProfile
    <3> QED BY <1>1, <2>4, <3>2 DEF Profile
  <2>5. ASSUME NEW asked \in Accounts \cup {None}, NEW kind \in Setting,
               ReadDocument(k, i, kind, asked) PROVE TokensAreTimed'
    <3>1. calls[k].pc = "idle" /\ \E new \in Call : Changes(k, new)
      BY <2>5, ReadEffect
    <3> QED BY <1>1, <1>3, <2>5, <3>1 DEF ReadDocument
  <2>6. ASSUME NEW a \in Accounts, Fire(k, i, a) PROVE TokensAreTimed'
    <3>1. PICK new \in Call :
            /\ Changes(k, new) /\ calls[k].pc = "idle" /\ a \in timers[i]
            /\ new.pc = "refresh" /\ new.kind = "timer" /\ new.asked = a
            /\ new.ref = NoRef /\ new.cur = NoRef /\ new.hand = NoToken /\ new.chosen = {}
      BY <2>6, FireEffect
    <3>2. /\ calls'[k].kind = "timer" /\ calls'[k].asked = a
          /\ \A l \in Calls : calls[l].kind = "timer" =>
               calls'[l].kind = "timer" /\ calls'[l].asked = calls[l].asked
      BY <1>3, <3>1, ChangedCall
    <3>3. /\ doc' = doc /\ unattended' = unattended /\ booting' = booting
          /\ \A j \in Instances : timers[j] \subseteq timers'[j] \cup {a}
      BY <2>6 DEF Fire, history, TypeOK
    <3> SUFFICES ASSUME NEW b \in Schedulable(doc) \ unattended
                 PROVE  \/ booting # {}
                        \/ b \in Timed'
                        \/ \E l \in Calls : calls'[l].kind = "timer" /\ calls'[l].asked = b
      BY <3>3 DEF TokensAreTimed, Schedulable
    <3>4. b \in Timed => b \in Timed' \/ b = a
      BY <3>3 DEF Timed
    <3> QED BY <3>2, <3>3, <3>4 DEF TokensAreTimed
  <2> QED BY <1>4, <2>1, <2>2, <2>3, <2>4, <2>5, <2>6 DEF Begin, Setting
<1>5. ASSUME NEW k \in Calls, Save(k) PROVE TokensAreTimed'
  <2> DEFINE c == calls[k]
  <2>1. PICK b : b = c.cur.acct
    OBVIOUS
  <2>2. /\ c.pc = "save" /\ c.kind \notin Setting /\ doc' = Written(c)
        /\ unattended' = unattended \ {b} /\ booting' = booting
        /\ timers' = [timers EXCEPT ![c.at] = IF c.hand \in Untimed THEN @ \ {b} ELSE @ \cup {b}]
        /\ IF c.kind \in Refreshing THEN Settle(k, TRUE) ELSE Changes(k, Idle)
    BY <1>5, <2>1 DEF Save, Scheduled, Setting, Changes
  <2>3. c.at \in Instances /\ b # None
    BY <2>1, <2>2 DEF Placed, Shaped, ShapedCall
  <2>4. /\ doc'.accounts = doc.accounts
        /\ \A a \in Accounts : a # b => doc'.token[a] = doc.token[a]
    BY <2>1, <2>2, <2>3, WrittenType
  <2>5. /\ c.hand \notin Untimed => b \in Timed'
        /\ \A a \in Timed : a # b => a \in Timed'
    <3>1. /\ c.hand \notin Untimed => b \in timers'[c.at]
          /\ \A i \in Instances : \A a \in timers[i] : a # b => a \in timers'[i]
      BY <2>2, <2>3 DEF TypeOK
    <3> QED BY <2>3, <3>1 DEF Timed
  <2>6. ASSUME NEW l \in Calls, calls[l].kind = "timer", calls[l].asked # b
        PROVE  \/ calls'[l].kind = "timer" /\ calls'[l].asked = calls[l].asked
               \/ calls[l].asked \in gone
    <3>1. CASE c.kind \in Refreshing /\ l \in Waiters(k) \cup {k}
      <4>1. LockKey(c) = calls[l].asked
        BY <2>6, <3>1 DEF Waiters, LockKey
      <4>2. InRefresh(c) /\ NamedCall(c)
        BY <2>2, <3>1 DEF InRefresh, Named
      <4> QED BY <2>1, <2>6, <4>1, <4>2 DEF NamedCall
    <3>2. CASE c.kind \in Refreshing /\ l \notin Waiters(k) \cup {k}
      BY <2>2, <2>6, <3>2 DEF Settle
    <3>3. CASE c.kind \notin Refreshing
      <4>1. l # k
        BY <2>6, <3>3 DEF Refreshing
      <4> QED BY <2>2, <2>6, <3>3, <4>1, IdleCall, ChangedCall DEF Ended
    <3> QED BY <3>1, <3>2, <3>3
  <2> SUFFICES ASSUME NEW a \in Schedulable(doc') \ unattended', a # b
               PROVE  \/ booting' # {}
                      \/ a \in Timed'
                      \/ \E l \in Calls : calls'[l].kind = "timer" /\ calls'[l].asked = a
    <3>1. b \in Schedulable(doc') => c.hand \notin Untimed
      BY <2>1, <2>2 DEF Schedulable, Written, TypeOK, Document
    <3> QED BY <2>5, <3>1 DEF TokensAreTimed, Schedulable
  <2>7. a \in Schedulable(doc) \ unattended /\ a \notin gone
    BY <2>2, <2>4, Found DEF Schedulable, Renewable, Inv, DeletedStaysDeleted
  <2> HIDE DEF c
  <2> QED BY <2>2, <2>5, <2>6, <2>7 DEF TokensAreTimed
<1>6. ASSUME NEW k \in Calls, SaveFails(k) PROVE TokensAreTimed'
  <2>1. PICK b : b = calls[k].cur.acct
    OBVIOUS
  <2>2. /\ calls[k].pc = "save" /\ calls[k].kind \notin Setting
        /\ doc' \in {doc, Written(calls[k])} /\ Settle(k, FALSE)
        /\ unattended' = TimedOut(k) \cup {b} /\ timers' = timers /\ booting' = booting
    BY <1>6, <2>1 DEF SaveFails, Setting
  <2>3. b # None
    BY <2>1, <2>2 DEF Shaped, ShapedCall
  <2>4. /\ doc'.accounts = doc.accounts
        /\ \A a \in Accounts : a # b => doc'.token[a] = doc.token[a]
    BY <2>1, <2>2, <2>3, WrittenType
  <2>5. Schedulable(doc') \subseteq Schedulable(doc) \cup unattended'
    BY <2>2, <2>4, Found DEF Schedulable, Renewable
  <2> QED BY <2>2, <2>5, SettleTimers, KeepsTimers
<1>7. ASSUME NEW k \in Calls, NEW d, NEW versioned \in BOOLEAN, Meanwhile(k, d, versioned),
             calls[k].kind # "timer", unattended \subseteq unattended',
             Schedulable(doc') \subseteq Schedulable(doc) \cup unattended', timers' = timers, booting' = booting
      PROVE  TokensAreTimed'
  <2>1. \A l \in Calls : calls[l].kind = "timer" =>
          calls'[l].kind = "timer" /\ calls'[l].asked = calls[l].asked
    <3>1. \A l \in Calls \ {k} : Same(calls[l], calls'[l])
      BY <1>7, MeanwhileSame
    <3> QED BY <1>7, <3>1 DEF Same
  <2> QED BY <1>7, <2>1, KeepsTimers
<1>8. ASSUME NEW k \in Calls, Changes(k, Idle), calls[k].kind # "timer",
             doc' = doc, unattended' = unattended, timers' = timers, booting' = booting
      PROVE  TokensAreTimed'
  BY <1>1, <1>8, IdleCall DEF Ended
<1>9. ASSUME NEW k \in Calls, SaveArray(k) PROVE TokensAreTimed'
  <2>1. calls[k].kind \in Admin /\ calls[k].kind # "timer"
    BY <1>9 DEF SaveArray, Admin
  <2>2. CASE ~Savable(calls[k])
    BY <1>8, <1>9, <2>1, <2>2 DEF SaveArray, Changes
  <2>3. CASE Savable(calls[k])
    <3> DEFINE c == calls[k]
    <3>1. c.copy.accounts = doc.accounts /\ (c.kind = "register" => c.asked \notin Known)
      BY <2>1, <2>3 DEF Inv, Copied, CopiedCall, Savable
    <3>2. /\ c.kind = "register" => doc'.accounts = c.copy.accounts \cup {c.asked}
          /\ c.kind # "register" => doc'.accounts = c.copy.accounts \ {c.asked}
          /\ c.asked \in Accounts
      BY <1>9, <2>1, <2>3, ArrayType DEF SaveArray
    <3>3. \A a \in Accounts \ doc.accounts : a \in doc'.accounts => doc.token[a] = NoToken
      BY <3>1, <3>2 DEF Named, Known
    <3>4. /\ Meanwhile(k, doc', TRUE) /\ unattended' = unattended \cup Rewritten
          /\ timers' = timers /\ booting' = booting /\ doc'.accounts \subseteq Accounts
      BY <1>9, <2>1, <2>3, ArrayType DEF SaveArray, Document
    <3>5. Schedulable(doc') \subseteq Schedulable(doc) \cup unattended'
      <4> SUFFICES ASSUME NEW a \in Schedulable(doc'), a \notin Rewritten
                   PROVE  a \in Schedulable(doc)
        BY <3>4
      <4>1. /\ a \in Accounts /\ a \in doc'.accounts /\ doc'.token[a] = doc.token[a]
            /\ Renewable(doc.token[a]) /\ doc.token[a] \notin Untimed
        BY <3>4 DEF Schedulable, Rewritten
      <4>2. a \in doc.accounts
        BY <3>3, <4>1 DEF Renewable
      <4> QED BY <4>1, <4>2 DEF Schedulable
    <3> HIDE DEF c
    <3> QED BY <1>7, <2>1, <3>4, <3>5
  <2> QED BY <2>2, <2>3
<1>10. ASSUME NEW k \in Calls, SaveActive(k) PROVE TokensAreTimed'
  <2>1. /\ Meanwhile(k, doc', FALSE) /\ unattended' = unattended /\ timers' = timers
        /\ booting' = booting /\ calls[k].kind # "timer"
        /\ Schedulable(doc') \subseteq Schedulable(doc)
    BY <1>10 DEF SaveActive, history, Schedulable, Renewable, TypeOK, Document
  <2> QED BY <1>7, <2>1
<1>11. ASSUME NEW k \in Calls, Step(k) PROVE TokensAreTimed'
  <2>1. CASE Resolve(k)
    <3>1. calls[k].kind # "timer" /\ UNCHANGED <<doc, unattended, timers, booting>>
      BY <2>1 DEF Resolve, history, Shaped, ShapedCall
    <3> QED BY <1>1, <2>1, <3>1, ResolveEffect
  <2>2. CASE Reread(k)
    <3>1. calls[k].kind # "timer" /\ UNCHANGED <<doc, unattended, timers, booting>>
      BY <2>2 DEF Reread, history, Shaped, ShapedCall
    <3> QED BY <1>1, <2>2, <3>1, RereadEffect
  <2>3. CASE Acquire(k)
    <3>1. UNCHANGED <<doc, timers, booting>>
      BY <2>3 DEF Acquire
    <3>2. CASE Settles(Waiters(k) \cup {k}, FALSE) /\ unattended' = TimedOut(k)
      BY <1>2, <3>1, <3>2 DEF Settles, Settle
    <3>3. ASSUME NEW new \in Call, Changes(k, new), unattended' = unattended,
                 new.kind = calls[k].kind, new.asked = calls[k].asked
          PROVE  TokensAreTimed'
      BY <1>1, <3>1, <3>3
    <3>4. \/ Settles(Waiters(k) \cup {k}, FALSE) /\ unattended' = TimedOut(k)
          \/ \E new \in Call : /\ Changes(k, new) /\ unattended' = unattended
                             /\ new.kind = calls[k].kind /\ new.asked = calls[k].asked
      BY <2>3, AcquireEffect
    <3> QED BY <3>2, <3>3, <3>4
  <2>4. CASE Join(k)
    BY <1>1, <2>4, JoinEffect DEF Join, history
  <2>5. CASE Exchange(k)
    <3>1. calls[k].cur.acct # None
      BY <2>5 DEF Exchange, Shaped, ShapedCall, Refreshing, Setting, Admin
    <3>2. UNCHANGED <<doc, unattended, timers, booting>>
      BY <2>5 DEF Exchange, history
    <3>3. \E new \in Call : Changes(k, new) /\ new.kind = calls[k].kind /\ new.asked = calls[k].asked
      BY <2>5, <3>1, ExchangeEffect
    <3> QED BY <1>1, <3>2, <3>3
  <2>6. CASE RefreshFails(k) \/ ReplyLost(k)
    BY <1>2, <2>6 DEF RefreshFails, ReplyLost
  <2>7. CASE Authenticate(k)
    <3>1. calls[k].cur.acct # None
      BY <2>7 DEF Authenticate, Shaped, ShapedCall, Refreshing, Setting, Admin
    <3> QED BY <1>1, <2>7, <3>1, AuthenticateEffect DEF Authenticate
  <2>8. CASE Redirect(k)
    <3>1. calls[k].kind # "timer"
      BY <2>8 DEF Redirect, Shaped, ShapedCall
    <3> QED BY <1>1, <2>8, <3>1, RedirectEffect DEF Redirect
  <2>9. CASE CallFails(k)
    BY <1>8, <2>9 DEF CallFails, Changes, history
  <2> QED BY <1>5, <1>6, <1>9, <1>10, <1>11, <2>1, <2>2, <2>3, <2>4, <2>5, <2>6, <2>7, <2>8, <2>9
          DEF Step, Refresh
<1>12. ASSUME NEW i \in Instances, Crash(i) PROVE TokensAreTimed'
  BY <1>12 DEF Crash, TokensAreTimed
<1>13. ASSUME NEW i \in Instances, Boot(i) PROVE TokensAreTimed'
  <2>1. CASE timers' = [timers EXCEPT ![i] = Schedulable(doc)]
    <3>1. doc' = doc /\ Schedulable(doc) \subseteq timers'[i]
      BY <1>13, <2>1 DEF Boot, TypeOK
    <3>2. Schedulable(doc) \subseteq Timed'
      BY <3>1 DEF Timed
    <3> QED BY <3>1, <3>2 DEF TokensAreTimed, Schedulable
  <2>2. CASE unattended' = unattended \cup (Schedulable(doc) \ Timed) /\ timers' = timers
    <3>1. doc' = doc /\ Timed' = Timed
      BY <1>13, <2>2 DEF Boot, Timed
    <3> SUFFICES ASSUME NEW a \in Schedulable(doc) \ unattended' PROVE a \in Timed'
      BY <3>1 DEF TokensAreTimed, Schedulable
    <3> QED BY <2>2, <3>1
  <2> QED BY <1>13, <2>1, <2>2 DEF Boot
<1>14. CASE UNCHANGED vars
  BY <1>14 DEF vars, history, TokensAreTimed, Schedulable, Timed
<1> QED BY <1>4, <1>11, <1>12, <1>13, <1>14 DEF Next

(* Every token that has an expiresAt and a refreshToken has a timer in     *)
(* some process, or the refresh its timer began is under way, unless its   *)
(* account is unattended: that refresh or a save failed, an old array put  *)
(* the token back, or a process started and set no timers.                 *)
THEOREM TimersKept == Spec => []TokensAreTimed
<1>1. Init => Placed /\ TokensAreTimed
  <2> SUFFICES ASSUME Init PROVE Placed /\ TokensAreTimed
    OBVIOUS
  <2>1. Placed
    BY IdleCall DEF Init, Placed, Ended
  <2>2. \A i \in Instances : timers[i] = Schedulable(doc)
    BY DEF Init
  <2>3. Schedulable(doc) \subseteq Timed
    BY <2>2, InstancesAssumption DEF Timed
  <2> QED BY <2>1, <2>3 DEF TokensAreTimed
<1> QED BY <1>1, InitInv, NextInv, PlacedNext, TimedNext, PTL DEF Spec
=============================================================================
