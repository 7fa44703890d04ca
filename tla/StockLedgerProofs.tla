------------------------- MODULE StockLedgerProofs -------------------------
(***************************************************************************)
(* For every set of handlers, lots, requests and references: a reference   *)
(* is posted once per lot, answers are true, and the ledger implements     *)
(* LedgerPort for the references whose first item stays in one store.      *)
(*                                                                         *)
(* Why a second transaction for a reference cannot commit on the same lot: *)
(* whoever has not read the reference has the lot of every movement that   *)
(* carries it in `clash`, and cannot write it.                             *)
(***************************************************************************)
EXTENDS StockLedger, SequenceTheorems, TLAPS

IsSeq(s) == \E S : s \in Seq(S)
OncePer(s) == \A i, j \in DOMAIN s : s[i].ref # NoRef /\ s[i].ref = s[j].ref => i = j
OncePerLot(s) ==
    \A i, j \in DOMAIN s :
        s[i].ref # NoRef /\ s[i].ref = s[j].ref /\ s[i].leg.lot = s[j].leg.lot => i = j

\* The references of movements, with the lots they are on.
Posted(s) == {<<s[i].ref, s[i].leg.lot>> : i \in {j \in DOMAIN s : s[j].ref # NoRef}}
RefsIn(posted) == {p[1] : p \in posted}

\* The lot that will carry the reference is one where a request for it starts.
Rooted(moves) == moves[1].ref # NoRef => FirstLot(moves) \in Starts(moves[1].ref)
AllRooted(posted) == \A p \in posted : p[2] \in Starts(p[1])

\* The reference of the request a handler serves.
RefOf(rec) == rec.moves[1].ref

Working == {"open", "check", "write", "commit"}

\* Where a handler stands in its moves and its transaction.
Placed(rec) ==
    /\ OneReference(rec.moves) /\ Rooted(rec.moves) /\ IsSeq(rec.moves) /\ rec.at \in DOMAIN rec.moves
    /\ \A i \in DOMAIN rec.moves : IsSeq(rec.moves[i].legs)
    /\ rec.leg \in DOMAIN rec.moves[rec.at].legs
Formed(rec) ==
    /\ DOMAIN rec = DOMAIN Idle
    /\ IsSeq(rec.buf)
    /\ ~rec.open => rec.buf = <<>>
    /\ rec.pc \notin {"check", "write", "commit"} => ~rec.open
    /\ rec.pc = "check" /\ ~rec.shared => ~rec.open
    /\ rec.pc = "check" /\ rec.shared => rec.open
    /\ rec.pc = "open" => rec.at = 1 /\ rec.leg = 1 /\ rec.shared
    /\ rec.pc = "read" => rec.at = 1 /\ rec.leg = 1 /\ ~rec.shared
    /\ rec.pc \in Working => Placed(rec)

\* What an open transaction has seen and written, when `posted` is in the ledger.
Isolated(rec, posted) ==
    /\ rec.open => /\ rec.view \subseteq RefsIn(posted)
                    /\ \A p \in posted : p[1] \notin rec.view => p[2] \in rec.clash
    /\ \A r \in RefsOf(rec.buf) : r \notin rec.view /\ r = RefOf(rec)
    /\ AllRooted(Posted(rec.buf))
    /\ OncePer(rec.buf)
    /\ LotsOf(rec.buf) \cap rec.clash = {}

\* A reference is unread when its movement is written, and posted afterwards.
Checked(rec, posted) ==
    rec.pc \in Working /\ RefOf(rec) # NoRef =>
      /\ rec.pc = "write" => /\ rec.at = 1 /\ rec.open
                             /\ RefOf(rec) \notin rec.view \cup RefsOf(rec.buf)
      /\ rec.pc = "commit" => \/ RefOf(rec) \in RefsOf(rec.buf)
                              \/ rec.shared /\ rec.open /\ RefOf(rec) \in rec.view
      /\ rec.at # 1 => IF rec.shared THEN RefOf(rec) \in rec.view \cup RefsOf(rec.buf)
                       ELSE rec.pc = "check" /\ RefOf(rec) \in RefsIn(posted)

Sound(rec, posted) == Formed(rec) /\ Isolated(rec, posted) /\ Checked(rec, posted)

Inv ==
    /\ IsSeq(movements) /\ OncePerLot(movements) /\ AllRooted(Posted(movements))
    /\ answered \subseteq RefsOf(movements)
    /\ DOMAIN hs = Handlers
    /\ \A h \in Handlers : Sound(hs[h], Posted(movements))
    /\ \A g, h \in Handlers : g # h => LotsOf(hs[g].buf) \cap LotsOf(hs[h].buf) = {}

-----------------------------------------------------------------------------
(* Sequences of movements, whatever they carry.                            *)
LEMMA SeqDomain ==
  ASSUME NEW s, IsSeq(s)
  PROVE  Len(s) \in Nat /\ DOMAIN s = 1 .. Len(s)
  BY DEF IsSeq

(* The references of movements are those of the pairs.                     *)
LEMMA PostedRefs ==
  ASSUME NEW s
  PROVE  /\ RefsIn(Posted(s)) = RefsOf(s)
         /\ \A p \in Posted(s) : p[1] \in RefsOf(s) /\ p[2] \in LotsOf(s)
<1>1. \A i \in DOMAIN s : s[i].ref # NoRef =>
        /\ <<s[i].ref, s[i].leg.lot>> \in Posted(s)
        /\ <<s[i].ref, s[i].leg.lot>>[1] = s[i].ref
  BY DEF Posted
<1>2. \A p \in Posted(s) : \E i \in DOMAIN s :
        s[i].ref # NoRef /\ p[1] = s[i].ref /\ p[2] = s[i].leg.lot
  BY DEF Posted
<1>3. RefsOf(s) \subseteq RefsIn(Posted(s))
  BY <1>1, Zenon DEF RefsOf, RefsIn
<1>4. \A p \in Posted(s) : p[1] \in RefsOf(s) /\ p[2] \in LotsOf(s)
  BY <1>2 DEF RefsOf, LotsOf
<1> QED BY <1>3, <1>4 DEF RefsIn

LEMMA NoMovements ==
  ASSUME NEW s, s = <<>>
  PROVE  /\ IsSeq(s) /\ RefsOf(s) = {} /\ LotsOf(s) = {} /\ OncePer(s)
         /\ Posted(s) = {} /\ AllRooted(Posted(s))
<1>1. s \in Seq({})
  OBVIOUS
<1>2. IsSeq(s)
  BY <1>1 DEF IsSeq
<1>3. RefsOf(s) = {} /\ LotsOf(s) = {}
  BY DEF RefsOf, LotsOf
<1>4. OncePer(s)
  BY DEF OncePer
<1>5. Posted(s) = {}
  BY DEF Posted
<1> QED BY <1>2, <1>3, <1>4, <1>5 DEF AllRooted

LEMMA AppendSeq ==
  ASSUME NEW s, IsSeq(s), NEW x
  PROVE  /\ IsSeq(Append(s, x))
         /\ DOMAIN Append(s, x) = 1 .. Len(s) + 1
         /\ \A i \in 1 .. Len(s) : Append(s, x)[i] = s[i]
         /\ Append(s, x)[Len(s) + 1] = x
         /\ RefsOf(Append(s, x)) = RefsOf(s) \cup ({x.ref} \ {NoRef})
         /\ LotsOf(Append(s, x)) = LotsOf(s) \cup {x.leg.lot}
         /\ Posted(Append(s, x)) =
              Posted(s) \cup (IF x.ref = NoRef THEN {} ELSE {<<x.ref, x.leg.lot>>})
<1>1. PICK S : s \in Seq(S)
  BY DEF IsSeq
<1>2. s \in Seq(S \cup {x})
  BY <1>1
<1>3. PICK a : a = Append(s, x)
  OBVIOUS
<1>4. /\ a \in Seq(S \cup {x}) /\ Len(a) = Len(s) + 1 /\ Len(s) \in Nat
      /\ \A i \in 1 .. Len(s) : a[i] = s[i]
      /\ a[Len(s) + 1] = x
  BY <1>2, <1>3, AppendProperties
<1>5. DOMAIN a = 1 .. Len(s) + 1 /\ DOMAIN s = 1 .. Len(s)
  BY <1>4, <1>1
<1>6. RefsOf(a) = RefsOf(s) \cup ({x.ref} \ {NoRef})
  BY <1>4, <1>5 DEF RefsOf
<1>7. LotsOf(a) = LotsOf(s) \cup {x.leg.lot}
  BY <1>4, <1>5 DEF LotsOf
<1>8. Posted(a) = Posted(s) \cup (IF x.ref = NoRef THEN {} ELSE {<<x.ref, x.leg.lot>>})
  <2>1. Posted(s) \subseteq Posted(a)
    BY <1>4, <1>5 DEF Posted
  <2>2. x.ref # NoRef => <<x.ref, x.leg.lot>> \in Posted(a)
    BY <1>4, <1>5 DEF Posted
  <2>3. Posted(a) \subseteq Posted(s) \cup (IF x.ref = NoRef THEN {} ELSE {<<x.ref, x.leg.lot>>})
    BY <1>4, <1>5 DEF Posted
  <2> QED BY <2>1, <2>2, <2>3
<1> QED BY <1>3, <1>4, <1>5, <1>6, <1>7, <1>8 DEF IsSeq

LEMMA ConcatSeq ==
  ASSUME NEW s, NEW t, IsSeq(s), IsSeq(t)
  PROVE  /\ IsSeq(s \o t)
         /\ DOMAIN (s \o t) = 1 .. Len(s) + Len(t)
         /\ \A i \in 1 .. Len(s) + Len(t) :
              (s \o t)[i] = IF i <= Len(s) THEN s[i] ELSE t[i - Len(s)]
         /\ RefsOf(s \o t) = RefsOf(s) \cup RefsOf(t)
         /\ Posted(s \o t) = Posted(s) \cup Posted(t)
<1>1. PICK S : s \in Seq(S)
  BY DEF IsSeq
<1>2. PICK T : t \in Seq(T)
  BY DEF IsSeq
<1>3. s \in Seq(S \cup T) /\ t \in Seq(S \cup T)
  BY <1>1, <1>2
<1>4. PICK a : a = s \o t
  OBVIOUS
<1>5. /\ a \in Seq(S \cup T) /\ Len(a) = Len(s) + Len(t)
      /\ \A i \in 1 .. Len(s) + Len(t) : a[i] = IF i <= Len(s) THEN s[i] ELSE t[i - Len(s)]
  BY <1>3, <1>4, ConcatProperties
<1>6. /\ DOMAIN a = 1 .. Len(s) + Len(t) /\ Len(s) \in Nat /\ Len(t) \in Nat
      /\ DOMAIN s = 1 .. Len(s) /\ DOMAIN t = 1 .. Len(t)
  BY <1>5, <1>1, <1>2
<1>7. RefsOf(a) \subseteq RefsOf(s) \cup RefsOf(t)
  <2>1. \A i \in DOMAIN a : \/ i \in DOMAIN s /\ a[i] = s[i]
                            \/ i - Len(s) \in DOMAIN t /\ a[i] = t[i - Len(s)]
    BY <1>5, <1>6
  <2> QED BY <2>1 DEF RefsOf
<1>8. RefsOf(s) \subseteq RefsOf(a)
  <2>1. \A i \in DOMAIN s : i \in DOMAIN a /\ a[i] = s[i]
    BY <1>5, <1>6
  <2> QED BY <2>1 DEF RefsOf
<1>9. RefsOf(t) \subseteq RefsOf(a)
  <2>1. \A i \in DOMAIN t : Len(s) + i \in DOMAIN a /\ a[Len(s) + i] = t[i]
    BY <1>5, <1>6
  <2> QED BY <2>1 DEF RefsOf
<1>10. Posted(a) = Posted(s) \cup Posted(t)
  <2>1. \A i \in DOMAIN a : \/ i \in DOMAIN s /\ a[i] = s[i]
                            \/ i - Len(s) \in DOMAIN t /\ a[i] = t[i - Len(s)]
    BY <1>5, <1>6
  <2>2. \A i \in DOMAIN s : i \in DOMAIN a /\ a[i] = s[i]
    BY <1>5, <1>6
  <2>3. \A i \in DOMAIN t : Len(s) + i \in DOMAIN a /\ a[Len(s) + i] = t[i]
    BY <1>5, <1>6
  <2>4. Posted(a) \subseteq Posted(s) \cup Posted(t)
    BY <2>1 DEF Posted
  <2>5. Posted(s) \subseteq Posted(a)
    BY <2>2 DEF Posted
  <2>6. Posted(t) \subseteq Posted(a)
    BY <2>3 DEF Posted
  <2> QED BY <2>4, <2>5, <2>6
<1> QED BY <1>4, <1>5, <1>6, <1>7, <1>8, <1>9, <1>10 DEF IsSeq

(* Movements whose references the ledger lacks on their lots keep every    *)
(* reference once per lot.                                                 *)
LEMMA ConcatOnce ==
  ASSUME NEW s, NEW t, IsSeq(s), IsSeq(t), OncePerLot(s), OncePerLot(t),
         Posted(s) \cap Posted(t) = {}
  PROVE  OncePerLot(s \o t)
<1> DEFINE a == s \o t
<1>1. /\ Len(s) \in Nat /\ Len(t) \in Nat
      /\ DOMAIN s = 1 .. Len(s) /\ DOMAIN t = 1 .. Len(t)
      /\ DOMAIN a = 1 .. Len(s) + Len(t)
      /\ \A i \in DOMAIN a : a[i] = IF i <= Len(s) THEN s[i] ELSE t[i - Len(s)]
  BY SeqDomain, ConcatSeq
<1> HIDE DEF a
<1>2. \A i \in DOMAIN s, j \in DOMAIN t :
        s[i].ref # NoRef => s[i].ref # t[j].ref \/ s[i].leg.lot # t[j].leg.lot
  <2> SUFFICES ASSUME NEW i \in DOMAIN s, NEW j \in DOMAIN t, s[i].ref # NoRef,
                      s[i].ref = t[j].ref, s[i].leg.lot = t[j].leg.lot
               PROVE  FALSE
    OBVIOUS
  <2>1. <<s[i].ref, s[i].leg.lot>> \in Posted(s)
    BY DEF Posted
  <2>2. <<t[j].ref, t[j].leg.lot>> \in Posted(t)
    BY DEF Posted
  <2> QED BY <2>1, <2>2
<1>3. \A i \in DOMAIN a : \/ i \in DOMAIN s /\ a[i] = s[i]
                          \/ i - Len(s) \in DOMAIN t /\ a[i] = t[i - Len(s)]
  BY <1>1
<1>4. ASSUME NEW i \in DOMAIN a, NEW j \in DOMAIN a, a[i].ref # NoRef, a[i].ref = a[j].ref,
             a[i].leg.lot = a[j].leg.lot
      PROVE  i = j
  <2>1. CASE i \in DOMAIN s /\ a[i] = s[i] /\ j \in DOMAIN s /\ a[j] = s[j]
    BY <1>4, <2>1 DEF OncePerLot
  <2>2. CASE i \in DOMAIN s /\ a[i] = s[i] /\ j - Len(s) \in DOMAIN t /\ a[j] = t[j - Len(s)]
    BY <1>2, <1>4, <2>2
  <2>3. CASE i - Len(s) \in DOMAIN t /\ a[i] = t[i - Len(s)] /\ j \in DOMAIN s /\ a[j] = s[j]
    BY <1>2, <1>4, <2>3
  <2>4. CASE /\ i - Len(s) \in DOMAIN t /\ a[i] = t[i - Len(s)]
             /\ j - Len(s) \in DOMAIN t /\ a[j] = t[j - Len(s)]
    <3>1. i - Len(s) = j - Len(s)
      BY <1>4, <2>4 DEF OncePerLot
    <3> QED BY <1>1, <3>1
  <2> QED BY <1>3, <2>1, <2>2, <2>3, <2>4
<1> QED BY <1>4 DEF OncePerLot, a

-----------------------------------------------------------------------------
LEMMA IdleBuf == Idle.buf = <<>>
  BY DEF Idle

(* An idle handler is sound.                                               *)
LEMMA IdleSound ==
  ASSUME NEW posted
  PROVE  Sound(Idle, posted)
<1>1. Idle.pc = "idle" /\ Idle.open = FALSE /\ Idle.buf = <<>> /\ Idle.clash = {}
  BY DEF Idle
<1>2. PICK r : r = Idle
  OBVIOUS
<1>3. IsSeq(r.buf) /\ RefsOf(r.buf) = {} /\ LotsOf(r.buf) = {} /\ OncePer(r.buf)
      /\ AllRooted(Posted(r.buf))
  BY <1>1, <1>2, NoMovements
<1>4. Formed(r)
  BY <1>1, <1>2, <1>3 DEF Formed, Working
<1>5. Isolated(r, posted)
  BY <1>1, <1>2, <1>3 DEF Isolated
<1>6. Checked(r, posted)
  BY <1>1, <1>2 DEF Checked, Working
<1> QED BY <1>2, <1>4, <1>5, <1>6 DEF Sound

(* Every move has a first leg.                                             *)
LEMMA FirstLeg ==
  ASSUME NEW rec, Placed(rec), NEW k \in DOMAIN rec.moves
  PROVE  1 \in DOMAIN rec.moves[k].legs /\ 1 \in DOMAIN rec.moves
<1>1. IsSeq(rec.moves[k].legs) /\ rec.moves[k].legs # <<>>
  BY DEF Placed, OneReference
<1>2. PICK S : rec.moves[k].legs \in Seq(S)
  BY <1>1 DEF IsSeq
<1>3. 1 \in DOMAIN rec.moves[k].legs
  BY <1>1, <1>2
<1>4. PICK M : rec.moves \in Seq(M)
  BY DEF Placed, IsSeq
<1>5. 1 \in DOMAIN rec.moves
  BY <1>4
<1> QED BY <1>3, <1>5

(* A request that starts over, with nothing written, is sound.             *)
LEMMA RestartSound ==
  ASSUME NEW rec, NEW posted, DOMAIN rec = DOMAIN Idle, Placed(rec),
         NEW k \in DOMAIN rec.moves, NEW n, NEW pc,
         \/ pc = "check" /\ ~rec.shared /\ (k = 1 \/ RefOf(rec) = NoRef \/ RefOf(rec) \in RefsIn(posted))
         \/ pc = "open" /\ rec.shared /\ k = 1
  PROVE  Sound(Restart(rec, n, k, pc), posted)
<1>1. PICK r : r = Restart(rec, n, k, pc)
  OBVIOUS
<1>2. /\ DOMAIN r = DOMAIN Idle
      /\ r.pc = pc /\ r.at = k /\ r.leg = 1
      /\ r.shared = rec.shared /\ r.moves = rec.moves
      /\ r.open = FALSE /\ r.buf = <<>> /\ r.clash = {}
  BY <1>1 DEF Restart, Idle
<1>3. IsSeq(r.buf) /\ RefsOf(r.buf) = {} /\ LotsOf(r.buf) = {} /\ OncePer(r.buf)
      /\ AllRooted(Posted(r.buf))
  BY <1>2, NoMovements
<1>4. Placed(r)
  BY <1>2, FirstLeg DEF Placed
<1>5. Formed(r)
  BY <1>2, <1>3, <1>4 DEF Formed
<1>6. Isolated(r, posted)
  BY <1>2, <1>3 DEF Isolated
<1>7. Checked(r, posted)
  BY <1>2 DEF Checked, RefOf
<1> QED BY <1>1, <1>5, <1>6, <1>7 DEF Sound

(* A move is left behind only when the ledger or its transaction has its   *)
(* reference.                                                              *)
LEMMA NextMoveSound ==
  ASSUME NEW rec, NEW posted, DOMAIN rec = DOMAIN Idle, Placed(rec), IsSeq(rec.buf),
         Isolated(rec, posted), rec.shared => rec.open,
         \/ RefOf(rec) = NoRef
         \/ rec.shared /\ RefOf(rec) \in rec.view \cup RefsOf(rec.buf)
         \/ ~rec.shared /\ RefOf(rec) \in RefsIn(posted)
  PROVE  Sound(NextMove(rec), posted)
<1>1. rec.at \in 1 .. Len(rec.moves) /\ Len(rec.moves) \in Nat
      /\ DOMAIN rec.moves = 1 .. Len(rec.moves)
  BY SeqDomain DEF Placed
<1>2. ASSUME rec.shared, NEW k \in DOMAIN rec.moves, NEW pc \in {"check", "commit"}
      PROVE  Sound(Advance(rec, k, pc), posted)
  <2>1. PICK r : r = Advance(rec, k, pc)
    OBVIOUS
  <2>2. /\ DOMAIN r = DOMAIN Idle
        /\ r.pc = pc /\ r.at = k /\ r.leg = 1
        /\ r.shared = rec.shared /\ r.moves = rec.moves
        /\ r.open = rec.open /\ r.view = rec.view
        /\ r.buf = rec.buf /\ r.clash = rec.clash
    BY <2>1 DEF Advance, Idle
  <2>3. Placed(r)
    BY <2>2, FirstLeg DEF Placed
  <2>4. Formed(r)
    BY <1>2, <2>2, <2>3 DEF Formed
  <2>5. Isolated(r, posted)
    BY <2>2 DEF Isolated, RefOf
  <2>6. Checked(r, posted)
    BY <1>2, <2>2 DEF Checked, RefOf
  <2> QED BY <2>1, <2>4, <2>5, <2>6 DEF Sound
<1>3. CASE rec.at < Len(rec.moves)
  <2>1. rec.at + 1 \in DOMAIN rec.moves
    BY <1>1, <1>3
  <2>2. CASE rec.shared
    BY <1>2, <1>3, <2>1, <2>2 DEF NextMove
  <2>3. CASE ~rec.shared
    <3>1. NextMove(rec) = Restart(rec, 1, rec.at + 1, "check")
      BY <1>3, <2>3 DEF NextMove
    <3> QED BY <2>1, <2>3, <3>1, RestartSound
  <2> QED BY <2>2, <2>3
<1>4. CASE ~(rec.at < Len(rec.moves))
  <2>1. CASE rec.shared
    <3>1. NextMove(rec) = Advance(rec, rec.at, "commit")
      BY <1>4, <2>1 DEF NextMove
    <3> QED BY <1>1, <1>2, <2>1, <3>1
  <2>2. CASE ~rec.shared
    BY <1>4, <2>2, IdleSound DEF NextMove
  <2> QED BY <2>1, <2>2
<1> QED BY <1>3, <1>4

(* A transaction of its own is over, one shared with the order is kept.    *)
LEMMA NextMoveBuf ==
  ASSUME NEW rec, DOMAIN rec = DOMAIN Idle
  PROVE  /\ rec.shared => NextMove(rec).buf \in {rec.buf, <<>>}
         /\ ~rec.shared => NextMove(rec).buf = <<>>
<1>1. \A k, pc : Advance(rec, k, pc).buf = rec.buf
  BY DEF Advance, Idle
<1>2. \A n, k, pc : Restart(rec, n, k, pc).buf = <<>>
  BY DEF Restart, Idle
<1> QED BY <1>1, <1>2, IdleBuf DEF NextMove

(* A transaction that conflicts leaves nothing.                            *)
LEMMA AbortSound ==
  ASSUME NEW rec, NEW posted, Sound(rec, posted), rec.pc = "write"
  PROVE  Sound(Abort(rec), posted)
<1>1. DOMAIN rec = DOMAIN Idle /\ Placed(rec)
  BY DEF Sound, Formed, Working
<1>2. rec.at \in DOMAIN rec.moves /\ 1 \in DOMAIN rec.moves
  BY <1>1, FirstLeg DEF Placed
<1>3. RefOf(rec) # NoRef => rec.at = 1
  BY DEF Sound, Checked, Working
<1>4. CASE rec.try = MaxTries
  BY <1>4, IdleSound DEF Abort
<1>5. CASE rec.try # MaxTries /\ rec.shared
  BY <1>1, <1>2, <1>5, RestartSound DEF Abort
<1>6. CASE rec.try # MaxTries /\ ~rec.shared
  BY <1>1, <1>2, <1>3, <1>6, RestartSound DEF Abort
<1> QED BY <1>4, <1>5, <1>6

(* Writes of others: they invalidate the snapshot for the lots they touch. *)
LEMMA TouchSound ==
  ASSUME NEW rec, NEW posted, Sound(rec, posted), NEW more, posted \subseteq more,
         NEW lots, lots \cap LotsOf(rec.buf) = {},
         \A p \in more \ posted : p[2] \in lots
  PROVE  Sound(IF ~rec.open THEN rec ELSE [rec EXCEPT !.clash = @ \cup lots], more)
<1>1. CASE ~rec.open
  <2>1. Isolated(rec, more)
    BY <1>1 DEF Sound, Isolated
  <2>2. Checked(rec, more)
    BY DEF Sound, Checked, RefsIn
  <2> QED BY <1>1, <2>1, <2>2 DEF Sound
<1>2. CASE rec.open
  <2>1. PICK r : r = [rec EXCEPT !.clash = @ \cup lots]
    OBVIOUS
  <2>2. DOMAIN rec = DOMAIN Idle
    BY DEF Sound, Formed
  <2>3. /\ DOMAIN r = DOMAIN Idle
        /\ r.pc = rec.pc /\ r.at = rec.at /\ r.leg = rec.leg
        /\ r.shared = rec.shared /\ r.moves = rec.moves
        /\ r.open = rec.open /\ r.view = rec.view
        /\ r.buf = rec.buf /\ r.clash = rec.clash \cup lots
    BY <2>1, <2>2 DEF Idle
  <2>4. Formed(r)
    BY <2>3 DEF Sound, Formed, Placed
  <2>5. Isolated(r, more)
    <3>1. \A p \in more : p[1] \notin r.view => p[2] \in r.clash
      BY <1>2, <2>3 DEF Sound, Isolated
    <3>2. r.view \subseteq RefsIn(more)
      BY <1>2, <2>3 DEF Sound, Isolated, RefsIn
    <3> QED BY <2>3, <3>1, <3>2 DEF Sound, Isolated, RefOf
  <2>6. Checked(r, more)
    BY <2>3 DEF Sound, Checked, RefOf, RefsIn
  <2> QED BY <1>2, <2>1, <2>4, <2>5, <2>6 DEF Sound
<1> QED BY <1>1, <1>2

(* A step of h that leaves the ledger and the other handlers alone.        *)
LEMMA Alone ==
  ASSUME Inv, NEW h \in Handlers, NEW rec, hs' = [hs EXCEPT ![h] = rec],
         movements' = movements, answered' \subseteq RefsOf(movements),
         Sound(rec, Posted(movements)),
         \A g \in Handlers \ {h} : LotsOf(rec.buf) \cap LotsOf(hs[g].buf) = {}
  PROVE  Inv'
<1>1. /\ IsSeq(movements') /\ OncePerLot(movements') /\ AllRooted(Posted(movements'))
      /\ Posted(movements') = Posted(movements)
      /\ answered' \subseteq RefsOf(movements')
  BY DEF Inv
<1>2. DOMAIN hs' = Handlers /\ hs'[h] = rec /\ \A g \in Handlers \ {h} : hs'[g] = hs[g]
  BY DEF Inv
<1>3. \A g \in Handlers : Sound(hs'[g], Posted(movements'))
  BY <1>1, <1>2 DEF Inv
<1>4. \A f, g \in Handlers : f # g => LotsOf(hs'[f].buf) \cap LotsOf(hs'[g].buf) = {}
  BY <1>2 DEF Inv
<1> QED BY <1>1, <1>2, <1>3, <1>4 DEF Inv

(* The same when nothing is in its transaction afterwards.                 *)
LEMMA AloneClosed ==
  ASSUME Inv, NEW h \in Handlers, NEW rec, hs' = [hs EXCEPT ![h] = rec],
         movements' = movements, answered' \subseteq RefsOf(movements),
         Sound(rec, Posted(movements)), rec.buf = <<>>
  PROVE  Inv'
  BY Alone, NoMovements

LEMMA ReceiveInv ==
  ASSUME Inv, NEW h \in Handlers, NEW req, NEW pc, NEW moves, NEW shared,
         Receive(h, req, pc, moves, shared),
         \/ pc \in {"read", "count"} /\ ~shared
         \/ /\ (pc = "open" /\ shared) \/ (pc = "check" /\ ~shared)
            /\ OneReference(moves) /\ Rooted(moves) /\ IsSeq(moves)
            /\ \A i \in DOMAIN moves : IsSeq(moves[i].legs)
  PROVE  Inv'
<1>1. PICK r : r = [Idle EXCEPT !.pc = pc, !.req = req, !.moves = moves, !.shared = shared]
  OBVIOUS
<1>2. /\ DOMAIN r = DOMAIN Idle
      /\ r.pc = pc /\ r.at = 1 /\ r.leg = 1
      /\ r.shared = shared /\ r.moves = moves
      /\ r.open = FALSE /\ r.buf = <<>> /\ r.clash = {}
  BY <1>1 DEF Idle
<1>3. IsSeq(r.buf) /\ RefsOf(r.buf) = {} /\ LotsOf(r.buf) = {} /\ OncePer(r.buf)
      /\ AllRooted(Posted(r.buf))
  BY <1>2, NoMovements
<1>4. pc \in {"open", "check"} => Placed(r)
  <2>1. ASSUME pc \in {"open", "check"}
        PROVE  1 \in DOMAIN moves /\ 1 \in DOMAIN moves[1].legs
    <3>1. PICK M : moves \in Seq(M)
      BY <2>1 DEF IsSeq
    <3>2. 1 \in DOMAIN moves
      BY <2>1, <3>1 DEF OneReference
    <3>3. PICK L : moves[1].legs \in Seq(L)
      BY <2>1, <3>2 DEF IsSeq
    <3>4. moves[1].legs # <<>>
      BY <2>1, <3>2 DEF OneReference
    <3> QED BY <3>2, <3>3, <3>4
  <2> QED BY <1>2, <2>1 DEF Placed
<1>5. Formed(r)
  BY <1>2, <1>3, <1>4 DEF Formed, Working
<1>6. Isolated(r, Posted(movements))
  BY <1>2, <1>3 DEF Isolated
<1>7. Checked(r, Posted(movements))
  BY <1>2 DEF Checked, Working
<1>8. Sound(r, Posted(movements))
  BY <1>5, <1>6, <1>7 DEF Sound
<1>9. /\ hs' = [hs EXCEPT ![h] = r] /\ movements' = movements
      /\ answered' \subseteq RefsOf(movements)
  BY <1>1 DEF Receive, Inv
<1> QED BY <1>2, <1>8, <1>9, AloneClosed

(* The moves of a request, whatever stores its items were found in.        *)
LEMMA PostMoves ==
  ASSUME NEW q \in Posts
  PROVE  /\ OneReference(q.moves) /\ Rooted(q.moves) /\ IsSeq(q.moves)
         /\ \A i \in DOMAIN q.moves : IsSeq(q.moves[i].legs)
         /\ 1 \in DOMAIN q.moves /\ 1 \in DOMAIN q.moves[1].legs
<1>1. OneReference(q.moves) /\ q.moves \in Seq(Move)
  BY OneReferenceAssumption, RequestsAssumption
<1>2. IsSeq(q.moves)
  BY <1>1 DEF IsSeq
<1>3. \A i \in DOMAIN q.moves : q.moves[i].legs \in Seq(Leg)
  <2>1. \A i \in DOMAIN q.moves : q.moves[i] \in Move
    BY <1>1
  <2>2. \A m \in Move : m.legs \in Seq(Leg)
    BY DEF Move
  <2> QED BY <2>1, <2>2
<1>4. 1 \in DOMAIN q.moves
  BY <1>1 DEF OneReference
<1>5. 1 \in DOMAIN q.moves[1].legs
  BY <1>1, <1>3, <1>4 DEF OneReference
<1>6. Rooted(q.moves)
  BY DEF Rooted, Starts
<1> QED BY <1>1, <1>2, <1>3, <1>4, <1>5, <1>6 DEF IsSeq

LEMMA ReceivePostInv ==
  ASSUME Inv, NEW h \in Handlers, ReceivePost(h)
  PROVE  Inv'
<1>1. PICK q \in Posts :
        Receive(h, [op |-> "post"], IF q.shared THEN "open" ELSE "check", q.moves, q.shared)
  BY DEF ReceivePost
<1>2. /\ OneReference(q.moves) /\ Rooted(q.moves) /\ IsSeq(q.moves)
      /\ \A i \in DOMAIN q.moves : IsSeq(q.moves[i].legs)
  BY PostMoves
<1>5. CASE q.shared
  <2>1. Receive(h, [op |-> "post"], "open", q.moves, q.shared)
    BY <1>1, <1>5
  <2> QED BY <1>2, <1>5, <2>1, ReceiveInv
<1>6. CASE ~q.shared
  <2>1. Receive(h, [op |-> "post"], "check", q.moves, q.shared)
    BY <1>1, <1>6
  <2> QED BY <1>2, <1>6, <2>1, ReceiveInv
<1> QED BY <1>5, <1>6

LEMMA ReceiveOtherInv ==
  ASSUME Inv, NEW h \in Handlers,
         ReceiveAmend(h) \/ ReceiveCorrection(h) \/ ReceiveDamage(h)
  PROVE  Inv'
<1>1. CASE ReceiveAmend(h)
  <2>1. PICK n \in DOMAIN movements, q \in Aims :
          Receive(h, [op |-> "amend", of |-> n, aim |-> q], "read", <<>>, FALSE)
    BY <1>1 DEF ReceiveAmend
  <2> QED BY <2>1, ReceiveInv
<1>2. CASE ReceiveCorrection(h)
  <2>1. PICK r \in Corrections : Receive(h, r, "read", <<>>, FALSE)
    BY <1>2 DEF ReceiveCorrection
  <2> QED BY <2>1, ReceiveInv
<1>3. CASE ReceiveDamage(h)
  <2>1. PICK r \in Damages : Receive(h, r, "count", <<>>, FALSE)
    BY <1>3 DEF ReceiveDamage
  <2> QED BY <2>1, ReceiveInv
<1> QED BY <1>1, <1>2, <1>3

(* The compensating adjustment carries no reference.                       *)
LEMMA AdjustmentMoves ==
  ASSUME NEW l, NEW qty, NEW box, NEW of, NEW aim, NEW moves,
         moves = Adjustment(l, qty, box, of, aim)
  PROVE  /\ OneReference(moves) /\ Rooted(moves) /\ IsSeq(moves) /\ moves[1].ref = NoRef
         /\ 1 \in DOMAIN moves /\ 1 \in DOMAIN moves[1].legs
         /\ \A i \in DOMAIN moves : IsSeq(moves[i].legs)
<1>1. PICK leg : leg = [lot |-> l, type |-> "adjustment", qty |-> qty, from |-> NoBox,
                        to |-> box, amends |-> of, aim |-> aim]
  OBVIOUS
<1>2. PICK legs : legs = <<leg>>
  OBVIOUS
<1>3. PICK move : move = [ref |-> NoRef, legs |-> legs]
  OBVIOUS
<1>4. moves = <<move>>
  BY <1>1, <1>2, <1>3 DEF Adjustment
<1>5. IsSeq(legs) /\ legs # <<>> /\ 1 \in DOMAIN legs
  <2>1. legs \in Seq({leg})
    BY <1>2
  <2>2. legs # <<>> /\ 1 \in DOMAIN legs
    BY <1>2
  <2> QED BY <2>1, <2>2 DEF IsSeq
<1>6. IsSeq(moves) /\ moves # <<>> /\ DOMAIN moves = {1} /\ moves[1] = move
  <2>1. moves \in Seq({move})
    BY <1>4
  <2>2. moves # <<>> /\ DOMAIN moves = {1} /\ moves[1] = move
    BY <1>4
  <2> QED BY <2>1, <2>2 DEF IsSeq
<1>7. OneReference(moves) /\ Rooted(moves)
  BY <1>3, <1>5, <1>6 DEF OneReference, Rooted
<1> QED BY <1>3, <1>5, <1>6, <1>7

(* A read that becomes an adjustment, in a transaction yet to start.       *)
LEMMA ReadSound ==
  ASSUME NEW rec, NEW posted, Sound(rec, posted), rec.pc = "read",
         NEW l, NEW qty, NEW box, NEW of, NEW aim
  PROVE  LET r == [rec EXCEPT !.pc = "check", !.moves = Adjustment(l, qty, box, of, aim)]
         IN Sound(r, posted) /\ r.buf = <<>>
<1>1. PICK moves : moves = Adjustment(l, qty, box, of, aim)
  OBVIOUS
<1>2. PICK r : r = [rec EXCEPT !.pc = "check", !.moves = moves]
  OBVIOUS
<1>3. /\ DOMAIN rec = DOMAIN Idle /\ rec.at = 1 /\ rec.leg = 1 /\ ~rec.shared
      /\ ~rec.open /\ rec.buf = <<>>
  BY DEF Sound, Formed
<1>4. /\ DOMAIN r = DOMAIN Idle /\ r.pc = "check" /\ r.at = 1 /\ r.leg = 1 /\ ~r.shared
      /\ ~r.open /\ r.buf = <<>> /\ r.moves = moves
  BY <1>2, <1>3 DEF Idle
<1>5. IsSeq(r.buf) /\ RefsOf(r.buf) = {} /\ LotsOf(r.buf) = {} /\ OncePer(r.buf)
      /\ AllRooted(Posted(r.buf))
  BY <1>4, NoMovements
<1>6. Placed(r) /\ RefOf(r) = NoRef
  BY <1>1, <1>4, AdjustmentMoves DEF Placed, RefOf
<1>7. Formed(r)
  BY <1>4, <1>5, <1>6 DEF Formed
<1>8. Isolated(r, posted)
  BY <1>4, <1>5 DEF Isolated
<1>9. Checked(r, posted)
  BY <1>6 DEF Checked
<1> QED BY <1>1, <1>2, <1>4, <1>7, <1>8, <1>9 DEF Sound

LEMMA ReadMovementInv ==
  ASSUME Inv, NEW h \in Handlers, ReadMovement(h)
  PROVE  Inv'
<1>1. PICK l, qty, box, of, aim :
        hs' = [hs EXCEPT ![h] =
                 [hs[h] EXCEPT !.pc = "check", !.moves = Adjustment(l, qty, box, of, aim)]]
  BY ZenonT(60) DEF ReadMovement
<1>2. Sound(hs[h], Posted(movements)) /\ hs[h].pc = "read"
  BY DEF Inv, ReadMovement
<1>3. movements' = movements /\ answered' \subseteq RefsOf(movements)
  BY DEF ReadMovement, Inv
<1> QED BY <1>1, <1>2, <1>3, ReadSound, AloneClosed

LEMMA ReadOnHandInv ==
  ASSUME Inv, NEW h \in Handlers, ReadOnHand(h)
  PROVE  Inv'
<1>1. Sound(hs[h], Posted(movements)) /\ hs[h].pc = "read"
  BY DEF Inv, ReadOnHand
<1>2. movements' = movements /\ answered' \subseteq RefsOf(movements)
  BY DEF ReadOnHand, Inv
<1>3. PICK d : d = hs[h].req.target - LotOnHand(hs[h].req.lot)
  OBVIOUS
<1>4. CASE d = 0
  <2>1. hs' = [hs EXCEPT ![h] = Idle]
    BY <1>3, <1>4 DEF ReadOnHand
  <2> QED BY <1>2, <2>1, IdleSound, IdleBuf, AloneClosed
<1>5. CASE d # 0
  <2>1. hs' = [hs EXCEPT ![h] = [hs[h] EXCEPT !.pc = "check",
                 !.moves = Adjustment(hs[h].req.lot, d, NoBox, 0, 0)]]
    BY <1>3, <1>5 DEF ReadOnHand
  <2> QED BY <1>1, <1>2, <2>1, ReadSound, AloneClosed
<1> QED BY <1>4, <1>5

-----------------------------------------------------------------------------
(* Taking a snapshot, if there is none yet.                                *)
LEMMA SnapshotIsolated ==
  ASSUME Inv, NEW h \in Handlers, NEW r, r = WithSnapshot(h)
  PROVE  /\ DOMAIN r = DOMAIN Idle
         /\ r.pc = hs[h].pc /\ r.at = hs[h].at /\ r.leg = hs[h].leg
         /\ r.shared = hs[h].shared /\ r.moves = hs[h].moves
         /\ r.buf = hs[h].buf /\ r.clash = hs[h].clash
         /\ r.open /\ r.view = View(h)
         /\ hs[h].open => View(h) = hs[h].view
         /\ ~hs[h].open => View(h) = RefsOf(movements)
         /\ Isolated(r, Posted(movements))
<1>1. DOMAIN hs[h] = DOMAIN Idle
  BY DEF Inv, Sound, Formed
<1>2. /\ DOMAIN r = DOMAIN Idle
      /\ r.pc = hs[h].pc /\ r.at = hs[h].at /\ r.leg = hs[h].leg
      /\ r.shared = hs[h].shared /\ r.moves = hs[h].moves
      /\ r.buf = hs[h].buf /\ r.clash = hs[h].clash
      /\ r.open /\ r.view = View(h)
  BY <1>1 DEF WithSnapshot, Idle
<1>3. /\ hs[h].open => View(h) = hs[h].view
      /\ ~hs[h].open => View(h) = RefsOf(movements)
  BY DEF View
<1>4. Isolated(hs[h], Posted(movements)) /\ Formed(hs[h])
  BY DEF Inv, Sound
<1>5. CASE hs[h].open
  BY <1>2, <1>3, <1>4, <1>5 DEF Isolated, RefOf
<1>6. CASE ~hs[h].open
  <2>1. RefsOf(r.buf) = {} /\ LotsOf(r.buf) = {} /\ OncePer(r.buf) /\ AllRooted(Posted(r.buf))
    BY <1>2, <1>4, <1>6, NoMovements DEF Formed
  <2>2. \A p \in Posted(movements) : p[1] \in r.view
    BY <1>2, <1>3, <1>6, PostedRefs
  <2>3. r.view \subseteq RefsIn(Posted(movements))
    BY <1>2, <1>3, <1>6, PostedRefs
  <2> QED BY <1>2, <1>3, <1>6, <2>1, <2>2, <2>3 DEF Isolated
<1> QED BY <1>2, <1>3, <1>5, <1>6

LEMMA OpenInv ==
  ASSUME Inv, NEW h \in Handlers, Open(h)
  PROVE  Inv'
<1>1. PICK w : w = WithSnapshot(h)
  OBVIOUS
<1>2. PICK q \in Posts :
        /\ q.shared
        /\ hs' = [hs EXCEPT ![h] = [w EXCEPT !.pc = "check", !.moves = q.moves]]
  BY <1>1 DEF Open, Resolved
<1>3. PICK r : r = [w EXCEPT !.pc = "check", !.moves = q.moves]
  OBVIOUS
<1>4. /\ hs' = [hs EXCEPT ![h] = r] /\ hs[h].pc = "open" /\ movements' = movements
      /\ answered' \subseteq RefsOf(movements)
  BY <1>2, <1>3 DEF Open, Inv
<1>5. Formed(hs[h])
  BY DEF Inv, Sound
<1>6. /\ hs[h].at = 1 /\ hs[h].leg = 1 /\ hs[h].shared /\ hs[h].buf = <<>>
      /\ IsSeq(hs[h].buf)
  BY <1>4, <1>5 DEF Formed, Working
<1>7. /\ DOMAIN r = DOMAIN Idle /\ r.pc = "check" /\ r.at = 1 /\ r.leg = 1
      /\ r.shared /\ r.moves = q.moves /\ r.buf = <<>> /\ r.clash = w.clash
      /\ r.open /\ r.view = w.view /\ w.buf = <<>>
      /\ w.open /\ Isolated(w, Posted(movements))
  BY <1>1, <1>3, <1>6, SnapshotIsolated DEF Idle
<1>8. Placed(r)
  BY <1>7, PostMoves DEF Placed
<1>9. Formed(r)
  BY <1>6, <1>7, <1>8 DEF Formed
<1>10. Isolated(r, Posted(movements))
  BY <1>7, NoMovements DEF Isolated
<1>11. Checked(r, Posted(movements))
  BY <1>7 DEF Checked
<1> QED BY <1>4, <1>7, <1>9, <1>10, <1>11, AloneClosed DEF Sound

(* All moves of a request carry its reference.                             *)
LEMMA CurrentRef ==
  ASSUME Inv, NEW h \in Handlers, hs[h].pc \in {"check", "write", "commit"}
  PROVE  /\ Placed(hs[h]) /\ Formed(hs[h]) /\ CurrentMove(h).ref = RefOf(hs[h])
         /\ Isolated(hs[h], Posted(movements)) /\ Checked(hs[h], Posted(movements))
<1>1. Sound(hs[h], Posted(movements))
  BY DEF Inv
<1>2. Placed(hs[h])
  BY <1>1 DEF Sound, Formed, Working
<1>3. CurrentMove(h).ref = RefOf(hs[h])
  BY <1>2 DEF Placed, OneReference, CurrentMove, RefOf
<1> QED BY <1>1, <1>2, <1>3 DEF Sound

LEMMA CheckReferenceInv ==
  ASSUME Inv, NEW h \in Handlers, CheckReference(h)
  PROVE  Inv'
<1>1. PICK rec : rec = hs[h]
  OBVIOUS
<1>2. PICK ref : ref = RefOf(rec)
  OBVIOUS
<1>3. rec.pc = "check" /\ movements' = movements /\ answered \subseteq RefsOf(movements)
  BY <1>1 DEF CheckReference, Inv
<1>4. /\ Placed(rec) /\ Formed(rec) /\ CurrentMove(h).ref = ref
      /\ Isolated(rec, Posted(movements)) /\ Checked(rec, Posted(movements))
  BY <1>1, <1>2, <1>3, CurrentRef
<1>5. PICK w : w = WithSnapshot(h)
  OBVIOUS
<1>6. /\ DOMAIN w = DOMAIN Idle /\ w.pc = "check" /\ w.at = rec.at /\ w.leg = rec.leg
      /\ w.shared = rec.shared /\ w.moves = rec.moves /\ w.buf = rec.buf
      /\ w.open /\ w.view = View(h) /\ Isolated(w, Posted(movements))
      /\ (rec.open => w.view = rec.view) /\ (~rec.open => w.view = RefsOf(movements))
  BY <1>1, <1>3, <1>5, SnapshotIsolated
<1>7. Placed(w) /\ RefOf(w) = ref /\ IsSeq(w.buf)
  BY <1>2, <1>4, <1>6 DEF Placed, RefOf, Formed
<1>8. /\ rec.shared => rec.open
      /\ ~rec.shared => ~rec.open /\ rec.buf = <<>>
  BY <1>3, <1>4 DEF Formed
<1>9. \A g \in Handlers \ {h} : LotsOf(rec.buf) \cap LotsOf(hs[g].buf) = {}
  BY <1>1 DEF Inv
<1>10. CASE ref = NoRef
  <2>1. PICK r : r = [rec EXCEPT !.pc = "write"]
    OBVIOUS
  <2>2. hs' = [hs EXCEPT ![h] = r] /\ answered' = answered
    BY <1>1, <1>4, <1>10, <2>1 DEF CheckReference
  <2>3. /\ DOMAIN r = DOMAIN Idle /\ r.pc = "write" /\ r.at = rec.at /\ r.leg = rec.leg
        /\ r.shared = rec.shared /\ r.moves = rec.moves /\ r.buf = rec.buf
        /\ r.open = rec.open /\ r.view = rec.view /\ r.clash = rec.clash
    BY <1>4, <2>1 DEF Formed, Idle
  <2>4. Formed(r)
    BY <1>4, <2>3 DEF Formed, Placed
  <2>5. Isolated(r, Posted(movements))
    BY <1>4, <2>3 DEF Isolated, RefOf
  <2>6. Checked(r, Posted(movements))
    BY <1>2, <1>10, <2>3 DEF Checked, RefOf
  <2> QED BY <1>3, <1>9, <2>2, <2>3, <2>4, <2>5, <2>6, Alone DEF Sound
<1>11. CASE ref # NoRef /\ ReferenceExists(h, ref)
  <2>1. ref \in w.view \cup RefsOf(w.buf)
    BY <1>1, <1>6, <1>11 DEF ReferenceExists
  <2>2. ~rec.shared => ref \in RefsOf(movements)
    BY <1>6, <1>8, <2>1, NoMovements
  <2>3. Sound(NextMove(w), Posted(movements))
    BY <1>6, <1>7, <2>1, <2>2, PostedRefs, NextMoveSound
  <2>4. hs' = [hs EXCEPT ![h] = NextMove(w)]
    BY <1>4, <1>5, <1>11 DEF CheckReference
  <2>5. answered' = IF rec.shared THEN answered ELSE answered \cup {ref}
    BY <1>1, <1>4, <1>11 DEF CheckReference
  <2>6. answered' \subseteq RefsOf(movements)
    BY <1>3, <2>2, <2>5
  <2>7. LotsOf(NextMove(w).buf) \subseteq LotsOf(rec.buf)
    <3>1. CASE rec.shared
      BY <1>6, <3>1, NextMoveBuf, NoMovements
    <3>2. CASE ~rec.shared
      BY <1>6, <3>2, NextMoveBuf, NoMovements
    <3> QED BY <3>1, <3>2
  <2> QED BY <1>3, <1>9, <2>3, <2>4, <2>6, <2>7, Alone
<1>12. CASE ref # NoRef /\ ~ReferenceExists(h, ref)
  <2>1. PICK r : r = [w EXCEPT !.pc = "write"]
    OBVIOUS
  <2>2. hs' = [hs EXCEPT ![h] = r] /\ answered' = answered
    BY <1>4, <1>5, <1>12, <2>1 DEF CheckReference
  <2>3. /\ DOMAIN r = DOMAIN Idle /\ r.pc = "write" /\ r.at = rec.at /\ r.leg = rec.leg
        /\ r.shared = rec.shared /\ r.moves = rec.moves /\ r.buf = rec.buf
        /\ r.open /\ r.view = w.view /\ r.clash = w.clash
    BY <1>6, <2>1 DEF Idle
  <2>4. ref \notin r.view \cup RefsOf(r.buf)
    BY <1>1, <1>6, <1>12, <2>3 DEF ReferenceExists
  <2>5. r.at = 1
    <3>1. CASE rec.shared /\ rec.at # 1
      <4>1. ref \in rec.view \cup RefsOf(rec.buf)
        BY <1>2, <1>3, <1>4, <1>12, <3>1 DEF Checked, Working
      <4> QED BY <1>6, <1>8, <2>3, <2>4, <3>1, <4>1
    <3>2. CASE ~rec.shared /\ rec.at # 1
      <4>1. ref \in RefsOf(movements)
        BY <1>2, <1>3, <1>4, <1>12, <3>2, PostedRefs DEF Checked, Working
      <4> QED BY <1>6, <1>8, <2>3, <2>4, <3>2, <4>1
    <3> QED BY <2>3, <3>1, <3>2
  <2>6. Formed(r)
    BY <1>4, <1>7, <2>3, <1>6 DEF Formed, Placed
  <2>7. Isolated(r, Posted(movements))
    BY <1>6, <2>3 DEF Isolated, RefOf
  <2>8. Checked(r, Posted(movements))
    BY <1>2, <2>3, <2>4, <2>5 DEF Checked, RefOf
  <2> QED BY <1>3, <1>9, <2>2, <2>3, <2>6, <2>7, <2>8, Alone DEF Sound
<1> QED BY <1>10, <1>11, <1>12

LEMMA AppendOnce ==
  ASSUME NEW s, IsSeq(s), OncePer(s), NEW x, x.ref \notin RefsOf(s)
  PROVE  OncePer(Append(s, x))
<1>1. PICK a : a = Append(s, x)
  OBVIOUS
<1>2. /\ Len(s) \in Nat /\ DOMAIN s = 1 .. Len(s) /\ DOMAIN a = 1 .. Len(s) + 1
      /\ \A i \in 1 .. Len(s) : a[i] = s[i]
      /\ a[Len(s) + 1] = x
  BY <1>1, SeqDomain, AppendSeq
<1>3. \A i \in 1 .. Len(s) : s[i].ref # NoRef => s[i].ref # x.ref
  BY <1>2 DEF RefsOf
<1>4. ASSUME NEW i \in DOMAIN a, NEW j \in DOMAIN a, a[i].ref # NoRef, a[i].ref = a[j].ref
      PROVE  i = j
  <2>1. CASE i \in 1 .. Len(s) /\ j \in 1 .. Len(s)
    BY <1>2, <1>4, <2>1 DEF OncePer
  <2>2. CASE i \in 1 .. Len(s) /\ j = Len(s) + 1
    BY <1>2, <1>3, <1>4, <2>2
  <2>3. CASE i = Len(s) + 1 /\ j \in 1 .. Len(s)
    BY <1>2, <1>3, <1>4, <2>3
  <2>4. CASE i = Len(s) + 1 /\ j = Len(s) + 1
    BY <2>4
  <2> QED BY <1>2, <2>1, <2>2, <2>3, <2>4
<1> QED BY <1>1, <1>4 DEF OncePer

(* A written leg: a reference goes on the last leg of the first move.      *)
LEMMA WriteLegInv ==
  ASSUME Inv, NEW h \in Handlers, WriteLeg(h)
  PROVE  Inv'
<1>1. PICK rec : rec = hs[h]
  OBVIOUS
<1>2. PICK move : move = CurrentMove(h)
  OBVIOUS
<1>3. PICK leg : leg = move.legs[rec.leg]
  OBVIOUS
<1>4. PICK x : x = [ref |-> IF rec.leg = Len(move.legs) THEN move.ref ELSE NoRef,
                    leg |-> leg]
  OBVIOUS
<1>5. PICK w : w = WithSnapshot(h)
  OBVIOUS
<1>6. PICK made : made = [w EXCEPT !.buf = Append(w.buf, x)]
  OBVIOUS
<1>7. /\ rec.pc = "write" /\ movements' = movements /\ answered' \subseteq RefsOf(movements)
      /\ hs' = [hs EXCEPT ![h] =
                  IF Conflict(h, leg.lot) THEN Abort(rec)
                  ELSE IF rec.leg # Len(move.legs) THEN [made EXCEPT !.leg = made.leg + 1]
                  ELSE IF rec.shared THEN NextMove(made)
                  ELSE [made EXCEPT !.pc = "commit"]]
  <2>1. \A m : [m EXCEPT !.leg = @ + 1] = [m EXCEPT !.leg = m.leg + 1]
    OBVIOUS
  <2>2. [w EXCEPT !.buf = Append(@, x)] = made
    BY <1>6
  <2>3. answered \subseteq RefsOf(movements)
    BY DEF Inv
  <2> QED BY <1>1, <1>2, <1>3, <1>4, <1>5, <2>1, <2>2, <2>3 DEF WriteLeg
<1>8. /\ Placed(rec) /\ Formed(rec) /\ move.ref = RefOf(rec)
      /\ Isolated(rec, Posted(movements)) /\ Checked(rec, Posted(movements))
      /\ move = rec.moves[rec.at] /\ Sound(rec, Posted(movements))
  BY <1>1, <1>2, <1>7, CurrentRef DEF CurrentMove, Inv
<1>9. \A g \in Handlers \ {h} : LotsOf(rec.buf) \cap LotsOf(hs[g].buf) = {}
  BY <1>1 DEF Inv
<1>10. CASE Conflict(h, leg.lot)
  <2>1. Sound(Abort(rec), Posted(movements))
    BY <1>7, <1>8, AbortSound
  <2>2. Abort(rec).buf = <<>>
    <3>1. \A n, k, pc : Restart(rec, n, k, pc).buf = <<>>
      BY <1>8 DEF Restart, Idle, Formed
    <3> QED BY <3>1, IdleBuf DEF Abort
  <2> QED BY <1>7, <1>10, <2>1, <2>2, AloneClosed
<1>11. CASE ~Conflict(h, leg.lot)
  <2>1. /\ leg.lot \notin rec.clash
        /\ \A g \in Handlers \ {h} : leg.lot \notin LotsOf(hs[g].buf)
    BY <1>1, <1>11 DEF Conflict, Locked, LockedBy
  <2>2. /\ DOMAIN w = DOMAIN Idle /\ w.pc = "write" /\ w.at = rec.at /\ w.leg = rec.leg
        /\ w.shared = rec.shared /\ w.moves = rec.moves /\ w.buf = rec.buf
        /\ w.open /\ w.clash = rec.clash /\ Isolated(w, Posted(movements))
        /\ (rec.open => w.view = rec.view)
    BY <1>1, <1>5, <1>7, SnapshotIsolated
  <2>3. /\ DOMAIN made = DOMAIN Idle /\ made.pc = "write" /\ made.at = rec.at
        /\ made.leg = rec.leg /\ made.shared = rec.shared /\ made.moves = rec.moves
        /\ made.buf = Append(rec.buf, x) /\ made.open /\ made.clash = rec.clash
        /\ made.view = w.view
    BY <1>6, <2>2 DEF Idle
  <2>4. /\ IsSeq(made.buf)
        /\ RefsOf(made.buf) = RefsOf(rec.buf) \cup ({x.ref} \ {NoRef})
        /\ LotsOf(made.buf) = LotsOf(rec.buf) \cup {leg.lot}
        /\ Posted(made.buf) =
             Posted(rec.buf) \cup (IF x.ref = NoRef THEN {} ELSE {<<x.ref, leg.lot>>})
    <3>1. IsSeq(rec.buf) /\ x.leg = leg
      BY <1>4, <1>8 DEF Formed
    <3>2. PICK b : b = rec.buf
      OBVIOUS
    <3>3. /\ IsSeq(Append(b, x))
          /\ RefsOf(Append(b, x)) = RefsOf(b) \cup ({x.ref} \ {NoRef})
          /\ LotsOf(Append(b, x)) = LotsOf(b) \cup {x.leg.lot}
          /\ Posted(Append(b, x)) =
               Posted(b) \cup (IF x.ref = NoRef THEN {} ELSE {<<x.ref, x.leg.lot>>})
      BY <3>1, <3>2, AppendSeq
    <3> QED BY <2>3, <3>1, <3>2, <3>3
  <2>5. ASSUME x.ref # NoRef
        PROVE  /\ x.ref = RefOf(rec) /\ rec.at = 1 /\ rec.open
               /\ x.ref \notin rec.view \cup RefsOf(rec.buf)
               /\ leg.lot \in Starts(x.ref)
    <3>1. rec.leg = Len(move.legs) /\ x.ref = RefOf(rec)
      BY <1>4, <1>8, <2>5
    <3>2. rec.at = 1 /\ rec.open /\ x.ref \notin rec.view \cup RefsOf(rec.buf)
      BY <1>7, <1>8, <2>5, <3>1 DEF Checked, Working
    <3>3. move = rec.moves[1] /\ leg = rec.moves[1].legs[Len(rec.moves[1].legs)]
      BY <1>3, <1>8, <3>1, <3>2
    <3>4. leg.lot \in Starts(x.ref)
      BY <1>8, <2>5, <3>1, <3>3 DEF Placed, Rooted, FirstLot, RefOf
    <3> QED BY <3>1, <3>2, <3>4
  <2>6. OncePer(made.buf)
    <3>1. x.ref \notin RefsOf(rec.buf)
      BY <2>5 DEF RefsOf
    <3> QED BY <1>8, <2>3, <3>1, AppendOnce DEF Formed, Isolated
  <2>7. Isolated(made, Posted(movements))
    <3>1. RefOf(made) = RefOf(rec) /\ RefOf(w) = RefOf(rec)
      BY <2>2, <2>3 DEF RefOf
    <3>2. AllRooted(Posted(made.buf))
      BY <1>8, <2>4, <2>5 DEF Isolated, AllRooted
    <3>3. \A r \in RefsOf(made.buf) : r \notin made.view /\ r = RefOf(made)
      BY <2>2, <2>3, <2>4, <2>5, <3>1 DEF Isolated
    <3> QED BY <2>1, <2>2, <2>3, <2>4, <2>6, <3>2, <3>3 DEF Isolated
  <2>8. Placed(made) /\ RefOf(made) = RefOf(rec)
    BY <1>8, <2>3 DEF Placed, RefOf
  <2>9. \A g \in Handlers \ {h} : LotsOf(made.buf) \cap LotsOf(hs[g].buf) = {}
    BY <1>9, <2>1, <2>4
  <2>10. CASE rec.leg # Len(move.legs)
    <3>1. PICK r : r = [made EXCEPT !.leg = made.leg + 1]
      OBVIOUS
    <3>2. hs' = [hs EXCEPT ![h] = r]
      BY <1>7, <1>11, <2>10, <3>1
    <3>3. /\ DOMAIN r = DOMAIN Idle /\ r.pc = "write" /\ r.at = rec.at
          /\ r.leg = rec.leg + 1 /\ r.shared = rec.shared /\ r.moves = rec.moves
          /\ r.buf = made.buf /\ r.open /\ r.clash = made.clash /\ r.view = made.view
      BY <2>3, <3>1 DEF Idle
    <3>4. rec.leg + 1 \in DOMAIN rec.moves[rec.at].legs
      <4>1. DOMAIN move.legs = 1 .. Len(move.legs) /\ Len(move.legs) \in Nat
            /\ rec.leg \in DOMAIN move.legs
        BY <1>8, SeqDomain DEF Placed
      <4> QED BY <1>8, <2>10, <4>1
    <3>5. Formed(r)
      BY <1>8, <2>4, <3>3, <3>4 DEF Formed, Placed
    <3>6. Isolated(r, Posted(movements))
      BY <2>3, <2>7, <3>3 DEF Isolated, RefOf
    <3>7. Checked(r, Posted(movements))
      <4>1. x.ref = NoRef
        BY <1>4, <2>10
      <4>2. RefsOf(r.buf) = RefsOf(rec.buf) /\ RefOf(r) = RefOf(rec)
        BY <2>4, <3>3, <4>1 DEF RefOf
      <4>3. RefOf(rec) # NoRef => /\ rec.at = 1 /\ rec.open
                                  /\ RefOf(rec) \notin rec.view \cup RefsOf(rec.buf)
        BY <1>7, <1>8 DEF Checked, Working
      <4> QED BY <2>2, <2>3, <3>3, <4>2, <4>3 DEF Checked
    <3> QED BY ZenonT(60), <1>7, <2>9, <3>2, <3>3, <3>5, <3>6, <3>7, Alone DEF Sound
  <2>11. CASE rec.leg = Len(move.legs) /\ rec.shared
    <3>1. hs' = [hs EXCEPT ![h] = NextMove(made)]
      BY <1>7, <1>11, <2>11
    <3>2. RefOf(made) = NoRef \/ RefOf(made) \in made.view \cup RefsOf(made.buf)
      BY <1>4, <1>8, <2>4, <2>8, <2>11
    <3>3. Sound(NextMove(made), Posted(movements))
      BY <2>3, <2>4, <2>7, <2>8, <2>11, <3>2, NextMoveSound
    <3>4. LotsOf(NextMove(made).buf) \subseteq LotsOf(made.buf)
      BY <2>3, <2>11, NextMoveBuf, NoMovements
    <3> QED BY ZenonT(60), <1>7, <2>9, <3>1, <3>3, <3>4, Alone
  <2>12. CASE rec.leg = Len(move.legs) /\ ~rec.shared
    <3>1. PICK r : r = [made EXCEPT !.pc = "commit"]
      OBVIOUS
    <3>2. hs' = [hs EXCEPT ![h] = r]
      BY <1>7, <1>11, <2>12, <3>1
    <3>3. /\ DOMAIN r = DOMAIN Idle /\ r.pc = "commit" /\ r.at = rec.at
          /\ r.leg = rec.leg /\ r.shared = rec.shared /\ r.moves = rec.moves
          /\ r.buf = made.buf /\ r.open /\ r.clash = made.clash /\ r.view = made.view
      BY <2>3, <3>1 DEF Idle
    <3>4. Formed(r)
      BY <1>8, <2>4, <3>3 DEF Formed, Placed
    <3>5. Isolated(r, Posted(movements))
      BY <2>3, <2>7, <3>3 DEF Isolated, RefOf
    <3>6. Checked(r, Posted(movements))
      <4>1. RefOf(r) = RefOf(rec)
        BY <3>3 DEF RefOf
      <4>2. RefOf(rec) # NoRef => rec.at = 1 /\ RefOf(rec) \in RefsOf(r.buf)
        BY <1>4, <1>8, <2>4, <2>5, <2>12, <3>3
      <4> QED BY <3>3, <4>1, <4>2 DEF Checked
    <3> QED BY <1>7, <2>9, <3>2, <3>3, <3>4, <3>5, <3>6, Alone DEF Sound
  <2> QED BY <2>10, <2>11, <2>12
<1> QED BY <1>10, <1>11

(* A commit posts only references the ledger lacks on their lots: a        *)
(* reference posted since the snapshot put its lot in `clash`.             *)
LEMMA CommitsUnseen ==
  ASSUME Inv, NEW h \in Handlers
  PROVE  Posted(movements) \cap Posted(hs[h].buf) = {}
<1>1. Isolated(hs[h], Posted(movements)) /\ Formed(hs[h])
  BY DEF Inv, Sound
<1>2. CASE hs[h].open
  BY <1>1, <1>2, PostedRefs DEF Isolated
<1>3. CASE ~hs[h].open
  BY <1>1, <1>3, NoMovements DEF Formed
<1> QED BY <1>2, <1>3

LEMMA StoreInv ==
  ASSUME Inv, NEW h \in Handlers, NEW rec, Store(h, rec),
         Sound(rec, Posted(movements \o hs[h].buf)), rec.buf = <<>>,
         answered' \subseteq RefsOf(movements \o hs[h].buf)
  PROVE  Inv'
<1>1. PICK buf : buf = hs[h].buf
  OBVIOUS
<1>2. PICK more : more = Posted(movements \o buf)
  OBVIOUS
<1>3. /\ IsSeq(movements) /\ IsSeq(buf) /\ OncePerLot(movements) /\ OncePerLot(buf)
      /\ AllRooted(Posted(movements)) /\ AllRooted(Posted(buf))
      /\ \A p \in Posted(buf) : p[2] \in LotsOf(buf)
  <2>1. OncePer(buf) => OncePerLot(buf)
    BY DEF OncePer, OncePerLot
  <2> QED BY <1>1, <2>1, PostedRefs DEF Inv, Sound, Formed, Isolated
<1>4. more = Posted(movements) \cup Posted(buf) /\ IsSeq(movements \o buf) /\ AllRooted(more)
  BY <1>2, <1>3, ConcatSeq DEF AllRooted
<1>5. OncePerLot(movements \o buf)
  BY <1>1, <1>3, CommitsUnseen, ConcatOnce
<1>6. movements' = movements \o buf /\ Posted(movements') = more
  BY <1>1, <1>2 DEF Store
<1>7. hs' = Touch(h, rec, LotsOf(buf))
  BY <1>1 DEF Store
<1>8. /\ DOMAIN hs' = Handlers /\ hs'[h] = rec
      /\ \A g \in Handlers \ {h} :
           hs'[g] = IF ~hs[g].open THEN hs[g] ELSE [hs[g] EXCEPT !.clash = @ \cup LotsOf(buf)]
  BY <1>7 DEF Touch
<1>9. ASSUME NEW g \in Handlers, g # h
      PROVE  Sound(hs'[g], more) /\ hs'[g].buf = hs[g].buf
  <2>1. Sound(hs[g], Posted(movements)) /\ LotsOf(buf) \cap LotsOf(hs[g].buf) = {}
    BY <1>1, <1>9 DEF Inv
  <2>2. Posted(movements) \subseteq more
        /\ \A p \in more \ Posted(movements) : p[2] \in LotsOf(buf)
    BY <1>3, <1>4
  <2>3. Sound(hs'[g], more)
    <3>1. PICK r : r = hs[g]
      OBVIOUS
    <3>2. PICK lots : lots = LotsOf(buf)
      OBVIOUS
    <3>3. PICK posted : posted = Posted(movements)
      OBVIOUS
    <3>4. Sound(IF ~r.open THEN r ELSE [r EXCEPT !.clash = @ \cup lots], more)
      BY <2>1, <2>2, <3>1, <3>2, <3>3, TouchSound
    <3>5. hs'[g] = IF ~r.open THEN r ELSE [r EXCEPT !.clash = @ \cup lots]
      BY <1>8, <1>9, <3>1, <3>2
    <3> QED BY <3>4, <3>5
  <2>4. DOMAIN hs[g] = DOMAIN Idle
    BY <2>1 DEF Sound, Formed
  <2>5. hs'[g].buf = hs[g].buf
    BY <1>8, <1>9, <2>4 DEF Idle
  <2> QED BY <2>3, <2>5
<1>10. \A f, g \in Handlers : f # g => LotsOf(hs'[f].buf) \cap LotsOf(hs'[g].buf) = {}
  <2>1. LotsOf(hs'[h].buf) = {}
    BY <1>8, NoMovements
  <2>2. \A f, g \in Handlers : f # g => LotsOf(hs[f].buf) \cap LotsOf(hs[g].buf) = {}
    BY DEF Inv
  <2>3. ASSUME NEW f \in Handlers, NEW g \in Handlers, f # g
        PROVE  LotsOf(hs'[f].buf) \cap LotsOf(hs'[g].buf) = {}
    <3>1. CASE f = h \/ g = h
      BY <2>1, <3>1
    <3>2. CASE f # h /\ g # h
      BY <1>9, <2>2, <2>3, <3>2
    <3> QED BY <3>1, <3>2
  <2> QED BY <2>3
<1>11. \A g \in Handlers : Sound(hs'[g], Posted(movements'))
  BY <1>1, <1>2, <1>6, <1>8, <1>9
<1>12. answered' \subseteq RefsOf(movements') /\ AllRooted(Posted(movements'))
  BY <1>1, <1>4, <1>6
<1> QED BY <1>4, <1>5, <1>6, <1>8, <1>10, <1>11, <1>12 DEF Inv

LEMMA CommitInv ==
  ASSUME Inv, NEW h \in Handlers, Commit(h) \/ CommitUnknown(h)
  PROVE  Inv'
<1>1. PICK rec : rec = hs[h]
  OBVIOUS
<1>2. PICK more : more = RefsOf(movements \o rec.buf)
  OBVIOUS
<1>3. rec.pc = "commit"
  BY <1>1 DEF Commit, CommitUnknown, Store
<1>4. /\ Placed(rec) /\ Formed(rec) /\ DOMAIN rec = DOMAIN Idle
      /\ Isolated(rec, Posted(movements)) /\ Checked(rec, Posted(movements))
  BY <1>1, <1>3, CurrentRef DEF Formed
<1>5. more = RefsOf(movements) \cup RefsOf(rec.buf) /\ answered \subseteq more
  BY <1>1, <1>2, <1>4, ConcatSeq DEF Inv, Formed
<1>6. RefOf(rec) # NoRef => RefOf(rec) \in more
  BY <1>3, <1>4, <1>5, PostedRefs DEF Checked, Isolated, Working
<1>7. CASE CommitUnknown(h)
  BY <1>1, <1>2, <1>5, <1>7, IdleSound, IdleBuf, StoreInv DEF CommitUnknown
<1>8. CASE Commit(h)
  <2>1. RefsOf(MovesOf(rec)) \subseteq more
    <3>1. \A i \in DOMAIN rec.moves : rec.moves[i].ref = RefOf(rec)
      BY <1>4 DEF Placed, OneReference, RefOf
    <3>2. CASE rec.shared
      BY <1>6, <3>1, <3>2 DEF MovesOf, RefsOf
    <3>3. CASE ~rec.shared
      <4>1. PICK m : m = <<rec.moves[rec.at]>>
        OBVIOUS
      <4>2. DOMAIN m = {1} /\ m[1] = rec.moves[rec.at]
        BY <4>1
      <4>3. RefsOf(m) \subseteq more
        BY <1>4, <1>6, <3>1, <4>2 DEF RefsOf, Placed
      <4> QED BY <3>3, <4>1, <4>3 DEF MovesOf
    <3> QED BY <3>2, <3>3
  <2>2. answered' \subseteq more
    BY <1>1, <1>5, <1>8, <2>1 DEF Commit
  <2>3. CASE rec.shared
    BY <1>1, <1>2, <1>8, <2>2, <2>3, IdleSound, IdleBuf, StoreInv DEF Commit
  <2>4. CASE ~rec.shared
    <3>1. PICK r : r = NextMove(rec)
      OBVIOUS
    <3>2. r.buf = <<>>
      BY <1>4, <2>4, <3>1, NextMoveBuf
    <3>3. Sound(r, Posted(movements \o rec.buf))
      <4>1. CASE rec.at < Len(rec.moves)
        <5>1. r = Restart(rec, 1, rec.at + 1, "check")
          BY <2>4, <3>1, <4>1 DEF NextMove
        <5>2. rec.at + 1 \in DOMAIN rec.moves
          BY <1>4, <4>1, SeqDomain DEF Placed
        <5>3. RefOf(rec) = NoRef \/ RefOf(rec) \in RefsIn(Posted(movements \o rec.buf))
          BY <1>2, <1>6, PostedRefs
        <5> QED BY <1>4, <2>4, <5>1, <5>2, <5>3, RestartSound
      <4>2. CASE ~(rec.at < Len(rec.moves))
        BY <2>4, <3>1, <4>2, IdleSound DEF NextMove
      <4> QED BY <4>1, <4>2
    <3>4. Store(h, r)
      BY <1>1, <1>8, <2>4, <3>1 DEF Commit
    <3> QED BY <1>1, <1>2, <2>2, <3>2, <3>3, <3>4, StoreInv
  <2> QED BY <2>3, <2>4
<1> QED BY <1>7, <1>8

LEMMA CountDamageInv ==
  ASSUME Inv, NEW h \in Handlers, CountDamage(h)
  PROVE  Inv'
<1>1. PICK posted : posted = Posted(movements)
  OBVIOUS
<1>2. PICK l : l = hs[h].req.lot
  OBVIOUS
<1>3. PICK moves :
        hs' = Touch(h, [hs[h] EXCEPT !.pc = "log", !.moves = moves], {l})
  BY <1>2 DEF CountDamage
<1>4. PICK r : r = [hs[h] EXCEPT !.pc = "log", !.moves = moves]
  OBVIOUS
<1>5. /\ hs[h].pc = "count" /\ movements' = movements /\ answered' = answered
      /\ \A g \in Handlers \ {h} : l \notin LotsOf(hs[g].buf)
  BY <1>2 DEF CountDamage, Locked, LockedBy
<1>6. Formed(hs[h]) /\ DOMAIN hs[h] = DOMAIN Idle
  BY DEF Inv, Sound, Formed
<1>7. /\ DOMAIN r = DOMAIN Idle /\ r.pc = "log" /\ ~r.open /\ r.buf = <<>>
  BY <1>4, <1>5, <1>6 DEF Formed, Idle
<1>8. IsSeq(r.buf) /\ RefsOf(r.buf) = {} /\ LotsOf(r.buf) = {} /\ OncePer(r.buf)
      /\ AllRooted(Posted(r.buf))
  BY <1>7, NoMovements
<1>9. Sound(r, posted)
  <2>1. Formed(r)
    BY <1>7, <1>8 DEF Formed, Working
  <2>2. Isolated(r, posted)
    BY <1>7, <1>8 DEF Isolated
  <2>3. Checked(r, posted)
    BY <1>7 DEF Checked, Working
  <2> QED BY <2>1, <2>2, <2>3 DEF Sound
<1>10. /\ DOMAIN hs' = Handlers /\ hs'[h] = r
       /\ \A g \in Handlers \ {h} :
            hs'[g] = IF ~hs[g].open THEN hs[g] ELSE [hs[g] EXCEPT !.clash = @ \cup {l}]
  BY <1>3, <1>4 DEF Touch
<1>11. ASSUME NEW g \in Handlers, g # h
       PROVE  Sound(hs'[g], posted) /\ hs'[g].buf = hs[g].buf
  <2>1. PICK q : q = hs[g]
    OBVIOUS
  <2>2. Sound(q, posted) /\ DOMAIN q = DOMAIN Idle
    BY <1>1, <2>1 DEF Inv, Sound, Formed
  <2>3. PICK lots : lots = {l}
    OBVIOUS
  <2>4. lots \cap LotsOf(q.buf) = {}
    BY <1>5, <1>11, <2>1, <2>3
  <2>5. Sound(IF ~q.open THEN q ELSE [q EXCEPT !.clash = @ \cup lots], posted)
    BY <2>2, <2>4, TouchSound
  <2>6. hs'[g] = IF ~q.open THEN q ELSE [q EXCEPT !.clash = @ \cup lots]
    BY <1>10, <1>11, <2>1, <2>3
  <2>7. hs'[g].buf = q.buf
    BY <2>2, <2>6 DEF Idle
  <2> QED BY <2>1, <2>5, <2>6, <2>7
<1>12. \A g \in Handlers : Sound(hs'[g], Posted(movements'))
  BY <1>1, <1>5, <1>9, <1>10, <1>11
<1>13. \A f, g \in Handlers : f # g => LotsOf(hs'[f].buf) \cap LotsOf(hs'[g].buf) = {}
  <2>1. \A f, g \in Handlers : f # g => LotsOf(hs[f].buf) \cap LotsOf(hs[g].buf) = {}
    BY DEF Inv
  <2>2. ASSUME NEW f \in Handlers, NEW g \in Handlers, f # g
        PROVE  LotsOf(hs'[f].buf) \cap LotsOf(hs'[g].buf) = {}
    <3>1. CASE f = h \/ g = h
      BY <1>8, <1>10, <3>1
    <3>2. CASE f # h /\ g # h
      BY <1>11, <2>1, <2>2, <3>2
    <3> QED BY <3>1, <3>2
  <2> QED BY <2>2
<1>14. /\ IsSeq(movements') /\ OncePerLot(movements') /\ AllRooted(Posted(movements'))
       /\ answered' \subseteq RefsOf(movements')
  BY <1>5 DEF Inv
<1> QED BY <1>10, <1>12, <1>13, <1>14 DEF Inv

LEMMA LogDamageInv ==
  ASSUME Inv, NEW h \in Handlers, LogDamage(h)
  PROVE  Inv'
<1>1. PICK x : x = [ref |-> NoRef, leg |-> CurrentMove(h).legs[1]]
  OBVIOUS
<1>2. /\ movements' = Append(movements, x) /\ hs' = [hs EXCEPT ![h] = Idle]
      /\ answered' = answered
  BY <1>1 DEF LogDamage
<1>3. PICK s : s = movements
  OBVIOUS
<1>4. /\ IsSeq(s) /\ OncePerLot(s) /\ AllRooted(Posted(s)) /\ x.ref = NoRef /\ answered \subseteq RefsOf(s)
      /\ DOMAIN hs = Handlers
      /\ \A g \in Handlers : Sound(hs[g], Posted(s))
      /\ \A f, g \in Handlers : f # g => LotsOf(hs[f].buf) \cap LotsOf(hs[g].buf) = {}
  BY <1>1, <1>3 DEF Inv
<1>5. PICK a : a = Append(s, x)
  OBVIOUS
<1>7. IsSeq(a) /\ OncePerLot(a) /\ RefsOf(a) = RefsOf(s) /\ Posted(a) = Posted(s)
  <2>1. /\ IsSeq(a) /\ RefsOf(a) = RefsOf(s) \cup ({x.ref} \ {NoRef})
        /\ Posted(a) = Posted(s) \cup (IF x.ref = NoRef THEN {} ELSE {<<x.ref, x.leg.lot>>})
        /\ DOMAIN a = 1 .. Len(s) + 1 /\ a[Len(s) + 1] = x
        /\ \A i \in 1 .. Len(s) : a[i] = s[i]
    BY <1>4, <1>5, AppendSeq
  <2>2. DOMAIN s = 1 .. Len(s) /\ Len(s) \in Nat
    BY <1>4, SeqDomain
  <2>3. \A i \in DOMAIN a : a[i].ref # NoRef => i \in DOMAIN s /\ a[i] = s[i]
    BY <1>4, <2>1, <2>2
  <2>4. OncePerLot(a)
    BY <1>4, <2>3 DEF OncePerLot
  <2> QED BY <1>4, <2>1, <2>4
<1>8. \A g \in Handlers : Sound(hs'[g], Posted(a))
  BY <1>2, <1>4, <1>7, IdleSound
<1>9. \A f, g \in Handlers : f # g => LotsOf(hs'[f].buf) \cap LotsOf(hs'[g].buf) = {}
  BY <1>2, <1>4, IdleBuf, NoMovements
<1>10. movements' = a /\ DOMAIN hs' = Handlers
  BY <1>2, <1>3, <1>4, <1>5
<1> QED BY <1>2, <1>4, <1>7, <1>8, <1>9, <1>10 DEF Inv

LEMMA CrashInv ==
  ASSUME Inv, NEW h \in Handlers, Crash(h)
  PROVE  Inv'
<1>1. /\ hs' = [hs EXCEPT ![h] = Idle] /\ movements' = movements
      /\ answered' \subseteq RefsOf(movements)
  BY DEF Crash, Inv
<1> QED BY <1>1, IdleSound, IdleBuf, AloneClosed

-----------------------------------------------------------------------------
LEMMA InitInv == Init => Inv
<1> HAVE Init
<1>1. PICK s : s = movements
  OBVIOUS
<1>2. IsSeq(s) /\ OncePerLot(s) /\ RefsOf(s) = {} /\ AllRooted(Posted(s))
  BY <1>1, NoMovements DEF Init, OncePerLot
<1>3. /\ DOMAIN hs = Handlers /\ \A h \in Handlers : hs[h] = Idle
      /\ answered = {}
  BY DEF Init
<1>4. \A h \in Handlers : Sound(hs[h], Posted(s))
  BY <1>3, IdleSound
<1>5. \A g, h \in Handlers : g # h => LotsOf(hs[g].buf) \cap LotsOf(hs[h].buf) = {}
  BY <1>3, IdleBuf, NoMovements
<1> QED BY <1>1, <1>2, <1>3, <1>4, <1>5 DEF Inv

LEMMA NextInv == Inv /\ [Next]_vars => Inv'
<1> SUFFICES ASSUME Inv, [Next]_vars PROVE Inv'
  OBVIOUS
<1>1. CASE UNCHANGED vars
  BY <1>1 DEF Inv, vars
<1>2. ASSUME NEW h \in Handlers,
             \/ ReceivePost(h) \/ ReceiveAmend(h) \/ ReceiveCorrection(h) \/ ReceiveDamage(h)
             \/ Serve(h) \/ CommitUnknown(h) \/ Crash(h)
      PROVE  Inv'
  <2>1. CASE ReceivePost(h)
    BY <2>1, ReceivePostInv
  <2>2. CASE ReceiveAmend(h) \/ ReceiveCorrection(h) \/ ReceiveDamage(h)
    BY <2>2, ReceiveOtherInv
  <2>3. CASE ReadMovement(h)
    BY <2>3, ReadMovementInv
  <2>4. CASE ReadOnHand(h)
    BY <2>4, ReadOnHandInv
  <2>5. CASE Open(h)
    BY <2>5, OpenInv
  <2>6. CASE CheckReference(h)
    BY <2>6, CheckReferenceInv
  <2>7. CASE WriteLeg(h)
    BY <2>7, WriteLegInv
  <2>8. CASE Commit(h) \/ CommitUnknown(h)
    BY <2>8, CommitInv
  <2>9. CASE CountDamage(h)
    BY <2>9, CountDamageInv
  <2>10. CASE LogDamage(h)
    BY <2>10, LogDamageInv
  <2>11. CASE Crash(h)
    BY <2>11, CrashInv
  <2> QED BY <1>2, <2>1, <2>2, <2>3, <2>4, <2>5, <2>6, <2>7, <2>8, <2>9, <2>10, <2>11
          DEF Serve
<1> QED BY <1>1, <1>2 DEF Next

(* What a handler has checked and written is consistent with the ledger,   *)
(* in every reachable state.                                               *)
THEOREM Invariance == Spec => []Inv
<1>1. Init => Inv
  BY InitInv
<1>2. Inv /\ [Next]_vars => Inv'
  BY NextInv
<1> QED BY <1>1, <1>2, PTL DEF Spec

(* moveOnce processes a reference at most once per lot, for any number of  *)
(* handlers that check it at the same time, in whatever stores the         *)
(* requests find their items.                                              *)
THEOREM Once == Spec => []ReferenceOncePerLot
<1>1. Inv => ReferenceOncePerLot
  BY DEF Inv, OncePerLot, ReferenceOncePerLot
<1> QED BY <1>1, Invariance, PTL

(* Nobody is told of a movement that is not in the ledger.                 *)
THEOREM Answered == Spec => []AnsweredMeansPosted
<1>1. Inv => AnsweredMeansPosted
  BY DEF Inv, AnsweredMeansPosted
<1> QED BY <1>1, Invariance, PTL

-----------------------------------------------------------------------------
(* The movements that carry a reference, before and after a commit.        *)
Carrying(s, r) == {i \in DOMAIN s : s[i].ref = r}

LEMMA CarryingConcat ==
  ASSUME NEW s, NEW t, IsSeq(s), IsSeq(t), NEW r
  PROVE  Carrying(s \o t, r) = Carrying(s, r) \cup {Len(s) + j : j \in Carrying(t, r)}
<1>1. PICK a : a = s \o t
  OBVIOUS
<1>2. /\ Len(s) \in Nat /\ DOMAIN s = 1 .. Len(s)
      /\ Len(t) \in Nat /\ DOMAIN t = 1 .. Len(t)
      /\ DOMAIN a = 1 .. Len(s) + Len(t)
      /\ \A i \in 1 .. Len(s) + Len(t) : a[i] = IF i <= Len(s) THEN s[i] ELSE t[i - Len(s)]
  BY <1>1, SeqDomain, ConcatSeq
<1>3. ASSUME NEW i \in Carrying(a, r)
      PROVE  i \in Carrying(s, r) \cup {Len(s) + j : j \in Carrying(t, r)}
  <2>1. i \in DOMAIN a /\ a[i].ref = r
    BY <1>3 DEF Carrying
  <2>2. CASE i <= Len(s)
    BY <1>2, <2>1, <2>2 DEF Carrying
  <2>3. CASE ~(i <= Len(s))
    <3>1. i - Len(s) \in Carrying(t, r)
      BY <1>2, <2>1, <2>3 DEF Carrying
    <3>2. i = Len(s) + (i - Len(s))
      BY <1>2, <2>1
    <3> QED BY <3>1, <3>2
  <2> QED BY <2>2, <2>3
<1>4. ASSUME NEW i \in Carrying(s, r)
      PROVE  i \in Carrying(a, r)
  BY <1>2 DEF Carrying
<1>5. ASSUME NEW j \in Carrying(t, r)
      PROVE  Len(s) + j \in Carrying(a, r)
  <2>1. j \in 1 .. Len(t) /\ t[j].ref = r
    BY <1>2 DEF Carrying
  <2>2. Len(s) + j \in 1 .. Len(s) + Len(t) /\ ~(Len(s) + j <= Len(s))
        /\ (Len(s) + j) - Len(s) = j
    BY <1>2, <2>1
  <2>3. a[Len(s) + j] = t[j]
    BY <1>2, <2>2
  <2> QED BY <1>2, <2>1, <2>2, <2>3 DEF Carrying
<1> QED BY <1>1, <1>3, <1>4, <1>5

(* A commit posts nothing that carries a steady reference, or one movement *)
(* for one that had none.                                                  *)
LEMMA CommitPosts ==
  ASSUME Inv, NEW h \in Handlers, movements' = movements \o hs[h].buf
  PROVE  [Port!Next]_postedBar
<1>1. PICK s : s = movements
  OBVIOUS
<1>2. PICK t : t = hs[h].buf
  OBVIOUS
<1>3. /\ IsSeq(s) /\ IsSeq(t) /\ OncePer(t) /\ movements' = s \o t
      /\ \A r \in RefsOf(t) : r = RefOf(hs[h])
  BY <1>1, <1>2 DEF Inv, Sound, Formed, Isolated
<1>4. \A r \in SteadyRefs : ~(r \in RefsOf(s) /\ r \in RefsOf(t))
  <2> SUFFICES ASSUME NEW r \in SteadyRefs, r \in RefsOf(s), r \in RefsOf(t) PROVE FALSE
    OBVIOUS
  <2>1. PICK i \in DOMAIN s : s[i].ref = r
    BY DEF RefsOf
  <2>2. PICK j \in DOMAIN t : t[j].ref = r
    BY DEF RefsOf
  <2>3. r # NoRef
    BY DEF RefsOf
  <2>4. PICK l, m : l = s[i].leg.lot /\ m = t[j].leg.lot
    OBVIOUS
  <2>5. <<r, l>> \in Posted(s) /\ <<r, m>> \in Posted(t)
    BY <2>1, <2>2, <2>3, <2>4 DEF Posted
  <2>6. AllRooted(Posted(s)) /\ AllRooted(Posted(t))
    BY <1>1, <1>2 DEF Inv, Sound, Isolated
  <2>7. l \in Starts(r) /\ m \in Starts(r)
    BY <2>5, <2>6 DEF AllRooted
  <2>8. l = m
    BY <2>7 DEF SteadyRefs
  <2> QED BY <1>1, <1>2, <2>5, <2>8, CommitsUnseen
<1>5. /\ postedBar = [r \in SteadyRefs |-> Carrying(s, r)]
      /\ postedBar' = [r \in SteadyRefs |-> Carrying(s \o t, r)]
  BY <1>1, <1>3 DEF Carrying, postedBar
<1>6. \A r \in SteadyRefs :
        Carrying(s \o t, r) = Carrying(s, r) \cup {Len(s) + j : j \in Carrying(t, r)}
  BY <1>3, CarryingConcat
<1>7. \A r \in SteadyRefs : r # NoRef
  BY PlacesAssumption DEF SteadyRefs
<1>8. \A r \in SteadyRefs : r \notin RefsOf(t) => Carrying(t, r) = {}
  BY <1>7 DEF Carrying, RefsOf
<1>9. CASE \A r \in SteadyRefs : r \notin RefsOf(t)
  <2>1. \A r \in SteadyRefs : Carrying(s \o t, r) = Carrying(s, r)
    BY ZenonT(60), <1>6, <1>8, <1>9
  <2>2. postedBar' = postedBar
    BY <1>5, <2>1
  <2> QED BY <2>2
<1>10. CASE \E r \in SteadyRefs : r \in RefsOf(t)
  <2>1. PICK r \in SteadyRefs : r \in RefsOf(t)
    BY <1>10
  <2>2. Carrying(s, r) = {}
    BY <1>4, <1>7, <2>1 DEF Carrying, RefsOf
  <2>3. PICK j \in DOMAIN t : t[j].ref = r
    BY <2>1 DEF RefsOf
  <2>4. Carrying(t, r) = {j}
    BY <1>3, <1>7, <2>1, <2>3 DEF Carrying, OncePer
  <2>5. PICK id : id = Len(s) + j
    OBVIOUS
  <2>6. Carrying(s \o t, r) = {id}
    BY <1>6, <2>2, <2>4, <2>5
  <2>7. \A q \in SteadyRefs \ {r} : Carrying(s \o t, q) = Carrying(s, q)
    <3>1. \A q \in SteadyRefs \ {r} : Carrying(t, q) = {}
      BY <1>3, <1>8, <2>1
    <3>2. ASSUME NEW q \in SteadyRefs \ {r}
          PROVE  Carrying(s \o t, q) = Carrying(s, q)
      <4>1. Carrying(s \o t, q) = Carrying(s, q) \cup {Len(s) + k : k \in Carrying(t, q)}
        BY <1>6
      <4>2. {Len(s) + k : k \in Carrying(t, q)} = {}
        BY <3>1
      <4> QED BY <4>1, <4>2
    <3> QED BY <3>2
  <2>8. postedBar[r] = {} /\ postedBar'[r] = {id}
    BY <1>5, <2>2, <2>6
  <2>9. postedBar' = [postedBar EXCEPT ![r] = {id}]
    BY <1>5, <2>6, <2>7
  <2>10. Port!Post(r)
    BY <2>8, <2>9 DEF Port!Post
  <2> QED BY <2>10 DEF Port!Next
<1> QED BY <1>9, <1>10

LEMMA StepPosts ==
  ASSUME Inv, [Next]_vars
  PROVE  [Port!Next]_postedBar
<1>1. CASE movements' = movements
  BY <1>1 DEF postedBar
<1>2. ASSUME NEW h \in Handlers, LogDamage(h)
      PROVE  [Port!Next]_postedBar
  <2>1. PICK s : s = movements
    OBVIOUS
  <2>2. PICK x : x = [ref |-> NoRef, leg |-> CurrentMove(h).legs[1]]
    OBVIOUS
  <2>3. movements' = Append(s, x) /\ IsSeq(s) /\ x.ref = NoRef
    BY <1>2, <2>1, <2>2 DEF LogDamage, Inv
  <2>4. PICK a : a = Append(s, x)
    OBVIOUS
  <2>5. /\ Len(s) \in Nat /\ DOMAIN s = 1 .. Len(s) /\ DOMAIN a = 1 .. Len(s) + 1
        /\ \A i \in 1 .. Len(s) : a[i] = s[i]
        /\ a[Len(s) + 1] = x
    BY <2>3, <2>4, SeqDomain, AppendSeq
  <2>6. \A r \in SteadyRefs : {i \in DOMAIN a : a[i].ref = r} = {i \in DOMAIN s : s[i].ref = r}
    BY <2>3, <2>5, PlacesAssumption DEF SteadyRefs
  <2>7. postedBar' = postedBar
    BY <2>1, <2>3, <2>4, <2>6 DEF postedBar
  <2> QED BY <2>7
<1>3. ASSUME NEW h \in Handlers, Commit(h) \/ CommitUnknown(h)
      PROVE  [Port!Next]_postedBar
  BY <1>3, CommitPosts DEF Commit, CommitUnknown, Store
<1>4. movements' = movements \/ \E h \in Handlers : LogDamage(h) \/ Commit(h) \/ CommitUnknown(h)
  <2>1. CASE UNCHANGED vars
    BY <2>1 DEF vars
  <2>2. CASE Next
    BY ZenonT(60), <2>2 DEF Next, Serve, ReceivePost, ReceiveAmend, ReceiveCorrection, ReceiveDamage,
                Receive, ReadMovement, ReadOnHand, Open, CheckReference, WriteLeg,
                CountDamage, Crash
  <2> QED BY <2>1, <2>2
<1> QED BY <1>1, <1>2, <1>3, <1>4

(* The ledger implements StockLedgerPort for the references whose requests *)
(* all start in one store: however they interleave, are retried or die,    *)
(* a reference posts one movement.                                         *)
THEOREM Implements == Spec => KeepsPort
<1>1. Init => Port!Init
  <2> HAVE Init
  <2>1. DOMAIN movements = {}
    BY DEF Init
  <2> QED BY <2>1 DEF Port!Init, postedBar
<1>2. Inv /\ [Next]_vars => [Port!Next]_postedBar
  BY StepPosts
<1> QED BY <1>1, <1>2, Invariance, PTL DEF Spec, KeepsPort, Port!Spec
=============================================================================
