--------------------------- MODULE ViewServer_proofs ---------------------------
(***************************************************************************)
(* What each step of the view server keeps, for any set of servers and any *)
(* DeadPings: lemmas for the systems it is part of.                        *)
(***************************************************************************)
EXTENDS ViewServer, TLAPS

\* What lines 70-91 do to any next view: the result is a view, no role is
\* given twice, nobody is displaced, and a change of roles raises the number.
LEMMA ReassignFacts ==
    ASSUME NEW nv \in View, NEW c \in BOOLEAN, NEW me \in Servers
    PROVE  /\ Reassign(nv, c, me) \in View
           /\ Reassign(nv, c, me).Viewnum >= nv.Viewnum
           /\ DistinctRoles(nv) => DistinctRoles(Reassign(nv, c, me))
           /\ nv.Viewnum = Reassign(nv, c, me).Viewnum => Reassign(nv, c, me) = nv
<1> DEFINE r == Reassign(nv, c, me)
<1> SUFFICES /\ r \in View
             /\ r.Viewnum >= nv.Viewnum
             /\ DistinctRoles(nv) => DistinctRoles(r)
             /\ nv.Viewnum = r.Viewnum => r = nv
  OBVIOUS
<1> USE DEF View, DistinctRoles
<1>1. CASE nv.Primary = None /\ nv.Backup = None
  <2>1. r = [Viewnum |-> nv.Viewnum + 1, Primary |-> me, Backup |-> None]
    BY <1>1 DEF Reassign
  <2> HIDE DEF r
  <2> QED
    BY <1>1, <2>1, NoneAssumption
<1>2. CASE nv.Primary = None /\ nv.Backup # None /\ c
  <2>1. r = [Viewnum |-> nv.Viewnum + 1, Primary |-> nv.Backup,
             Backup |-> IF nv.Backup = me THEN None ELSE me]
    BY <1>2 DEF Reassign
  <2> HIDE DEF r
  <2> QED
    BY <1>2, <2>1, NoneAssumption
<1>3. CASE nv.Primary # None /\ nv.Backup = None /\ nv.Primary # me
  <2>1. r = [Viewnum |-> nv.Viewnum + 1, Primary |-> nv.Primary, Backup |-> me]
    BY <1>3 DEF Reassign
  <2> HIDE DEF r
  <2> QED
    BY <1>3, <2>1, NoneAssumption
<1>4. CASE /\ ~ (nv.Primary = None /\ nv.Backup = None)
           /\ ~ (nv.Primary = None /\ nv.Backup # None /\ c)
           /\ ~ (nv.Primary # None /\ nv.Backup = None /\ nv.Primary # me)
  <2>1. r = nv
    BY <1>4 DEF Reassign
  <2> HIDE DEF r
  <2> QED
    BY <2>1
<1> QED
  BY <1>1, <1>2, <1>3, <1>4

\* The view prepared by a ping, and the flags it computes.
LEMMA PreparedType ==
    ASSUME VSTypeOK, NEW me \in Servers, NEW n \in Nat
    PROVE  /\ Prepared(me, n) \in View
           /\ CanPromote(me, n) \in BOOLEAN
           /\ Acked(me, n) \in BOOLEAN
<1>1. CanPromote(me, n) \in BOOLEAN /\ Acked(me, n) \in BOOLEAN
  BY DEF CanPromote, Acked, VSTypeOK, View
<1>2. WithoutRestarted(me, n) \in View
  BY DEF WithoutRestarted, VSTypeOK, View
<1> QED
  BY <1>1, <1>2, ReassignFacts DEF Prepared

\* A handler of the view server keeps the types of its state.
LEMMA PingType ==
    ASSUME VSTypeOK, NEW me \in Servers, NEW n \in Nat,
           PingAccepted(me, n) \/ PingRejected(me, n)
    PROVE  VSTypeOK'
<1>1. age' \in [Servers -> 0 .. DeadPings + 1]
  BY DeadPingsAssumption DEF VSTypeOK, PingAccepted, PingRejected, PingFirst, PingAdopt, PingKeep, Touch
<1>2. CASE PingRejected(me, n)
  BY <1>1, <1>2 DEF VSTypeOK, PingRejected
<1>3. CASE PingFirst(me, n)
  <2>1. newView' \in View
    BY <1>3 DEF VSTypeOK, PingFirst, View
  <2> QED
    BY <1>1, <1>3, <2>1 DEF VSTypeOK, PingFirst
<1>4. CASE PingAdopt(me, n)
  <2> DEFINE p == Prepared(me, n)
  <2>1. newView' \in View
    <3>1. p \in View /\ view \in View
      BY PreparedType DEF VSTypeOK
    <3>2. newView' = [Viewnum |-> view.Viewnum + 1, Primary |-> p.Primary, Backup |-> p.Backup]
      BY <1>4 DEF PingAdopt, Renumbered
    <3> QED
      BY <3>1, <3>2 DEF View
  <2> QED
    BY <1>1, <1>4, <2>1, PreparedType DEF VSTypeOK, PingAdopt
<1>5. CASE PingKeep(me, n)
  BY <1>1, <1>5, PreparedType DEF VSTypeOK, PingKeep
<1> QED
  BY <1>2, <1>3, <1>4, <1>5 DEF PingAccepted

\* tick keeps the types of the view server's state (server.go).
LEMMA TickType == ASSUME VSTypeOK, Tick PROVE VSTypeOK'
  BY DEF VSTypeOK, Tick, View

\* The passing of time keeps them: ages stop at DeadPings + 1.
LEMMA ElapseType == ASSUME VSTypeOK, Elapse PROVE VSTypeOK'
<1>1. ASSUME NEW s \in Servers
      PROVE  (IF age[s] > DeadPings THEN DeadPings + 1 ELSE age[s] + 1) \in 0 .. DeadPings + 1
  <2>1. age[s] \in 0 .. DeadPings + 1
    BY DEF VSTypeOK
  <2> QED
    BY <2>1, DeadPingsAssumption
<1>2. age' \in [Servers -> 0 .. DeadPings + 1]
  BY <1>1 DEF Elapse
<1> QED
  BY <1>2 DEF VSTypeOK, Elapse

\* A new view server has them, at the beginning and after a crash.
LEMMA StartType == (VSStart => VSTypeOK') /\ (VSInit => VSTypeOK)
<1>1. NoView \in View
  BY DEF NoView, View
<1>2. [s \in Servers |-> DeadPings + 1] \in [Servers -> 0 .. DeadPings + 1]
  BY DeadPingsAssumption
<1> QED
  BY <1>1, <1>2 DEF VSStart, VSInit, VSTypeOK

-----------------------------------------------------------------------------
(* The view server's inductive invariant.                                  *)

\* Only the primary of a view acknowledges it, so a view without one is never
\* acknowledged.
EmptyUnacked == view.Primary = None => ~ update

\* Until a server pings, nothing is prepared either.
FreshView == view.Viewnum = 0 => view = NoView /\ newView = NoView

VSInv == RolesDistinct /\ PendingChangeNumbered /\ EmptyUnacked /\ FreshView

\* A new view server has no view, no role and no pending change.
LEMMA StartInv == (VSInit => VSInv) /\ (VSStart => VSInv')
<1> USE DEF VSInv, RolesDistinct, DistinctRoles, PendingChangeNumbered, EmptyUnacked, FreshView, NoView
<1>1. VSInit => VSInv
  BY DEF VSInit
<1>2. VSStart => VSInv'
  BY DEF VSStart
<1> QED
  BY <1>1, <1>2

\* The preparation of the next view keeps what VSInv says of it.
LEMMA PreparedInv ==
    ASSUME VSTypeOK, VSInv, NEW me \in Servers, NEW n \in Nat
    PROVE  LET p == Prepared(me, n)
           IN  /\ DistinctRoles(p)
               /\ view.Viewnum <= p.Viewnum
               /\ p.Viewnum = view.Viewnum =>
                     p.Backup = view.Backup /\ p.Primary \in {view.Primary, None}
<1> DEFINE w == WithoutRestarted(me, n)
           p == Prepared(me, n)
<1>1. /\ w \in View
      /\ DistinctRoles(w)
      /\ w.Viewnum = newView.Viewnum
      /\ w.Backup = newView.Backup
      /\ w.Primary \in {newView.Primary, None}
  BY DEF WithoutRestarted, VSInv, RolesDistinct, DistinctRoles, VSTypeOK, View
<1>2. /\ p \in View
      /\ p.Viewnum >= w.Viewnum
      /\ DistinctRoles(w) => DistinctRoles(p)
      /\ w.Viewnum = p.Viewnum => p = w
  BY <1>1, ReassignFacts, PreparedType DEF Prepared, CanPromote
<1>3. view.Viewnum \in Nat /\ newView.Viewnum \in Nat /\ p.Viewnum \in Nat
  BY <1>2 DEF VSTypeOK, View
<1> HIDE DEF p, w
<1>4. DistinctRoles(p) /\ view.Viewnum <= p.Viewnum
  BY <1>1, <1>2, <1>3 DEF VSInv, PendingChangeNumbered
<1>5. ASSUME p.Viewnum = view.Viewnum
      PROVE  p.Backup = view.Backup /\ p.Primary \in {view.Primary, None}
  <2>1. newView.Viewnum = view.Viewnum /\ p = w
    BY <1>1, <1>2, <1>3, <1>5 DEF VSInv, PendingChangeNumbered
  <2> QED
    BY <1>1, <2>1 DEF VSInv, PendingChangeNumbered
<1> QED
  BY <1>4, <1>5 DEF p

\* A Ping keeps the invariant, in whichever of its branches it ends.
LEMMA PingInv ==
    ASSUME VSTypeOK, VSInv, NEW me \in Servers, NEW n \in Nat,
           PingAccepted(me, n) \/ PingRejected(me, n)
    PROVE  VSInv'
<1> USE DEF RolesDistinct, DistinctRoles, EmptyUnacked, FreshView, VSInv
<1>1. CASE PingRejected(me, n)
  BY <1>1 DEF PingRejected, PendingChangeNumbered
<1>2. CASE PingFirst(me, n)
  <2>1. newView' = [Viewnum |-> 1, Primary |-> me, Backup |-> None]
    BY <1>2 DEF PingFirst, NoView
  <2> QED
    BY <1>2, <2>1, NoneAssumption DEF PingFirst, PendingChangeNumbered
<1>3. CASE PingAdopt(me, n)
  <2>1. newView' = [Viewnum |-> view.Viewnum + 1, Primary |-> Prepared(me, n).Primary,
                    Backup |-> Prepared(me, n).Backup]
    BY <1>3 DEF PingAdopt, Renumbered
  <2>2. view' = newView' /\ ~ update' /\ view.Viewnum \in Nat
    BY <1>3 DEF PingAdopt, VSTypeOK, View
  <2> QED
    BY <2>1, <2>2, PreparedInv DEF PendingChangeNumbered
<1>4. CASE PingKeep(me, n)
  <2>1. newView' = Prepared(me, n) /\ view' = view /\ view.Viewnum # 0
    BY <1>4 DEF PingKeep
  <2>2. EmptyUnacked'
    BY <1>4, NoneAssumption DEF PingKeep, Acked
  <2> QED
    BY <2>1, <2>2, PreparedInv DEF PendingChangeNumbered
<1> QED
  BY <1>1, <1>2, <1>3, <1>4 DEF PingAccepted

\* tick takes roles away and numbers the change; the invariant stays.
LEMMA TickInv == ASSUME VSTypeOK, VSInv, Tick PROVE VSInv'
<1> DEFINE p == Expired(newView.Primary)
           b == Expired(newView.Backup)
<1>1. /\ newView'.Viewnum = newView.Viewnum + (IF p THEN 1 ELSE 0) + (IF b THEN 1 ELSE 0)
      /\ newView'.Primary = IF p THEN None ELSE newView.Primary
      /\ newView'.Backup = IF b THEN None ELSE newView.Backup
      /\ UNCHANGED <<view, update>>
  BY DEF Tick
<1>2. newView = NoView => newView' = NoView
  BY DEF Tick, Expired, NoView
<1>3. view.Viewnum \in Nat /\ newView.Viewnum \in Nat
  BY DEF VSTypeOK, View
<1> HIDE DEF p, b
<1>4. PendingChangeNumbered'
  BY <1>1, <1>3 DEF VSInv, PendingChangeNumbered
<1>5. RolesDistinct'
  BY <1>1 DEF VSInv, RolesDistinct, DistinctRoles
<1> QED
  BY <1>1, <1>2, <1>4, <1>5 DEF VSInv, EmptyUnacked, FreshView

\* It is about the views and the update flag only.
LEMMA SameInv == ASSUME VSInv, UNCHANGED <<view, newView, update>> PROVE VSInv'
  BY DEF VSInv, RolesDistinct, DistinctRoles, PendingChangeNumbered, EmptyUnacked, FreshView
=============================================================================
