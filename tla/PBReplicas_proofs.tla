------------------------- MODULE PBReplicas_proofs -------------------------
(***************************************************************************)
(* Theorems: primary and backup hold the same database once the primary    *)
(* has acknowledged the view they share and no Put is under way at it, if  *)
(* servers do nothing worse than crash, whatever the interleaving of       *)
(* ticks, transfers and forwarded Puts; and the service implements the     *)
(* register of its clerks.                                                 *)
(***************************************************************************)
EXTENDS PBService_proofs

-----------------------------------------------------------------------------
(* The views that servers have heard of.                                   *)

\* Numbers grow, and two views with the current number are one.
NumberOK(v) == v.Viewnum <= view.Viewnum /\ (v.Viewnum = view.Viewnum => v = view)

\* A backup that is up has that role until it takes over.
BackupOK(v) ==
    v.Backup \in up =>
        \/ newView.Backup = v.Backup /\ newView.Primary \in {v.Primary, None}
        \/ newView.Primary = v.Backup

HeardInv ==
    /\ BackupOK(view)
    /\ \A s \in up :
          /\ NumberOK(pbview[s]) /\ BackupOK(pbview[s])
          /\ ~ Resting(s) =>
                /\ NumberOK(TickFrame(s).arg) /\ BackupOK(TickFrame(s).arg)
                /\ pbview[s].Viewnum <= TickFrame(s).arg.Viewnum

\* Only a server that has the view acknowledges it, and not in the tick that
\* fills the new backup.
AckInv ==
    update =>
        /\ view.Primary \in up => pbview[view.Primary] = view
        /\ \A s \in up : ~ Resting(s) /\ TickFrame(s).pc # "start" => pbview[s] # view

\* In view v server b is the backup of p, or has taken over.
Backs(v, p, b) == (v.Backup = b /\ v.Primary \in {p, None}) \/ v.Primary = b

\* A role in view v of a server that is up is one in the current view.
RoleOK(v) ==
    /\ v.Primary \in up => view.Primary = v.Primary
    /\ v.Backup \in up => Backs(view, v.Primary, v.Backup)

\* What servers have heard of each other's roles stays true, and a server that
\* is about to adopt a view keeps the backup it has, if that is up.
RoleInv ==
    \A s \in up :
        /\ RoleOK(pbview[s])
        /\ ~ Resting(s) =>
              /\ RoleOK(TickFrame(s).arg)
              /\ pbview[s].Backup \in up =>
                    Backs(TickFrame(s).arg, pbview[s].Primary, pbview[s].Backup)

-----------------------------------------------------------------------------
(* A server hears of a view in the answer to its ping.                     *)

\* Views, as heard, are views.
LEMMA HeardViews ==
    ASSUME PBInv
    PROVE  /\ view \in View /\ newView \in View /\ update \in BOOLEAN /\ up \subseteq Servers
           /\ None \notin Servers
           /\ \A s \in Servers :
                 /\ pbview[s] \in View
                 /\ ~ Resting(s) => TickFrame(s).arg \in View
<1>1. view \in View /\ newView \in View /\ update \in BOOLEAN /\ up \subseteq Servers
  BY ServiceData DEF VSTypeOK
<1>2. ASSUME NEW s \in Servers, ~ Resting(s) PROVE TickFrame(s).arg \in View
  <2>1. Live(s) \in Threads /\ Live(s)[2] = "live" /\ stack[Live(s)] # <<>>
    BY <1>2, TickThread DEF Resting
  <2>2. StackOK(Live(s), stack[Live(s)], env, puts, stored) /\ Len(stack[Live(s)]) \in Nat \ {0}
    BY <2>1, TopFrame DEF PBInv, Core
  <2>3. 1 \in 1 .. Len(stack[Live(s)])
    BY <2>2
  <2>4. /\ TickFrame(s).op \in BottomOps /\ TickFrame(s).at = s
        /\ FrameOK(TickFrame(s), env, puts, stored)
    BY <2>1, <2>2, <2>3, TickThread DEF StackOK, BottomOK, FramesOK, TickFrame
  <2> QED
    BY <2>4, Constants DEF FrameOK, PlaceOK, ArgOK, BottomOps
<1> QED
  BY <1>1, <1>2, ServiceData, Constants

\* No view is adopted, acknowledged or prepared, and no tick goes on to send.
HeardKept ==
    /\ UNCHANGED <<view, newView, update>> /\ up' \subseteq up
    /\ \A s \in up' :
          /\ pbview'[s] = pbview[s]
          /\ ~ Resting(s)' =>
                /\ ~ Resting(s) /\ TickFrame(s).arg' = TickFrame(s).arg
                /\ (TickFrame(s).pc # "start")' => TickFrame(s).pc # "start"

\* So the invariants of what servers have heard hold on.
LEMMA HeardSame ==
    ASSUME HeardKept
    PROVE  /\ HeardInv /\ AckInv => HeardInv' /\ AckInv'
           /\ RoleInv => RoleInv'
<1>1. \A v : (NumberOK(v) => NumberOK(v)') /\ (BackupOK(v) => BackupOK(v)')
  BY DEF NumberOK, BackupOK, HeardKept
<1>2. HeardInv /\ AckInv => HeardInv' /\ AckInv'
  BY <1>1 DEF HeardInv, AckInv, NumberOK, BackupOK, HeardKept
<1>3. RoleInv => RoleInv'
  BY DEF RoleInv, RoleOK, Backs, HeardKept
<1> QED
  BY <1>2, <1>3

\* ... as in a handler.
LEMMA HeardTicksKept ==
    ASSUME UNCHANGED <<view, newView, update, pbview, up>>, up \subseteq Servers, TicksKept
    PROVE  HeardKept
  BY DEF HeardKept, TicksKept, BottomKept, Resting, TickFrame

\* A ping replaces the view by the next one, with a new number, or leaves it and
\* lets the primary acknowledge it; a backup keeps its role or takes over.
LEMMA PingHeard ==
    ASSUME VSTypeOK, VSInv, NEW s \in Servers, NEW n \in Nat, PingAccepted(s, n),
           view.Primary = s => n # 0
    PROVE  /\ \/ view' = view /\ (update' => update \/ (view.Primary = s /\ view.Viewnum = n))
              \/ view' = newView' /\ view'.Viewnum = view.Viewnum + 1 /\ ~ update'
           /\ \A p \in Servers \cup {None}, b \in Servers : Backs(newView, p, b) => Backs(newView', p, b)
<1> DEFINE w == WithoutRestarted(s, n)
           p == Prepared(s, n)
<1>1. newView \in View /\ view \in View /\ None \notin Servers
  BY Constants DEF VSTypeOK
<1>2. w = newView
  BY DEF WithoutRestarted
<1>3. \A q \in Servers \cup {None}, b \in Servers : Backs(newView, q, b) => Backs(p, q, b)
  BY <1>1, <1>2, ReassignFacts DEF Prepared, Reassign, View, Backs
<1> HIDE DEF p
<1>4. CASE PingFirst(s, n)
  <2>1. newView = NoView /\ view = NoView /\ ~ update
    BY <1>1, <1>4 DEF PingFirst, VSInv, FreshView, EmptyUnacked, NoView
  <2>2. newView' = [Viewnum |-> 1, Primary |-> s, Backup |-> None] /\ view' = newView' /\ update' = update
    BY <1>4, <2>1 DEF PingFirst, NoView
  <2> QED
    BY <1>1, <2>1, <2>2 DEF NoView, Backs
<1>5. CASE PingAdopt(s, n)
  <2>1. newView' = Renumbered(p, view.Viewnum + 1) /\ view' = newView' /\ ~ update'
    BY <1>5 DEF PingAdopt, p
  <2>2. newView'.Primary = p.Primary /\ newView'.Backup = p.Backup /\ newView'.Viewnum = view.Viewnum + 1
    BY <2>1 DEF Renumbered
  <2> QED
    BY <1>3, <2>1, <2>2 DEF Backs
<1>6. CASE PingKeep(s, n)
  <2>1. newView' = p /\ view' = view /\ (update' = Acked(s, n))
    BY <1>6 DEF PingKeep, p
  <2> QED
    BY <1>3, <2>1 DEF Acked
<1> QED
  BY <1>4, <1>5, <1>6 DEF PingAccepted

\* A ping: the server has heard of the view that is served now.
LEMMA TickPingHeard ==
    ASSUME PBInv, FailStop, HeardInv, AckInv, NEW s \in Servers, TickPing(s)
    PROVE  HeardInv' /\ AckInv'
<1> DEFINE n == pbview[s].Viewnum
<1>1. /\ s \in up /\ Resting(s) /\ PingAccepted(s, n) /\ up' = up /\ pbview' = pbview
      /\ stack' = [stack EXCEPT ![Live(s)] = << Frame(s, "Tick", view') >>]
  BY DEF TickPing, Resting, pbVars
<1>2. /\ VSTypeOK /\ VSInv /\ ViewsInv /\ PrimaryInv /\ n \in Nat /\ n <= view.Viewnum
      /\ view.Viewnum \in Nat
  BY <1>1, ServiceData, HeardViews DEF PBInv, ViewsInv, HeardInv, NumberOK, View
<1>3. view.Primary = s => n # 0
  BY <1>1, <1>2 DEF PrimaryInv
<1>4. /\ \/ view' = view /\ (update' => update \/ (view.Primary = s /\ view.Viewnum = n))
         \/ view' = newView' /\ view'.Viewnum = view.Viewnum + 1 /\ ~ update'
      /\ \A p \in Servers \cup {None}, b \in Servers : Backs(newView, p, b) => Backs(newView', p, b)
  BY <1>1, <1>2, <1>3, PingHeard
<1>5. stack \in [Threads -> Seq(Frames)] /\ Live(s) \in Threads
  BY ServiceData, TickThread
<1>6. ~ Resting(s)' /\ TickFrame(s)'.arg = view' /\ TickFrame(s)'.pc = "start"
  <2>1. stack'[Live(s)] = << Frame(s, "Tick", view') >>
    BY <1>1, <1>5
  <2> QED
    BY <2>1 DEF Resting, TickFrame, Frame
<1>7. \A q \in Servers : q # s => (Resting(q)' <=> Resting(q)) /\ TickFrame(q)' = TickFrame(q)
  <2>1. Others(Live(s))
    BY <1>1, <1>5 DEF Others
  <2> QED
    BY <2>1, OtherTicks DEF Resting, TickFrame
<1>8. ASSUME NEW v \in View, NumberOK(v) PROVE NumberOK(v)' /\ v.Viewnum <= view'.Viewnum
  BY <1>2, <1>4, <1>8 DEF NumberOK, View
<1>9. ASSUME NEW v \in View, BackupOK(v) PROVE BackupOK(v)'
  <2>1. v.Primary \in Servers \cup {None} /\ (v.Backup \in up => v.Backup \in Servers)
    BY HeardViews DEF View
  <2>2. v.Backup \in up => Backs(newView, v.Primary, v.Backup)
    BY <1>9 DEF BackupOK, Backs
  <2>3. v.Backup \in up => Backs(newView', v.Primary, v.Backup)
    BY <1>4, <2>1, <2>2
  <2> QED
    BY <1>1, <2>3 DEF BackupOK, Backs
<1>10. BackupOK(view)'
  <2>1. CASE view' = view
    <3>1. BackupOK(view)
      BY DEF HeardInv
    <3> QED
      BY <1>2, <1>9, <2>1, <3>1, HeardViews DEF BackupOK
  <2>2. CASE view' = newView'
    BY <2>2 DEF BackupOK
  <2> QED
    BY <1>4, <2>1, <2>2
<1>11. NumberOK(view)'
  <2>1. view'.Viewnum \in Nat
    BY <1>2, <1>4
  <2> QED
    BY <2>1 DEF NumberOK
<1>12. HeardInv'
  <2> SUFFICES ASSUME NEW q \in up
               PROVE  /\ NumberOK(pbview[q])' /\ BackupOK(pbview[q])'
                      /\ ~ Resting(q)' =>
                            /\ NumberOK(TickFrame(q).arg)' /\ BackupOK(TickFrame(q).arg)'
                            /\ pbview[q].Viewnum <= TickFrame(q)'.arg.Viewnum
    BY <1>1, <1>10 DEF HeardInv
  <2>1. /\ q \in Servers /\ pbview[q] \in View
        /\ NumberOK(pbview[q]) /\ BackupOK(pbview[q])
    BY HeardViews DEF HeardInv
  <2>2. NumberOK(pbview[q])' /\ BackupOK(pbview[q])' /\ pbview[q].Viewnum <= view'.Viewnum
    BY <1>1, <1>8, <1>9, <2>1 DEF NumberOK, BackupOK
  <2>3. CASE q = s
    BY <1>6, <1>10, <1>11, <2>2, <2>3 DEF NumberOK, BackupOK
  <2>4. CASE q # s /\ ~ Resting(q)'
    <3> DEFINE v == TickFrame(q).arg
    <3>1. ~ Resting(q) /\ TickFrame(q)' = TickFrame(q)
      BY <1>7, <2>1, <2>4
    <3>2. v \in View /\ NumberOK(v) /\ BackupOK(v) /\ pbview[q].Viewnum <= v.Viewnum
      BY <2>1, <3>1, HeardViews DEF HeardInv
    <3>3. TickFrame(q)'.arg = v
      BY <3>1
    <3> HIDE DEF v
    <3> QED
      BY <1>8, <1>9, <2>2, <3>2, <3>3 DEF NumberOK, BackupOK
  <2> QED
    BY <2>2, <2>3, <2>4
<1>13. AckInv'
  <2> SUFFICES ASSUME update'
               PROVE  /\ view'.Primary \in up => pbview[view'.Primary] = view'
                      /\ \A q \in up : (~ Resting(q) /\ TickFrame(q).pc # "start")' => pbview[q] # view'
    BY <1>1 DEF AckInv
  <2>1. view' = view /\ (update \/ (view.Primary = s /\ view.Viewnum = n))
    BY <1>4
  <2>2. view.Primary = s /\ view.Viewnum = n => pbview[s] = view
    BY <1>1 DEF HeardInv, NumberOK
  <2>3. view'.Primary \in up => pbview[view'.Primary] = view'
    BY <2>1, <2>2 DEF AckInv
  <2>4. ASSUME NEW q \in up, (~ Resting(q) /\ TickFrame(q).pc # "start")' PROVE pbview[q] # view'
    <3>1. q \in Servers /\ q # s
      BY <1>6, <2>4, HeardViews
    <3>2. ~ Resting(q) /\ TickFrame(q).pc # "start"
      BY <1>7, <2>4, <3>1
    <3>3. pbview[q].Primary = q
      BY <1>2, <3>1, <3>2 DEF ViewsInv
    <3> QED
      BY <2>1, <3>1, <3>2, <3>3 DEF AckInv
  <2> QED
    BY <2>3, <2>4
<1> QED
  BY <1>12, <1>13

\* A view is adopted: in the tick that adopts the current view, its primary has
\* not acknowledged it.
LEMMA TickViewHeard ==
    ASSUME PBInv, FailStop, HeardInv, AckInv, NEW s \in Servers, TickView(s)
    PROVE  HeardInv' /\ AckInv'
<1>0. PICK v \in View : v = TickFrame(s).arg
  BY TickViewStep
<1> DEFINE fills == v.Primary = s /\ v.Backup \notin {pbview[s].Backup, None}
<1>1. /\ s \in up /\ ~ Resting(s) /\ v \in View /\ pbview' = [pbview EXCEPT ![s] = v]
      /\ UNCHANGED <<vsVars, up>> /\ Others(Live(s)) /\ Len(stack[Live(s)]) = 1
      /\ \/ ~ fills /\ Resting(s)'
         \/ fills /\ ~ Resting(s)' /\ TickFrame(s)'.arg = v
  <2>1. \A st : Len(st) = 1 => st # <<>>
    OBVIOUS
  <2> QED
    BY <1>0, <2>1, TickViewStep DEF Resting, TickFrame, Like
<1>2. /\ NumberOK(v) /\ BackupOK(v) /\ pbview[s].Viewnum <= v.Viewnum
      /\ pbview[s] \in View /\ view \in View
  BY <1>0, <1>1, HeardViews DEF HeardInv
<1>3. \A q \in Servers : q # s =>
         (Resting(q)' <=> Resting(q)) /\ TickFrame(q)' = TickFrame(q) /\ pbview'[q] = pbview[q]
  BY <1>1, OtherTicks, ServiceData DEF Resting, TickFrame
<1>4. pbview'[s] = v /\ (\A w : (NumberOK(w)' <=> NumberOK(w)) /\ (BackupOK(w)' <=> BackupOK(w)))
  BY <1>1, ServiceData DEF NumberOK, BackupOK, vsVars
<1>5. up \subseteq Servers /\ update' = update /\ view' = view /\ newView' = newView /\ up' = up
  BY <1>1, ServiceData DEF vsVars
<1>6. update /\ view.Primary = s => pbview[s] = view /\ v = view
  BY <1>1, <1>2 DEF AckInv, NumberOK, View
<1>7. NumberOK(v)' /\ BackupOK(v)' /\ v.Viewnum <= v.Viewnum
  BY <1>1, <1>2, <1>4, <1>5 DEF View, NumberOK, BackupOK
<1>8. BackupOK(view)'
  BY <1>4, <1>5 DEF HeardInv, BackupOK
<1>9. ASSUME NEW q \in up
      PROVE  /\ NumberOK(pbview[q])' /\ BackupOK(pbview[q])'
             /\ ~ Resting(q)' =>
                   /\ NumberOK(TickFrame(q).arg)' /\ BackupOK(TickFrame(q).arg)'
                   /\ pbview'[q].Viewnum <= TickFrame(q)'.arg.Viewnum
  <2>1. CASE q = s
    BY <1>1, <1>4, <1>7, <2>1 DEF NumberOK, BackupOK
  <2>2. CASE q # s
    BY <1>3, <1>4, <1>5, <2>2 DEF HeardInv, NumberOK, BackupOK
  <2> QED
    BY <2>1, <2>2
<1>10. HeardInv'
  BY <1>5, <1>8, <1>9 DEF HeardInv
<1>11. AckInv'
  <2> SUFFICES ASSUME update
               PROVE  /\ view.Primary \in up => pbview'[view.Primary] = view
                      /\ \A q \in up : (~ Resting(q) /\ TickFrame(q).pc # "start")' => pbview'[q] # view
    BY <1>5 DEF AckInv
  <2>1. view.Primary \in up => pbview'[view.Primary] = view
    BY <1>3, <1>4, <1>5, <1>6 DEF AckInv
  <2>2. \A q \in up : q # s => ((~ Resting(q) /\ TickFrame(q).pc # "start")' => pbview'[q] # view)
    BY <1>3, <1>5 DEF AckInv
  <2>3. ~ Resting(s)' => v # view
    BY <1>1, <1>6
  <2> QED
    BY <1>4, <2>1, <2>2, <2>3
<1> QED
  BY <1>10, <1>11

\* The view server's tick drops no backup that is up.
LEMMA VSTickHeard == ASSUME PBInv, FailStop, HeardInv, AckInv, VSTick PROVE HeardInv' /\ AckInv'
<1>1. /\ view' = view /\ update' = update /\ up' = up /\ pbview' = pbview /\ stack' = stack
      /\ newView'.Primary = (IF Expired(newView.Primary) THEN None ELSE newView.Primary)
      /\ newView'.Backup = (IF Expired(newView.Backup) THEN None ELSE newView.Backup)
  BY DEF VSTick, Tick, pbVars
<1>2. \A s \in up : s \in {newView.Primary, newView.Backup} => ~ Expired(s)
  <2>1. \A s \in up : age[s] \in Int /\ (s \in {newView.Primary, newView.Backup} => age[s] <= DeadPings)
    BY ServiceData DEF PBInv, PrimaryInv, VSTypeOK
  <2> QED
    BY <2>1, DeadPingsAssumption DEF Expired
<1>3. ASSUME NEW v \in View, BackupOK(v) PROVE BackupOK(v)'
  BY <1>1, <1>2, <1>3 DEF BackupOK
<1>4. \A v : NumberOK(v)' <=> NumberOK(v)
  BY <1>1 DEF NumberOK
<1>5. \A s \in Servers : (Resting(s)' <=> Resting(s)) /\ TickFrame(s)' = TickFrame(s)
  BY <1>1 DEF Resting, TickFrame
<1>6. BackupOK(view)'
  BY <1>1, <1>3, HeardViews DEF HeardInv, BackupOK
<1>7. ASSUME NEW q \in up
      PROVE  /\ NumberOK(pbview[q])' /\ BackupOK(pbview[q])'
             /\ ~ Resting(q)' =>
                   /\ NumberOK(TickFrame(q).arg)' /\ BackupOK(TickFrame(q).arg)'
                   /\ pbview'[q].Viewnum <= TickFrame(q)'.arg.Viewnum
  <2>1. q \in Servers /\ pbview[q] \in View /\ (~ Resting(q) => TickFrame(q).arg \in View)
    BY HeardViews
  <2>2. NumberOK(pbview[q])' /\ BackupOK(pbview[q])'
    BY <1>1, <1>3, <1>4, <2>1 DEF HeardInv, NumberOK, BackupOK
  <2>3. ASSUME ~ Resting(q) PROVE NumberOK(TickFrame(q).arg)' /\ BackupOK(TickFrame(q).arg)'
    <3>0. PICK v \in View : v = TickFrame(q).arg
      BY <2>1, <2>3
    <3>1. NumberOK(v) /\ BackupOK(v)
      BY <2>3, <3>0 DEF HeardInv
    <3>2. TickFrame(q)'.arg = v
      BY <1>5, <2>1, <3>0
    <3> QED
      BY <1>3, <1>4, <3>1, <3>2 DEF NumberOK, BackupOK
  <2> QED
    BY <1>1, <1>5, <2>1, <2>2, <2>3 DEF HeardInv
<1>8. HeardInv'
  BY <1>1, <1>6, <1>7 DEF HeardInv
<1>9. AckInv'
  BY <1>1, <1>5, HeardViews DEF AckInv
<1> QED
  BY <1>8, <1>9

\* A ping: the view that is served now says who backs whom.
LEMMA TickPingRoles ==
    ASSUME PBInv, FailStop, HeardInv, RoleInv, NEW s \in Servers, TickPing(s)
    PROVE  RoleInv'
<1> DEFINE n == pbview[s].Viewnum
<1>1. /\ s \in up /\ Resting(s) /\ PingAccepted(s, n) /\ up' = up /\ pbview' = pbview
      /\ stack' = [stack EXCEPT ![Live(s)] = << Frame(s, "Tick", view') >>]
  BY DEF TickPing, Resting, pbVars
<1>2. /\ VSTypeOK /\ VSInv /\ PrimaryInv /\ n \in Nat /\ up \in SUBSET Servers
  BY <1>1, ServiceData, HeardViews DEF PBInv, ViewsInv, View
<1>3. view.Primary = s => n # 0
  BY <1>1, <1>2 DEF PrimaryInv
<1>4. /\ view' = view \/ view' = newView'
      /\ \A p \in Servers \cup {None}, b \in Servers : Backs(newView, p, b) => Backs(newView', p, b)
  BY <1>1, <1>2, <1>3, PingHeard
<1>5. \A q \in up : view.Primary = q => view'.Primary = q
  BY <1>1, <1>2, <1>3, PingRoles DEF PrimaryInv
<1>6. stack'[Live(s)] = << Frame(s, "Tick", view') >> /\ Others(Live(s))
  BY <1>1, ServiceData, TickThread DEF Others
<1>7. ~ Resting(s)' /\ TickFrame(s)'.arg = view'
  BY <1>6 DEF Resting, TickFrame, Frame
<1>8. \A q \in Servers : q # s => (Resting(q)' <=> Resting(q)) /\ TickFrame(q)' = TickFrame(q)
  BY <1>6, OtherTicks DEF Resting, TickFrame
<1>9. ASSUME NEW v \in View, BackupOK(v), v.Backup \in up, Backs(view, v.Primary, v.Backup)
      PROVE  Backs(view', v.Primary, v.Backup)
  <2>1. v.Primary \in Servers \cup {None} /\ v.Backup \in Servers
    BY <1>2, <1>9 DEF View
  <2>2. Backs(newView, v.Primary, v.Backup)
    BY <1>9 DEF BackupOK, Backs
  <2>3. Backs(newView', v.Primary, v.Backup)
    BY <1>4, <2>1, <2>2
  <2> QED
    BY <1>4, <1>9, <2>3
<1>10. ASSUME NEW v \in View, BackupOK(v), RoleOK(v) PROVE RoleOK(v)'
  BY <1>1, <1>5, <1>9, <1>10 DEF RoleOK, Backs
<1>11. RoleOK(view)'
  BY DEF RoleOK, Backs
<1> SUFFICES ASSUME NEW q \in up
             PROVE  /\ RoleOK(pbview[q])'
                    /\ ~ Resting(q)' =>
                          /\ RoleOK(TickFrame(q).arg)'
                          /\ pbview[q].Backup \in up =>
                                Backs(TickFrame(q)'.arg, pbview[q].Primary, pbview[q].Backup)
  BY <1>1 DEF RoleInv, Backs
<1>12. /\ q \in Servers /\ pbview[q] \in View /\ BackupOK(pbview[q]) /\ RoleOK(pbview[q])
  BY HeardViews DEF HeardInv, RoleInv
<1>13. RoleOK(pbview[q])'
  BY <1>1, <1>10, <1>12 DEF RoleOK, Backs
<1>14. CASE q = s
  BY <1>1, <1>7, <1>9, <1>11, <1>12, <1>13, <1>14 DEF RoleOK, Backs
<1>15. CASE q # s /\ ~ Resting(q)'
  <2> DEFINE v == TickFrame(q).arg
  <2>1. ~ Resting(q) /\ TickFrame(q)' = TickFrame(q)
    BY <1>8, <1>12, <1>15
  <2>2. v \in View /\ BackupOK(v) /\ RoleOK(v)
        /\ (pbview[q].Backup \in up => Backs(v, pbview[q].Primary, pbview[q].Backup))
    BY <1>12, <2>1, HeardViews DEF HeardInv, RoleInv
  <2>3. TickFrame(q)'.arg = v
    BY <2>1
  <2> HIDE DEF v
  <2> QED
    BY <1>10, <1>13, <2>2, <2>3 DEF RoleOK, Backs
<1> QED
  BY <1>13, <1>14, <1>15

\* A view is adopted.
LEMMA TickViewRoles ==
    ASSUME PBInv, FailStop, RoleInv, NEW s \in Servers, TickView(s)
    PROVE  RoleInv'
<1>0. PICK v \in View : v = TickFrame(s).arg
  BY TickViewStep
<1>1. /\ s \in up /\ ~ Resting(s) /\ pbview' = [pbview EXCEPT ![s] = v]
      /\ UNCHANGED <<vsVars, up>> /\ Others(Live(s))
      /\ Resting(s)' \/ (~ Resting(s)' /\ TickFrame(s)'.arg = v)
  <2>1. \A st : Len(st) = 1 => st # <<>>
    OBVIOUS
  <2> QED
    BY <1>0, <2>1, TickViewStep DEF Resting, TickFrame, Like
<1>2. \A q \in Servers : q # s =>
         (Resting(q)' <=> Resting(q)) /\ TickFrame(q)' = TickFrame(q) /\ pbview'[q] = pbview[q]
  BY <1>1, OtherTicks, ServiceData DEF Resting, TickFrame
<1>3. /\ pbview'[s] = v /\ up \subseteq Servers /\ view' = view /\ up' = up
      /\ \A w : RoleOK(w)' <=> RoleOK(w)
  BY <1>1, ServiceData DEF RoleOK, Backs, vsVars
<1>4. RoleOK(v)' /\ Backs(v, v.Primary, v.Backup)
  <2>1. RoleOK(v)
    BY <1>0, <1>1 DEF RoleInv
  <2> QED
    BY <1>3, <2>1 DEF Backs
<1> SUFFICES ASSUME NEW q \in up
             PROVE  /\ RoleOK(pbview[q])'
                    /\ ~ Resting(q)' =>
                          /\ RoleOK(TickFrame(q).arg)'
                          /\ pbview'[q].Backup \in up =>
                                Backs(TickFrame(q)'.arg, pbview'[q].Primary, pbview'[q].Backup)
  BY <1>3 DEF RoleInv, Backs
<1>5. CASE q = s
  BY <1>1, <1>3, <1>4, <1>5 DEF RoleOK, Backs
<1>6. CASE q # s
  BY <1>2, <1>3, <1>6 DEF RoleInv, RoleOK, Backs
<1> QED
  BY <1>5, <1>6

\* The view server's tick changes only the view it prepares.
LEMMA VSTickRoles == ASSUME RoleInv, VSTick PROVE RoleInv'
  BY DEF VSTick, Tick, pbVars, RoleInv, RoleOK, Backs, Resting, TickFrame

-----------------------------------------------------------------------------
(* The values that Puts and transfers are about to copy.                   *)

\* Put, between Lock and Unlock; until the backup has answered.
Critical(f) == f.op = "Put" /\ HoldsLock(f)
Pending(f) == Critical(f) /\ (f.pc = "ret" => f.res = Fail)

\* The primary has the value of a Put that holds its mutex.
WroteInv ==
    \A t \in Threads : \A i \in 1 .. Len(stack[t]) :
        LET f == stack[t][i] IN Critical(f) => db[f.at][f.arg[1]] = f.arg[2]

\* Server p has found a new backup, and fills it next, or is doing so.
TransferDue(p) == ~ Resting(p) /\ TickFrame(p).pc \in {"lock", "wait"}

\* The primary is down, and not declared dead yet.
Orphaned ==
    /\ view.Primary \in Servers \ up /\ newView.Primary = view.Primary
    /\ age[view.Primary] <= DeadPings

\* Frame g copies for f: to the backup that f's server has now; the database
\* that it has now.
FromOK(f, g) ==
    /\ g.at = pbview[f.at].Backup
    /\ f.op = "Tick" => g.arg = db[f.at]

\* A copy that no one waits for is of a primary that is down.
Copies == {"ForwardPut", "MoveDB"}
CopyOK(t) ==
    stack[t] # <<>> /\ Top(t).op \in Copies =>
        IF Len(stack[t]) = 1 THEN Orphaned ELSE FromOK(stack[t][Len(stack[t]) - 1], Top(t))
CopiesInv == \A t \in Threads : CopyOK(t)

\* Primary and backup agree on the keys of which no Put is on its way, or the
\* backup has nothing there yet.
IsPending(p, k) ==
    \E t \in Threads : \E i \in 1 .. Len(stack[t]) :
        LET f == stack[t][i] IN Pending(f) /\ f.at = p /\ f.arg[1] = k
SyncOK(p) ==
    pbview[p].Primary = p /\ pbview[p].Backup \in up =>
        \A k \in Keys : \/ db[p][k] = db[pbview[p].Backup][k]
                        \/ IsPending(p, k)
                        \/ TransferDue(p) /\ db[pbview[p].Backup][k] = 0
SyncInv == \A p \in up : SyncOK(p)

ReplicaInv == WroteInv /\ CopiesInv /\ SyncInv

\* The backup, in the current view, that the primary has too, if that is up.
Partner(s) ==
    /\ view.Backup = s
    /\ view.Primary \in up => pbview[view.Primary].Primary = view.Primary
                              /\ pbview[view.Primary].Backup = s

\* Other servers have no data.
DataInv == \A s \in up : s # view.Primary /\ ~ Partner(s) => \A k \in Keys : db[s][k] = 0

-----------------------------------------------------------------------------
(* What a step of one thread does to them.                                 *)

\* Calls in critical sections of w are those that st has.
SameCall(g, f) == g.at = f.at /\ g.arg = f.arg
CriticalFrom(w, st) ==
    \A i \in 1 .. Len(w) :
        Critical(w[i]) => i \in 1 .. Len(st) /\ Critical(st[i]) /\ SameCall(w[i], st[i])

\* Frame i of st, if pending, is pending in w.
PendingTo(w, st, i) ==
    Pending(st[i]) => i \in 1 .. Len(w) /\ Pending(w[i]) /\ SameCall(w[i], st[i])

NoCopy(w) == w # <<>> => w[Len(w)].op \notin Copies

\* A frame moves on, not into the critical section nor with an answer.
LEMMA MovedPlain ==
    ASSUME NEW st \in Seq(Frames), st # <<>>, NEW w, NEW pc, NEW r, Moved(w, st, pc, r),
           LET f == st[Len(st)]
           IN  /\ f.op \notin Copies
               /\ f.op = "Put" /\ pc \in {"forward", "wait", "ret"} => HoldsLock(f)
               /\ Pending(f) => pc \in {"forward", "wait"} \/ (pc = "ret" /\ r = Fail)
    PROVE  /\ CriticalFrom(w, st) /\ NoCopy(w)
           /\ \A i \in 1 .. Len(st) : PendingTo(w, st, i)
<1> DEFINE n == Len(st)
<1>1. /\ n \in Nat \ {0} /\ Len(w) = n /\ w[n].op = st[n].op /\ w[n].pc = pc /\ w[n].res = r
      /\ SameCall(w[n], st[n]) /\ \A i \in 1 .. n : i # n => w[i] = st[i]
  BY DEF Moved, Like, SameCall
<1>2. Critical(w[n]) => Critical(st[n])
  BY <1>1 DEF Critical, HoldsLock
<1>3. Pending(st[n]) => Pending(w[n])
  BY <1>1 DEF Pending, Critical, HoldsLock
<1> HIDE DEF n
<1>4. CriticalFrom(w, st)
  BY <1>1, <1>2 DEF CriticalFrom, SameCall, n
<1>5. \A i \in 1 .. n : PendingTo(w, st, i)
  BY <1>1, <1>3 DEF PendingTo, SameCall
<1> QED
  BY <1>1, <1>4, <1>5 DEF NoCopy, n

\* A frame calls, a Put from within its critical section.
LEMMA CalledPlain ==
    ASSUME NEW st \in Seq(Frames), st # <<>>, NEW w, NEW g, Called(w, st, g), g.pc = "start",
           st[Len(st)].op = "Put" => HoldsLock(st[Len(st)])
    PROVE  /\ CriticalFrom(w, st)
           /\ \A i \in 1 .. Len(st) : PendingTo(w, st, i)
<1> DEFINE n == Len(st)
<1>1. /\ n \in Nat \ {0} /\ Len(w) = n + 1 /\ w[n].op = st[n].op /\ w[n].pc = "wait"
      /\ SameCall(w[n], st[n]) /\ w[n + 1] = g /\ \A i \in 1 .. n : i # n => w[i] = st[i]
  BY DEF Called, Like, SameCall
<1>2. Critical(w[n]) => Critical(st[n])
  BY <1>1 DEF Critical, HoldsLock
<1>3. Pending(st[n]) => Pending(w[n])
  BY <1>1 DEF Pending, Critical, HoldsLock
<1>4. ~ Critical(w[n + 1])
  BY <1>1 DEF Critical, HoldsLock
<1> HIDE DEF n
<1>5. CriticalFrom(w, st)
  BY <1>1, <1>2, <1>4 DEF CriticalFrom, SameCall, n
<1>6. \A i \in 1 .. n : PendingTo(w, st, i)
  BY <1>1, <1>3 DEF PendingTo, SameCall
<1> QED
  BY <1>5, <1>6 DEF n

\* A frame ends; if it was a ForwardPut, the Put below may be pending no longer.
LEMMA EndedPlain ==
    ASSUME NEW st \in Seq(Frames), st # <<>>, LinksOK(st), NEW w, NEW r, Ended(w, st, r)
    PROVE  /\ CriticalFrom(w, st) /\ NoCopy(w)
           /\ \A i \in 1 .. Len(st) - 1 :
                 i # Len(st) - 1 \/ st[Len(st)].op # "ForwardPut" => PendingTo(w, st, i)
<1> DEFINE n == Len(st)
           m == n - 1
<1>1. n \in Nat \ {0}
  OBVIOUS
<1>2. CASE n = 1
  BY <1>2 DEF Ended, CriticalFrom, NoCopy
<1>3. CASE n # 1
  <2>1. /\ m \in 1 .. n /\ Len(w) = m /\ w[m].op = st[m].op /\ w[m].pc = "ret"
        /\ SameCall(w[m], st[m]) /\ \A i \in 1 .. m : i # m => w[i] = st[i]
    BY <1>1, <1>3 DEF Ended, CutAt, Like, SameCall
  <2>2. \A k \in Nat : k # 0 /\ k # 1 => k - 1 \in 1 .. k - 1 /\ (k - 1) + 1 = k
    OBVIOUS
  <2>3. m \in 1 .. Len(st) - 1 /\ m + 1 = n
    BY <1>1, <1>3, <2>2
  <2> HIDE DEF m
  <2>4. st[m].pc = "wait" /\ Calls(st[m], st[m + 1].op, st[m + 1].arg)
    BY <2>3 DEF LinksOK
  <2>5. st[m].op \notin Copies /\ (st[m].op = "Put" => st[n].op = "ForwardPut")
    BY <2>3, <2>4 DEF Calls, Copies
  <2>6. Critical(w[m]) => Critical(st[m])
    BY <2>1, <2>4 DEF Critical, HoldsLock
  <2>7. Pending(st[m]) => st[n].op = "ForwardPut"
    BY <2>5 DEF Pending, Critical
  <2>8. CriticalFrom(w, st)
    BY <1>1, <2>3, <2>1, <2>6 DEF CriticalFrom, SameCall
  <2>9. \A i \in 1 .. m : i # m \/ st[n].op # "ForwardPut" => PendingTo(w, st, i)
    BY <1>1, <2>3, <2>1, <2>7 DEF PendingTo, SameCall
  <2> QED
    BY <2>3, <2>1, <2>5, <2>8, <2>9 DEF NoCopy, m
<1> QED
  BY <1>2, <1>3

\* Without lost messages a call goes through, or the server is down.
LEMMA Effects ==
    ASSUME PBInv, NEW t \in Threads, stack[t] # <<>>
    PROVE  /\ \A pc \in Pcs : Goto(t, pc) => Moved(stack'[t], stack[t], pc, NoRes) /\ Others(t)
           /\ \A r \in Res : Return(t, r) => Ended(stack'[t], stack[t], r) /\ Others(t)
           /\ \A srv, op, arg : FailStop /\ Call(t, srv, op, arg) =>
                 /\ Others(t)
                 /\ \/ srv \in up /\ (Frame(srv, op, arg) \in Frames => Called(stack'[t], stack[t], Frame(srv, op, arg)))
                    \/ srv \notin up /\ Failed(t)
<1>1. stack \in [Threads -> Seq(Frames)] /\ stack[t] \in Seq(Frames)
  BY ServiceData
<1>2. \A w : stack' = [stack EXCEPT ![t] = w] => stack'[t] = w /\ Others(t)
  BY <1>1 DEF Others
<1>3. ASSUME NEW pc \in Pcs, Goto(t, pc) PROVE Moved(stack'[t], stack[t], pc, NoRes) /\ Others(t)
  BY <1>1, <1>2, <1>3, Steps, Constants DEF Goto
<1>4. ASSUME NEW r \in Res, Return(t, r) PROVE Ended(stack'[t], stack[t], r) /\ Others(t)
  BY <1>1, <1>2, <1>4, Steps DEF Return
<1>5. ASSUME NEW srv, NEW op, NEW arg, FailStop, Call(t, srv, op, arg)
      PROVE  /\ Others(t)
             /\ \/ srv \in up /\ (Frame(srv, op, arg) \in Frames => Called(stack'[t], stack[t], Frame(srv, op, arg)))
                \/ srv \notin up /\ Failed(t)
  <2>1. "lostcall" \notin env.faults /\ "lostreply" \notin env.faults
    BY <1>5 DEF FailStop
  <2>2. \/ srv \in up /\ stack' = [stack EXCEPT ![t] = At(@, "wait", NoRes) \o << Frame(srv, op, arg) >>]
        \/ srv \notin up /\ stack' = [stack EXCEPT ![t] = At(@, "ret", Fail)]
    BY <1>5, <2>1 DEF Call
  <2>3. CASE srv \in up
    <3>1. stack' = [stack EXCEPT ![t] = At(stack[t], "wait", NoRes) \o << Frame(srv, op, arg) >>]
      BY <2>2, <2>3
    <3>2. Frame(srv, op, arg) \in Frames
             => Called(At(stack[t], "wait", NoRes) \o << Frame(srv, op, arg) >>, stack[t], Frame(srv, op, arg))
      BY <1>1, Steps, Constants
    <3> QED
      BY <1>2, <2>3, <3>1, <3>2
  <2>4. CASE srv \notin up
    <3>1. stack' = [stack EXCEPT ![t] = At(stack[t], "ret", Fail)]
      BY <2>2, <2>4
    <3>2. Moved(At(stack[t], "ret", Fail), stack[t], "ret", Fail)
      BY <1>1, Steps, Constants DEF Pcs
    <3> QED
      BY <1>2, <2>4, <3>1, <3>2 DEF Failed
  <2> QED
    BY <2>3, <2>4
<1> QED
  BY <1>3, <1>4, <1>5

\* The top frame, and its place in the stack.
LEMMA TopRole ==
    ASSUME PBInv, NEW t \in Threads, stack[t] # <<>>
    PROVE  /\ Len(stack[t]) \in Nat \ {0} /\ Len(stack[t]) \in 1 .. Len(stack[t])
           /\ Top(t) = stack[t][Len(stack[t])] /\ LinksOK(stack[t]) /\ stack[t] \in Seq(Frames)
           /\ Top(t) \in Frames /\ Top(t).arg \in Arg /\ Top(t).pc # "wait"
<1>1. /\ Len(stack[t]) \in Nat \ {0} /\ Top(t) = stack[t][Len(stack[t])] /\ LinksOK(stack[t])
      /\ stack[t] \in Seq(Frames) /\ Top(t) \in Frames /\ Top(t).pc # "wait"
  BY TopFrame DEF PBInv, Core, StackOK, FrameOK
<1>2. \A n \in Nat \ {0} : n \in 1 .. n
  OBVIOUS
<1>3. \A f \in Frames : f.arg \in Arg
  BY DEF Frames
<1> QED
  BY <1>1, <1>2, <1>3

\* The thread of a server's tick does nothing but tick, or fill a backup.
LEMMA TickTops ==
    ASSUME PBInv, NEW s \in Servers, ~ Resting(s)
    PROVE  LET t == Live(s)
           IN  /\ t \in Threads /\ s \in up /\ TickFrame(s).at = s /\ TickFrame(s).op = "Tick"
               /\ TickFrame(s) \in Frames
               /\ \/ Len(stack[t]) = 1 /\ Top(t) = TickFrame(s) /\ TickFrame(s).pc # "wait"
                  \/ /\ Len(stack[t]) = 2 /\ Top(t) = stack[t][2] /\ Top(t).op = "MoveDB"
                     /\ TickFrame(s).pc = "wait" /\ TickFrame(s) = stack[t][Len(stack[t]) - 1]
<1> DEFINE t == Live(s)
           st == stack[t]
<1>1. t \in Threads /\ t[1] = s /\ t[2] = "live" /\ st # <<>> /\ s \in up /\ st[1].at = s
  BY TickThread DEF Resting, TickFrame
<1>2. /\ Len(st) \in Nat \ {0} /\ Top(t) = st[Len(st)] /\ st \in Seq(Frames)
      /\ LinksOK(st) /\ BottomOK(t, st) /\ FramesOK(st, env, puts, stored)
  BY <1>1, TopFrame DEF PBInv, Core, StackOK
<1> HIDE DEF t, st
<1>3. \A i \in 1 .. Len(st) : st[i] \in Frames /\ FrameOK(st[i], env, puts, stored)
                              /\ (st[i].op \in BottomOps <=> i = 1)
  BY <1>1, <1>2 DEF FramesOK, BottomOK
<1>4. st[1].op = "Tick" /\ st[1] \in Frames
  <2>1. 1 \in 1 .. Len(st)
    BY <1>2
  <2> QED
    BY <1>1, <1>3, <2>1, Constants DEF BottomOps, FrameOK, PlaceOK
<1>5. st[Len(st)].pc # "wait"
      /\ \A i \in 1 .. Len(st) - 1 : st[i].pc = "wait" /\ Calls(st[i], st[i + 1].op, st[i + 1].arg)
  BY <1>1, <1>2 DEF LinksOK
<1>6. CASE Len(st) = 1
  BY <1>1, <1>2, <1>4, <1>5, <1>6 DEF TickFrame, t, st
<1>7. CASE Len(st) # 1
  <2>0. \A n \in Nat : n # 0 /\ n # 1 => 1 \in 1 .. n - 1 /\ (n # 2 => 2 \in 1 .. n - 1)
    OBVIOUS
  <2>1. 1 \in 1 .. Len(st) - 1 /\ (Len(st) # 2 => 2 \in 1 .. Len(st) - 1)
    BY <1>2, <1>7, <2>0
  <2>2. st[1].pc = "wait" /\ st[1 + 1].op = "MoveDB"
    BY <1>4, <1>5, <2>1 DEF Calls
  <2>3. Len(st) = 2
    <3> SUFFICES ASSUME Len(st) # 2 PROVE FALSE
      OBVIOUS
    <3>1. 2 \in 1 .. Len(st) - 1
      BY <2>1
    <3> QED
      BY <1>5, <2>2, <3>1 DEF Calls
  <2> QED
    BY <1>1, <1>2, <1>4, <2>2, <2>3 DEF TickFrame, t, st
<1> QED
  BY <1>6, <1>7

\* The frame that waits for a copy: it holds its mutex, at the primary.
LEMMA Caller ==
    ASSUME PBInv, NEW t \in Threads, stack[t] # <<>>, Top(t).op \in Copies, Len(stack[t]) # 1
    PROVE  LET i == Len(stack[t]) - 1
               f == stack[t][i]
               g == Top(t)
           IN  /\ i \in 1 .. Len(stack[t]) /\ i \in Nat /\ Keeps(stack[t], f.at, i) /\ f.pc = "wait"
               /\ f.at \in Servers /\ f.at \in up /\ locked[f.at]
               /\ \/ f.op = "Put" /\ g.op = "ForwardPut" /\ g.arg = f.arg
                  \/ f.op = "Tick" /\ g.op = "MoveDB" /\ t = Live(f.at) /\ f = TickFrame(f.at)
               /\ FailStop => g.at # f.at /\ f.at = view.Primary /\ pbview[f.at].Primary = f.at
<1> DEFINE n == Len(stack[t])
           i == n - 1
           f == stack[t][i]
           g == Top(t)
<1>1. /\ n \in Nat \ {0} /\ g = stack[t][n]
      /\ LinksOK(stack[t]) /\ BottomOK(t, stack[t]) /\ FramesOK(stack[t], env, puts, stored)
  BY TopFrame DEF PBInv, Core, StackOK
<1>0. \A k \in Nat : k # 0 /\ k # 1 => k - 1 \in 1 .. k - 1 /\ k - 1 \in 1 .. k
                                       /\ k - 1 \in Nat /\ (k - 1) + 1 = k /\ k - 1 # k
  OBVIOUS
<1>2. i \in 1 .. Len(stack[t]) - 1 /\ i \in 1 .. Len(stack[t]) /\ i \in Nat /\ i + 1 = n /\ i # n
  BY <1>1, <1>0
<1> HIDE DEF i, n
<1>3. f.pc = "wait" /\ Calls(f, g.op, g.arg)
  BY <1>1, <1>2 DEF LinksOK
<1>4. \/ f.op = "Put" /\ g.op = "ForwardPut" /\ g.arg = f.arg
      \/ f.op = "Tick" /\ g.op = "MoveDB"
  BY <1>3 DEF Calls, Copies
<1>5. FrameOK(f, env, puts, stored) /\ (f.op \in BottomOps => i = 1 /\ t[2] = "live" /\ f.at = t[1])
  BY <1>1, <1>2 DEF FramesOK, BottomOK
<1>6. f.at \in Servers /\ f.at \in up \cup Clerks
  BY <1>2, <1>4, <1>5 DEF FrameOK, PlaceOK, PBInv, Core, PlacesInv
<1>7. Keeps(stack[t], f.at, i)
  BY <1>2, <1>3, <1>4 DEF Keeps, HoldsLock
<1>8. locked[f.at]
  BY <1>2, <1>6, <1>7 DEF PBInv, Core, MutexInv, MutexOK
<1>9. f.op = "Tick" => t = Live(f.at) /\ f = TickFrame(f.at)
  <2> SUFFICES ASSUME f.op = "Tick" PROVE t = Live(f.at) /\ f = TickFrame(f.at)
    OBVIOUS
  <2>1. i = 1 /\ t[2] = "live" /\ f.at = t[1] /\ t = <<t[1], t[2]>>
    BY <1>5 DEF BottomOps, Threads
  <2>2. t = Live(f.at)
    BY <2>1 DEF Live
  <2>3. stack[Live(f.at)][1] = f
    BY <2>1, <2>2
  <2> QED
    BY <2>2, <2>3 DEF TickFrame
<1>10. ASSUME FailStop PROVE g.at # f.at /\ f.at = view.Primary /\ pbview[f.at].Primary = f.at
  <2>1. CallsOK(stack[t], pbview)
    BY <1>10 DEF PBInv, Core, CallsInv
  <2>2. g.at # f.at /\ (f.op = "Put" => pbview[f.at].Primary = f.at)
    BY <1>1, <1>2, <1>3, <1>4, <2>1 DEF CallsOK, n
  <2>3. f.op = "Tick" => pbview[f.at].Primary = f.at
    <3> SUFFICES ASSUME f.op = "Tick" PROVE pbview[f.at].Primary = f.at
      OBVIOUS
    <3>1. ~ Resting(f.at) /\ TickFrame(f.at).pc = "wait"
      BY <1>3, <1>9 DEF Resting
    <3> QED
      BY <1>6, <3>1 DEF PBInv, ViewsInv
  <2>4. f.at = view.Primary
    BY <1>2, <1>6, <1>7, <1>10, OnlyPrimaryHolds
  <2> QED
    BY <1>4, <2>2, <2>3, <2>4
<1> QED
  BY <1>2, <1>3, <1>4, <1>6, <1>7, <1>8, <1>9, <1>10, Constants DEF i, n

-----------------------------------------------------------------------------
(* What keeps each of them.                                                *)

\* If servers at worst crash, one at most has itself as the primary.
LEMMA OnePrimary ==
    ASSUME PBInv, FailStop, NEW p \in up, pbview[p].Primary = p
    PROVE  p = view.Primary
  BY DEF PBInv, PrimaryInv

\* A Put in its critical section has the mutex.
LEMMA CriticalLocked ==
    ASSUME PBInv, NEW t \in Threads, NEW i \in 1 .. Len(stack[t]), Critical(stack[t][i])
    PROVE  /\ stack[t][i].at \in Servers /\ stack[t][i].at \in up /\ locked[stack[t][i].at]
           /\ i \in Nat /\ Keeps(stack[t], stack[t][i].at, i)
<1> DEFINE f == stack[t][i]
<1>1. i \in Nat /\ stack[t] \in Seq(Frames)
  BY ServiceData
<1>2. FrameOK(f, env, puts, stored) /\ f.at \in up \cup Clerks
  BY DEF PBInv, Core, StacksInv, PlacesInv, StackOK, FramesOK
<1>3. f.at \in Servers /\ f.at \in up
  BY <1>2, Constants DEF FrameOK, PlaceOK, Critical
<1>4. Keeps(stack[t], f.at, i)
  BY DEF Keeps, Critical
<1>5. locked[f.at]
  BY <1>1, <1>3, <1>4 DEF PBInv, Core, MutexInv, MutexOK
<1> QED
  BY <1>1, <1>3, <1>4, <1>5

\* The values that Puts have written stay, and a Put that enters writes its own.
LEMMA WroteKept ==
    ASSUME PBInv, WroteInv, NEW t \in Threads, Others(t),
           \A s \in Servers : locked[s] => db'[s] = db[s],
           \A i \in 1 .. Len(stack'[t]) :
              LET f == stack[t][i]
                  g == stack'[t][i]
              IN  Critical(g) => \/ i \in 1 .. Len(stack[t]) /\ Critical(f) /\ SameCall(g, f)
                                 \/ db'[g.at][g.arg[1]] = g.arg[2]
    PROVE  WroteInv'
<1> SUFFICES ASSUME NEW u \in Threads, NEW i \in 1 .. Len(stack'[u]), Critical(stack'[u][i])
             PROVE  db'[stack'[u][i].at][stack'[u][i].arg[1]] = stack'[u][i].arg[2]
  BY DEF WroteInv, Critical, HoldsLock
<1> DEFINE f == stack[u][i]
           g == stack'[u][i]
<1>1. \/ i \in 1 .. Len(stack[u]) /\ Critical(f) /\ SameCall(g, f)
      \/ db'[g.at][g.arg[1]] = g.arg[2]
  <2>1. u # t => stack'[u] = stack[u]
    BY DEF Others
  <2> QED
    BY <2>1 DEF SameCall
<1>2. i \in 1 .. Len(stack[u]) /\ Critical(f) => db[f.at][f.arg[1]] = f.arg[2] /\ db'[f.at] = db[f.at]
  BY CriticalLocked DEF WroteInv
<1> QED
  BY <1>1, <1>2 DEF SameCall

\* What a step is to keep at a server that holds its mutex.
KeepsBackup(s) ==
    /\ db'[s] = db[s]
    /\ pbview[s].Backup \in up => pbview'[s].Backup = pbview[s].Backup

\* Copies under way in other threads stay right.
LEMMA CopyKept ==
    ASSUME PBInv, FailStop, NEW u \in Threads, CopyOK(u), stack'[u] = stack[u], Orphaned => Orphaned',
           \A s \in up : locked[s] /\ pbview[s].Primary = s => KeepsBackup(s)
    PROVE  CopyOK(u)'
<1> SUFFICES ASSUME stack[u] # <<>>, Top(u).op \in Copies
             PROVE  IF Len(stack[u]) = 1 THEN Orphaned'
                    ELSE FromOK(stack[u][Len(stack[u]) - 1], Top(u))'
  BY DEF CopyOK, Top
<1>1. CASE Len(stack[u]) = 1
  BY <1>1 DEF CopyOK
<1>2. CASE Len(stack[u]) # 1
  <2> DEFINE f == stack[u][Len(stack[u]) - 1]
             g == Top(u)
  <2>1. f' = f /\ g' = g
    BY DEF Top
  <2>2. FromOK(f, g)
    BY <1>2 DEF CopyOK
  <2>3. f.at \in up /\ KeepsBackup(f.at)
    BY <1>2, Caller
  <2>4. g.at \in up
    <3>1. /\ g = stack[u][Len(stack[u])] /\ Len(stack[u]) \in 1 .. Len(stack[u])
          /\ g.at \in Servers
      BY TopRole, TopFacts DEF Copies
    <3> QED
      BY <3>1, Constants DEF PBInv, Core, PlacesInv
  <2> HIDE DEF f, g
  <2>5. FromOK(f, g)'
    BY <2>1, <2>2, <2>3, <2>4 DEF FromOK, KeepsBackup
  <2> QED
    BY <1>2, <2>5 DEF f, g
<1> QED
  BY <1>1, <1>2

\* Puts on their way to the backup of p stay on their way.
LEMMA PendingKept ==
    ASSUME NEW t \in Threads, Others(t), NEW p, NEW k, IsPending(p, k),
           \A i \in 1 .. Len(stack[t]) :
              stack[t][i].at = p /\ stack[t][i].arg[1] = k => PendingTo(stack'[t], stack[t], i)
    PROVE  IsPending(p, k)'
<1>0. PICK u \in Threads : \E i \in 1 .. Len(stack[u]) :
         Pending(stack[u][i]) /\ stack[u][i].at = p /\ stack[u][i].arg[1] = k
  BY DEF IsPending
<1>1. PICK i \in 1 .. Len(stack[u]) :
         Pending(stack[u][i]) /\ stack[u][i].at = p /\ stack[u][i].arg[1] = k
  BY <1>0
<1>2. CASE u = t
  <2>1. PendingTo(stack'[t], stack[t], i)
    BY <1>1, <1>2
  <2>2. i \in 1 .. Len(stack'[u]) /\ Pending(stack'[u][i]) /\ stack'[u][i].at = p /\ stack'[u][i].arg[1] = k
    BY <1>1, <1>2, <2>1 DEF PendingTo, SameCall
  <2> QED
    BY <2>2 DEF IsPending, Pending, Critical, HoldsLock
<1>3. CASE u # t
  <2>1. stack'[u] = stack[u]
    BY <1>3 DEF Others
  <2> QED
    BY <1>1, <2>1 DEF IsPending, Pending, Critical, HoldsLock
<1> QED
  BY <1>2, <1>3

\* So do the databases, if they do not change.
LEMMA SyncKept ==
    ASSUME NEW p, SyncOK(p), pbview'[p] = pbview[p], up' \subseteq up,
           pbview[p].Primary = p /\ pbview[p].Backup \in up' =>
              /\ db'[p] = db[p] /\ db'[pbview[p].Backup] = db[pbview[p].Backup]
              /\ TransferDue(p) => TransferDue(p)'
              /\ \A k \in Keys : IsPending(p, k) => IsPending(p, k)'
    PROVE  SyncOK(p)'
  BY DEF SyncOK

\* A step that copies nothing, stores nothing and changes no view.
LEMMA PlainKeeps ==
    ASSUME PBInv, FailStop, ReplicaInv, NEW t \in Threads, Others(t),
           CriticalFrom(stack'[t], stack[t]), CopyOK(t)',
           \A i \in 1 .. Len(stack[t]) :
              pbview[stack[t][i].at].Backup \in up => PendingTo(stack'[t], stack[t], i),
           \A s \in up : TransferDue(s) /\ pbview[s].Backup \in up => TransferDue(s)',
           UNCHANGED <<db, pbview, up>>, Orphaned => Orphaned'
    PROVE  ReplicaInv'
<1>1. WroteInv'
  BY WroteKept DEF ReplicaInv, CriticalFrom
<1>2. CopiesInv'
  <2> SUFFICES ASSUME NEW u \in Threads PROVE CopyOK(u)'
    BY DEF CopiesInv
  <2>1. \A s \in up : locked[s] => KeepsBackup(s)
    BY DEF KeepsBackup
  <2>2. u # t => CopyOK(u) /\ stack'[u] = stack[u]
    BY DEF Others, ReplicaInv, CopiesInv
  <2> QED
    BY <2>1, <2>2, CopyKept
<1>3. SyncInv'
  <2> SUFFICES ASSUME NEW p \in up PROVE SyncOK(p)'
    BY DEF SyncInv
  <2>1. \A k \in Keys : pbview[p].Backup \in up /\ IsPending(p, k) => IsPending(p, k)'
    BY PendingKept
  <2> QED
    BY <2>1, SyncKept DEF ReplicaInv, SyncInv
<1> QED
  BY <1>1, <1>2, <1>3 DEF ReplicaInv

\* ... in a thread that is not a server's tick.
LEMMA PlainHandler ==
    ASSUME PBInv, FailStop, ReplicaInv, NEW t \in Threads, Others(t), \A s \in Servers : t # Live(s),
           CriticalFrom(stack'[t], stack[t]), CopyOK(t)',
           \A i \in 1 .. Len(stack[t]) :
              pbview[stack[t][i].at].Backup \in up => PendingTo(stack'[t], stack[t], i),
           UNCHANGED <<vsVars, db, pbview, up>>
    PROVE  ReplicaInv'
<1>1. Orphaned => Orphaned'
  BY DEF Orphaned, vsVars
<1>2. \A s \in up : TransferDue(s) => TransferDue(s)'
  <2> SUFFICES ASSUME NEW s \in up PROVE stack'[Live(s)] = stack[Live(s)]
    BY DEF TransferDue, Resting, TickFrame
  <2> QED
    BY ServiceData, TickThread DEF Others
<1> QED
  BY <1>1, <1>2, PlainKeeps

-----------------------------------------------------------------------------
(* Handlers.                                                               *)

\* A thread whose top frame is neither a tick nor a transfer is no tick's.
LEMMA NoTicksThread ==
    ASSUME PBInv, NEW t \in Threads, stack[t] # <<>>, Top(t).op \notin {"Tick", "MoveDB"}
    PROVE  \A s \in Servers : t # Live(s)
<1> SUFFICES ASSUME NEW s \in Servers, t = Live(s) PROVE FALSE
  OBVIOUS
<1>1. ~ Resting(s)
  BY DEF Resting
<1> QED
  BY <1>1, TickTops

\* A handler returns that copies nothing.
LEMMA PlainReturn ==
    ASSUME PBInv, FailStop, ReplicaInv, NEW t \in Threads, stack[t] # <<>>, NEW r \in Res, Return(t, r),
           Top(t).op \notin Copies \cup {"Tick"},
           Pending(Top(t)) => pbview[Top(t).at].Backup \notin up,
           UNCHANGED <<vsVars, db, pbview, up>>
    PROVE  ReplicaInv'
<1> DEFINE n == Len(stack[t])
<1>1. Ended(stack'[t], stack[t], r) /\ Others(t)
  BY Effects
<1>2. /\ n \in Nat \ {0} /\ Top(t) = stack[t][n] /\ LinksOK(stack[t]) /\ stack[t] \in Seq(Frames)
  BY TopRole
<1>3. CriticalFrom(stack'[t], stack[t]) /\ NoCopy(stack'[t])
      /\ \A i \in 1 .. n - 1 : PendingTo(stack'[t], stack[t], i)
  BY <1>1, <1>2, EndedPlain DEF Copies
<1>4. CopyOK(t)'
  <2>1. stack'[t] # <<>> => Top(t)' = stack'[t][Len(stack'[t])]
    BY DEF Top, Last
  <2> QED
    BY <1>3, <2>1 DEF CopyOK, NoCopy
<1>5. \A i \in 1 .. n : i = n \/ i \in 1 .. n - 1
  BY <1>2
<1>6. \A i \in 1 .. n : pbview[stack[t][i].at].Backup \in up => PendingTo(stack'[t], stack[t], i)
  BY <1>2, <1>3, <1>5 DEF PendingTo
<1> QED
  BY <1>1, <1>3, <1>4, <1>6, NoTicksThread, PlainHandler DEF Copies

\* A handler goes on, copying nothing.
LEMMA PlainGoto ==
    ASSUME PBInv, FailStop, ReplicaInv, NEW t \in Threads, stack[t] # <<>>, NEW pc \in Pcs, Goto(t, pc),
           Top(t).op \notin Copies \cup {"Tick"},
           Top(t).op = "Put" /\ pc \in {"forward", "wait", "ret"} => HoldsLock(Top(t)),
           Pending(Top(t)) => pc \in {"forward", "wait"},
           UNCHANGED <<vsVars, db, pbview, up>>
    PROVE  ReplicaInv'
<1>1. Moved(stack'[t], stack[t], pc, NoRes) /\ Others(t)
  BY Effects
<1>2. CriticalFrom(stack'[t], stack[t]) /\ NoCopy(stack'[t])
      /\ \A i \in 1 .. Len(stack[t]) : PendingTo(stack'[t], stack[t], i)
  BY <1>1, TopRole, MovedPlain
<1>3. CopyOK(t)'
  <2>1. stack'[t] # <<>> => Top(t)' = stack'[t][Len(stack'[t])]
    BY DEF Top, Last
  <2> QED
    BY <1>2, <2>1 DEF CopyOK, NoCopy
<1> QED
  BY <1>1, <1>2, <1>3, NoTicksThread, PlainHandler DEF Copies

\* A frame calls, but no one that copies.
LEMMA PlainCall ==
    ASSUME PBInv, FailStop, ReplicaInv, NEW t \in Threads, stack[t] # <<>>,
           NEW srv, NEW op, op \in Ops \ Copies, Call(t, srv, op, Top(t).arg),
           Top(t).op \notin Copies \cup {"Tick", "Put"},
           UNCHANGED <<vsVars, db, pbview, up>>
    PROVE  ReplicaInv'
<1> DEFINE g == Frame(srv, op, Top(t).arg)
<1>1. g.op = op /\ g.pc = "start" /\ (srv \in up => g \in Frames)
  BY ServiceData, TopRole, Constants DEF Frame, Frames, Owners, Pcs
<1>2. /\ Others(t)
      /\ \/ srv \in up /\ Called(stack'[t], stack[t], g)
         \/ srv \notin up /\ Failed(t)
  <2>1. /\ Others(t)
        /\ \/ srv \in up /\ (g \in Frames => Called(stack'[t], stack[t], g))
           \/ srv \notin up /\ Failed(t)
    BY Effects
  <2> QED
    BY <1>1, <2>1
<1> HIDE DEF g
<1>3. CriticalFrom(stack'[t], stack[t]) /\ NoCopy(stack'[t])
      /\ \A i \in 1 .. Len(stack[t]) : PendingTo(stack'[t], stack[t], i)
  <2>1. CASE Called(stack'[t], stack[t], g)
    <3>1. NoCopy(stack'[t])
      BY <1>1, <2>1 DEF NoCopy, Called
    <3> QED
      BY <1>1, <2>1, <3>1, TopRole, CalledPlain
  <2>2. CASE Failed(t)
    BY <2>2, TopRole, MovedPlain DEF Failed, Pending, Critical
  <2> QED
    BY <1>2, <2>1, <2>2
<1>4. CopyOK(t)'
  <2>1. stack'[t] # <<>> => Top(t)' = stack'[t][Len(stack'[t])]
    BY DEF Top, Last
  <2> QED
    BY <1>3, <2>1 DEF CopyOK, NoCopy
<1> QED
  BY <1>2, <1>3, <1>4, NoTicksThread, PlainHandler DEF Copies

\* Get, Relay, and a Put that is not stored here or was answered.
LEMMA PlainHandles ==
    ASSUME PBInv, FailStop, ReplicaInv, NEW t \in Threads,
           \/ GetEnter(t) \/ GetRead(t) \/ PutForwarded(t) \/ RelayCall(t) \/ RelayReturn(t)
    PROVE  ReplicaInv'
<1>1. CASE GetEnter(t)
  BY <1>1, Constants, PlainGoto, PlainReturn
     DEF GetEnter, Running, Top, Copies, Pending, Critical, pbVars, Pcs
<1>2. CASE GetRead(t)
  <2> DEFINE v == db[Top(t).at][Top(t).arg[1]]
             r == IF v = 0 THEN NoKey ELSE [err |-> "OK", val |-> v]
  <2>1. /\ stack[t] # <<>> /\ Top(t).op = "Get" /\ Return(t, r)
        /\ UNCHANGED <<vsVars, db, pbview, up>>
    BY <1>2 DEF GetRead, Running, Top, pbVars
  <2>2. r \in Res
    <3>1. Top(t).at \in Servers /\ Top(t).arg[1] \in Keys
      BY <2>1, TopFacts DEF GetOps
    <3>2. v \in Nat
      BY <3>1, ServiceData
    <3> QED
      BY <3>2, Constants DEF Res
  <2> HIDE DEF r
  <2> QED
    BY <2>1, <2>2, PlainReturn DEF Copies, Pending, Critical
<1>3. CASE PutForwarded(t)
  <2>1. /\ stack[t] # <<>> /\ Top(t).op = "Put" /\ Top(t).pc = "ret" /\ Top(t).res \in Res
        /\ UNCHANGED <<vsVars, db, pbview, up>>
    BY <1>3, TopFacts DEF PutForwarded, Running, Top
  <2>2. CASE Top(t).res = Fail
    BY <1>3, <2>1, <2>2, PlainGoto DEF PutForwarded, Copies, Pcs, HoldsLock
  <2>3. CASE Top(t).res # Fail
    BY <1>3, <2>1, <2>3, PlainReturn DEF PutForwarded, Copies, Pending
  <2> QED
    BY <2>2, <2>3
<1>4. CASE RelayCall(t)
  BY <1>4, PlainCall DEF RelayCall, Running, Top, Copies, Ops, pbVars
<1>5. CASE RelayReturn(t)
  <2>1. /\ stack[t] # <<>> /\ Top(t).op = "Relay" /\ Top(t).res \in Res
        /\ UNCHANGED <<vsVars, db, pbview, up>>
    BY <1>5, TopFacts DEF RelayReturn, Running, Top, pbVars
  <2> QED
    BY <1>5, <2>1, PlainGoto, PlainReturn DEF RelayReturn, Copies, Pcs, Pending, Critical
<1> QED
  BY <1>1, <1>2, <1>3, <1>4, <1>5

\* A Put enters, is refused, or goes on as a Relay.
LEMMA PutEnterSync ==
    ASSUME PBInv, FailStop, ReplicaInv, NEW t \in Threads, PutEnter(t)
    PROVE  ReplicaInv'
<1>1. /\ stack[t] # <<>> /\ Top(t).op = "Put" /\ Top(t).pc = "start"
      /\ UNCHANGED <<vsVars, db, pbview, up>>
      /\ Return(t, WrongServer) \/ Goto(t, "lock") \/ Become(t, "Relay")
  BY DEF PutEnter, Running, Top, pbVars
<1>2. ~ Pending(Top(t))
  BY <1>1 DEF Pending, Critical, HoldsLock
<1>3. CASE Return(t, WrongServer)
  BY <1>1, <1>2, <1>3, Constants, PlainReturn DEF Copies
<1>4. CASE Goto(t, "lock")
  BY <1>1, <1>2, <1>4, PlainGoto DEF Copies, Pcs
<1>5. CASE Become(t, "Relay")
  <2> DEFINE n == Len(stack[t])
             g == Frame(Top(t).at, "Relay", Top(t).arg)
             w == Front(stack[t]) \o <<g>>
  <2>1. n \in Nat \ {0} /\ Top(t) = stack[t][n] /\ stack[t] \in Seq(Frames)
    BY <1>1, TopRole
  <2>2. stack'[t] = w /\ Others(t)
    BY <1>5, ServiceData DEF Become, Others, Top
  <2>3. g \in Frames
    BY <1>1, TopFacts, TopRole, Constants DEF Frame, Frames, Ops, Pcs
  <2>4. g.op = "Relay"
    BY DEF Frame
  <2> HIDE DEF g
  <2>5. Len(w) = n /\ w[n] = g /\ \A i \in 1 .. n - 1 : w[i] = stack[t][i]
    BY <1>1, <2>1, <2>3, Retopped DEF SameBelow
  <2> HIDE DEF w
  <2>6. \A i \in 1 .. n : i = n \/ i \in 1 .. n - 1
    BY <2>1
  <2>7. ~ Critical(g) /\ ~ Pending(stack[t][n])
    BY <1>2, <2>1, <2>4 DEF Critical
  <2> HIDE DEF n
  <2>8. CriticalFrom(w, stack[t])
    BY <2>5, <2>6, <2>7 DEF CriticalFrom, SameCall, n
  <2>9. \A i \in 1 .. Len(stack[t]) : PendingTo(w, stack[t], i)
    BY <2>5, <2>6, <2>7 DEF PendingTo, SameCall, n
  <2>10. CopyOK(t)'
    BY <2>2, <2>4, <2>5 DEF CopyOK, Top, Last, Copies
  <2> QED
    BY <1>1, <2>2, <2>8, <2>9, <2>10, NoTicksThread, PlainHandler
<1> QED
  BY <1>1, <1>3, <1>4, <1>5

-----------------------------------------------------------------------------
(* The handlers that store and copy.                                       *)

\* A transfer is due still when another thread steps.
LEMMA TransferKept ==
    ASSUME PBInv, NEW t \in Threads, Others(t), NEW s \in up, t # Live(s), TransferDue(s)
    PROVE  TransferDue(s)'
<1>1. stack'[Live(s)] = stack[Live(s)]
  BY ServiceData, TickThread DEF Others
<1> QED
  BY <1>1 DEF TransferDue, Resting, TickFrame

\* Put takes the mutex, stores, and is pending.
LEMMA PutStoreSync ==
    ASSUME PBInv, FailStop, ReplicaInv, NEW t \in Threads, PutStore(t)
    PROVE  ReplicaInv'
<1> DEFINE s == Top(t).at
           a == Top(t).arg
           n == Len(stack[t])
<1>1. /\ stack[t] # <<>> /\ Top(t).op = "Put" /\ Top(t).pc = "lock" /\ ~ locked[s]
      /\ Written(t) /\ Goto(t, "forward") /\ UNCHANGED <<vsVars, pbview, up>>
  BY DEF PutStore, Running, Top
<1>2. /\ s \in Servers /\ a \in Keys \X (1 .. puts) /\ pbview[s].Primary = s
      /\ n \in Nat \ {0} /\ n \in 1 .. n /\ Top(t) = stack[t][n]
  BY <1>1, TopFacts, TopRole DEF PutOps
<1>3. s \in up
  BY <1>2, Constants DEF PBInv, Core, PlacesInv
<1>4. /\ Others(t) /\ Len(stack'[t]) = n /\ \A i \in 1 .. n : i # n => stack'[t][i] = stack[t][i]
      /\ stack'[t][n].at = s /\ stack'[t][n].arg = a /\ stack'[t][n].op = "Put" /\ stack'[t][n].pc = "forward"
  <2>1. Moved(stack'[t], stack[t], "forward", NoRes) /\ Others(t)
    BY <1>1, Effects DEF Pcs
  <2> QED
    BY <1>1, <1>2, <2>1 DEF Moved, Like
<1>5. /\ \A q \in Servers : q # s => db'[q] = db[q]
      /\ db'[s][a[1]] = a[2] /\ \A k \in Keys : k # a[1] => db'[s][k] = db[s][k]
  BY <1>1, <1>2, ServiceData DEF Written
<1>6. \A q \in Servers : t # Live(q)
  BY <1>1, NoTicksThread
<1> HIDE DEF s, a, n
<1>7. WroteInv'
  <2>1. \A q \in Servers : locked[q] => db'[q] = db[q]
    BY <1>1, <1>5 DEF s
  <2>2. ASSUME NEW i \in 1 .. Len(stack'[t]), Critical(stack'[t][i])
        PROVE  \/ /\ i \in 1 .. Len(stack[t]) /\ Critical(stack[t][i])
                  /\ SameCall(stack'[t][i], stack[t][i])
               \/ db'[stack'[t][i].at][stack'[t][i].arg[1]] = stack'[t][i].arg[2]
    <3>1. CASE i = n
      BY <1>4, <1>5, <3>1
    <3>2. CASE i # n
      <4>1. i \in 1 .. Len(stack[t]) /\ stack'[t][i] = stack[t][i]
        BY <1>4, <3>2 DEF n
      <4> QED
        BY <2>2, <4>1 DEF SameCall
    <3> QED
      BY <3>1, <3>2
  <2> QED
    BY <1>4, <2>1, <2>2, WroteKept DEF ReplicaInv
<1>8. \A q \in up : TransferDue(q) => TransferDue(q)'
  BY <1>4, <1>6, ServiceData, TransferKept
<1>9. CopiesInv'
  <2> SUFFICES ASSUME NEW u \in Threads PROVE CopyOK(u)'
    BY DEF CopiesInv
  <2>1. \A q \in up : locked[q] => KeepsBackup(q)
    BY <1>1, <1>5, ServiceData DEF KeepsBackup
  <2>2. Orphaned => Orphaned'
    BY <1>1 DEF Orphaned, vsVars
  <2>3. CASE u = t
    BY <1>4, <2>3 DEF CopyOK, Top, Last, Copies
  <2>4. CASE u # t
    BY <1>4, <2>1, <2>2, <2>4, CopyKept DEF Others, ReplicaInv, CopiesInv
  <2> QED
    BY <2>3, <2>4
<1>10. SyncInv'
  <2> SUFFICES ASSUME NEW p \in up, pbview[p].Primary = p, pbview[p].Backup \in up,
                      NEW k \in Keys
               PROVE  \/ db'[p][k] = db'[pbview[p].Backup][k]
                      \/ IsPending(p, k)'
                      \/ TransferDue(p)' /\ db'[pbview[p].Backup][k] = 0
    BY <1>1 DEF SyncInv, SyncOK
  <2>1. p = s /\ pbview[p].Backup # s /\ pbview[p].Backup \in Servers
    <3>1. p = s
      BY <1>2, <1>3, OnePrimary
    <3>2. DistinctRoles(pbview[s]) /\ None \notin Servers /\ up \subseteq Servers
      BY <1>2, ServiceData, Constants DEF PBInv, ViewsInv
    <3> QED
      BY <1>2, <3>1, <3>2 DEF DistinctRoles
  <2>2. CASE k = a[1]
    <3>1. /\ n \in 1 .. Len(stack'[t]) /\ Pending(stack'[t][n])
          /\ stack'[t][n].at = p /\ stack'[t][n].arg[1] = k
      BY <1>2, <1>4, <2>1, <2>2 DEF Pending, Critical, HoldsLock
    <3> QED
      BY <3>1 DEF IsPending, Pending, Critical, HoldsLock
  <2>3. CASE k # a[1]
    <3>1. db'[p][k] = db[p][k] /\ db'[pbview[p].Backup] = db[pbview[p].Backup]
      BY <1>5, <2>1, <2>3
    <3>2. \/ db[p][k] = db[pbview[p].Backup][k]
          \/ IsPending(p, k)
          \/ TransferDue(p)' /\ db[pbview[p].Backup][k] = 0
      BY <1>8 DEF ReplicaInv, SyncInv, SyncOK
    <3>3. \A i \in 1 .. Len(stack[t]) : PendingTo(stack'[t], stack[t], i)
      BY <1>1, <1>2, <1>4 DEF PendingTo, Pending, Critical, HoldsLock, SameCall, n
    <3>4. IsPending(p, k) => IsPending(p, k)'
      BY <1>4, <3>3, PendingKept
    <3> QED
      BY <3>1, <3>2, <3>4
  <2> QED
    BY <2>2, <2>3
<1> QED
  BY <1>7, <1>9, <1>10 DEF ReplicaInv

\* Put ends if there is no backup, and calls the one there is.
LEMMA PutForwardSync ==
    ASSUME PBInv, FailStop, ReplicaInv, NEW t \in Threads, PutForward(t)
    PROVE  ReplicaInv'
<1> DEFINE s == Top(t).at
           b == pbview[s].Backup
           n == Len(stack[t])
           g == Frame(b, "ForwardPut", Top(t).arg)
<1>1. /\ stack[t] # <<>> /\ Top(t).op = "Put" /\ Top(t).pc = "forward"
      /\ UNCHANGED <<vsVars, db, pbview, up>>
      /\ \/ b = None /\ Return(t, OK)
         \/ b # None /\ Call(t, b, "ForwardPut", Top(t).arg)
  <2> HIDE DEF g
  <2>1. Running(t, "Put", "forward") /\ UNCHANGED <<vsVars, db, pbview, up>>
    BY DEF PutForward
  <2>2. \/ b = None /\ Return(t, OK)
        \/ b # None /\ Call(t, b, "ForwardPut", Top(t).arg)
    BY DEF PutForward
  <2> QED
    BY <2>1, <2>2 DEF Running, Top
<1>2. CASE b = None /\ Return(t, OK)
  <2>1. b \notin up
    BY <1>2, ServiceData, Constants
  <2> QED
    BY <1>1, <1>2, <2>1, Constants, PlainReturn DEF Copies
<1>3. CASE Call(t, b, "ForwardPut", Top(t).arg)
  <2>1. g.op = "ForwardPut" /\ g.pc = "start" /\ g.at = b /\ (b \in up => g \in Frames)
    BY <1>1, ServiceData, TopRole, Constants DEF Frame, Frames, Owners, Pcs, Ops
  <2>2. /\ Others(t)
        /\ \/ b \in up /\ (g \in Frames => Called(stack'[t], stack[t], g))
           \/ Failed(t)
    BY <1>1, <1>3, Effects
  <2> HIDE DEF g
  <2>3. /\ n \in Nat \ {0} /\ Top(t) = stack[t][n] /\ stack[t] \in Seq(Frames) /\ HoldsLock(stack[t][n])
        /\ (n + 1) - 1 = n /\ n + 1 # 1
    BY <1>1, TopRole DEF HoldsLock
  <2>4. CASE b \in up /\ Called(stack'[t], stack[t], g)
    <3>1. /\ stack'[t][n].at = s /\ stack'[t][n].op = "Put" /\ Len(stack'[t]) = n + 1 /\ stack'[t][n + 1] = g
          /\ Top(t)' = stack'[t][n + 1]
      BY <1>1, <2>3, <2>4 DEF Called, Like, Top, Last
    <3>2. FromOK(stack[t][Len(stack[t]) - 1], Top(t))'
      <4>1. stack'[t][Len(stack'[t]) - 1] = stack'[t][n]
        BY <2>3, <3>1
      <4> QED
        BY <1>1, <2>1, <3>1, <4>1 DEF FromOK
    <3>3. CopyOK(t)'
      BY <2>3, <3>1, <3>2 DEF CopyOK
    <3>4. /\ CriticalFrom(stack'[t], stack[t])
          /\ \A i \in 1 .. Len(stack[t]) : PendingTo(stack'[t], stack[t], i)
      BY <1>1, <2>1, <2>3, <2>4, CalledPlain
    <3> QED
      BY <1>1, <2>2, <3>3, <3>4, NoTicksThread, PlainHandler
  <2>5. CASE Failed(t)
    <3>1. CriticalFrom(stack'[t], stack[t]) /\ NoCopy(stack'[t])
          /\ \A i \in 1 .. Len(stack[t]) : PendingTo(stack'[t], stack[t], i)
      BY <1>1, <2>3, <2>5, MovedPlain DEF Failed, Copies
    <3>2. CopyOK(t)'
      BY <3>1 DEF CopyOK, NoCopy, Top, Last
    <3> QED
      BY <1>1, <2>2, <3>1, <3>2, NoTicksThread, PlainHandler
  <2> QED
    BY <2>1, <2>2, <2>4, <2>5
<1> QED
  BY <1>1, <1>2, <1>3

\* The backup stores what was sent: the primary has it too.
LEMMA BackupSync ==
    ASSUME PBInv, FailStop, ReplicaInv, NEW t \in Threads, ForwardPut(t) \/ MoveDB(t)
    PROVE  ReplicaInv'
<1> DEFINE b == Top(t).at
           a == Top(t).arg
           n == Len(stack[t])
           m == n - 1
<1>1. /\ stack[t] # <<>> /\ Top(t).op \in Copies /\ ~ locked[b] /\ Return(t, OK)
      /\ UNCHANGED <<vsVars, pbview, up>>
      /\ \/ Top(t).op = "ForwardPut" /\ Written(t)
         \/ Top(t).op = "MoveDB" /\ db' = [db EXCEPT ![b] = a]
  <2>1. CASE ForwardPut(t)
    <3>1. /\ Running(t, "ForwardPut", "start") /\ ~ locked[b] /\ Written(t) /\ Return(t, OK)
          /\ UNCHANGED <<vsVars, pbview, up>>
      BY <2>1 DEF ForwardPut
    <3>2. stack[t] # <<>> /\ Top(t).op = "ForwardPut"
      BY <3>1 DEF Running, Top
    <3> QED
      BY <3>1, <3>2 DEF Copies
  <2>2. CASE MoveDB(t)
    BY <2>2 DEF MoveDB, Running, Top, Copies
  <2> QED
    BY <2>1, <2>2
<1>2. b \in Servers /\ (Top(t).op = "ForwardPut" => a \in Keys \X (1 .. puts))
  BY <1>1, TopFacts DEF PutOps, Copies
<1>3. /\ \A q \in Servers : q # b => db'[q] = db[q]
      /\ Top(t).op = "MoveDB" => db'[b] = a
      /\ Top(t).op = "ForwardPut" =>
            db'[b][a[1]] = a[2] /\ \A k \in Keys : k # a[1] => db'[b][k] = db[b][k]
  BY <1>1, <1>2, ServiceData DEF Written
<1>4. Ended(stack'[t], stack[t], OK) /\ Others(t)
  BY <1>1, Effects, Constants
<1>5. n \in Nat \ {0} /\ Top(t) = stack[t][n] /\ LinksOK(stack[t]) /\ stack[t] \in Seq(Frames)
      /\ n \notin 1 .. m /\ \A i \in 1 .. n : i = n \/ i \in 1 .. m
  BY <1>1, TopRole
<1>6. /\ CriticalFrom(stack'[t], stack[t]) /\ NoCopy(stack'[t])
      /\ \A i \in 1 .. m : i # m \/ Top(t).op # "ForwardPut" => PendingTo(stack'[t], stack[t], i)
  BY <1>1, <1>4, <1>5, EndedPlain
<1> HIDE DEF a, b, n, m
<1>7. WroteInv'
  BY <1>1, <1>3, <1>4, <1>6, WroteKept DEF CriticalFrom, ReplicaInv
<1>8. \A q \in up : t # Live(q) /\ TransferDue(q) => TransferDue(q)'
  BY <1>4, TransferKept
<1>9. CopiesInv'
  <2> SUFFICES ASSUME NEW u \in Threads PROVE CopyOK(u)'
    BY DEF CopiesInv
  <2>1. \A q \in up : locked[q] => KeepsBackup(q)
    BY <1>1, <1>3, ServiceData DEF KeepsBackup
  <2>2. Orphaned => Orphaned'
    BY <1>1 DEF Orphaned, vsVars
  <2>3. CASE u = t
    BY <1>6, <2>3 DEF CopyOK, NoCopy, Top, Last
  <2>4. CASE u # t
    BY <1>4, <2>1, <2>2, <2>4, CopyKept DEF Others, ReplicaInv, CopiesInv
  <2> QED
    BY <2>3, <2>4
<1>10. SyncInv'
  <2> SUFFICES ASSUME NEW p \in up, pbview[p].Primary = p, pbview[p].Backup \in up, NEW k \in Keys
               PROVE  \/ db'[p][k] = db'[pbview[p].Backup][k]
                      \/ IsPending(p, k)'
                      \/ TransferDue(p)' /\ db'[pbview[p].Backup][k] = 0
    BY <1>1 DEF SyncInv, SyncOK
  <2> DEFINE f == stack[t][m]
  <2>1. p = view.Primary /\ p \in Servers /\ pbview[p].Backup \in Servers
    BY OnePrimary, ServiceData
  <2>2. n # 1
    BY <1>1, <2>1 DEF ReplicaInv, CopiesInv, CopyOK, Orphaned, n
  <2>3. /\ f.at = p /\ b # p /\ m \in 1 .. n /\ f.pc = "wait"
        /\ \/ f.op = "Put" /\ Top(t).op = "ForwardPut" /\ a = f.arg
           \/ f.op = "Tick" /\ Top(t).op = "MoveDB" /\ t = Live(p)
    BY <1>1, <2>1, <2>2, Caller DEF a, b, n, m
  <2>4. FromOK(f, Top(t))
    BY <1>1, <2>2 DEF ReplicaInv, CopiesInv, CopyOK, n, m
  <2> HIDE DEF f
  <2>5. db'[p] = db[p]
    BY <1>3, <2>1, <2>3
  <2>6. CASE f.op = "Tick"
    BY <1>3, <2>3, <2>4, <2>5, <2>6 DEF FromOK, a, b
  <2>7. CASE f.op = "Put"
    <3>1. t # Live(p)
      BY <1>1, <2>1, <2>3, <2>7, NoTicksThread
    <3>2. pbview[p].Backup = b
      BY <2>3, <2>4 DEF FromOK, b
    <3>3. db[p][k] = db[b][k] \/ IsPending(p, k) \/ (TransferDue(p)' /\ db[b][k] = 0)
      BY <1>8, <3>1, <3>2 DEF ReplicaInv, SyncInv, SyncOK
    <3>4. CASE k = a[1]
      <4>1. db[p][a[1]] = a[2]
        <5>1. Critical(f)
          BY <2>3, <2>7 DEF Critical, HoldsLock
        <5> QED
          BY <2>3, <2>7, <5>1 DEF ReplicaInv, WroteInv, f, n
      <4> QED
        BY <1>3, <2>3, <2>5, <2>7, <3>2, <3>4, <4>1
    <3>5. CASE k # a[1]
      <4>1. db'[b][k] = db[b][k]
        BY <1>3, <2>3, <2>7, <3>5
      <4>2. ASSUME NEW i \in 1 .. Len(stack[t]), stack[t][i].arg[1] = k
            PROVE  PendingTo(stack'[t], stack[t], i)
        <5>1. CASE i = n
          BY <1>1, <1>5, <5>1 DEF PendingTo, Pending, Critical, Copies
        <5>2. CASE i \in 1 .. m
          <6>1. i # m
            BY <2>3, <2>7, <3>5, <4>2 DEF f
          <6> QED
            BY <1>6, <5>2, <6>1
        <5> QED
          BY <1>5, <5>1, <5>2 DEF n
      <4>3. IsPending(p, k) => IsPending(p, k)'
        BY <1>4, <4>2, PendingKept
      <4> QED
        BY <2>5, <3>2, <3>3, <4>1, <4>3
    <3> QED
      BY <3>4, <3>5
  <2> QED
    BY <2>3, <2>6, <2>7
<1> QED
  BY <1>7, <1>9, <1>10 DEF ReplicaInv

\* So every step of a handler keeps it.
LEMMA HandleSync ==
    ASSUME PBInv, FailStop, ReplicaInv, NEW t \in Threads, Handle(t)
    PROVE  ReplicaInv'
  BY PlainHandles, PutEnterSync, PutStoreSync, PutForwardSync, BackupSync DEF Handle

-----------------------------------------------------------------------------
(* Clerks.                                                                 *)

\* A clerk's step is its own thread's, and none of a server's.
LEMMA ClerkEffect ==
    ASSUME PBInv, FailStop, NEW c \in Clerks, StartPut(c) \/ StartGet(c) \/ ClerkStep(c)
    PROVE  /\ Live(c) \in Threads /\ Others(Live(c)) /\ \A s \in Servers : Live(c) # Live(s)
           /\ UNCHANGED <<vsVars, pbVars>>
<1> DEFINE t == Live(c)
<1>1. t \in Threads /\ \A s \in Servers : t # Live(s)
  BY Constants DEF Threads, Owners, Live
<1> HIDE DEF t
<1>2. \A w : stack' = [stack EXCEPT ![t] = w] => Others(t)
  BY ServiceData DEF Others
<1>3. CASE StartPut(c)
  BY <1>1, <1>2, <1>3 DEF StartPut, t
<1>4. CASE StartGet(c)
  BY <1>1, <1>2, <1>4 DEF StartGet, t
<1>5. CASE ClerkStep(c)
  <2>1. UNCHANGED <<vsVars, pbVars>>
    BY <1>5 DEF ClerkStep, ClerkCall, ClerkPutReturn, ClerkGetReturn
  <2>2. CASE ClerkCall(c)
    <3>1. stack[t] # <<>> /\ \E op, arg : Call(t, view.Primary, op, arg)
      BY <2>2 DEF ClerkCall, Running, t
    <3> QED
      BY <1>1, <2>1, <3>1, Effects DEF t
  <2>3. CASE ClerkPutReturn(c) \/ ClerkGetReturn(c)
    <3>1. stack[t] # <<>> /\ (Goto(t, "start") \/ Return(t, OK))
      BY <2>3 DEF ClerkPutReturn, ClerkGetReturn, Running, t
    <3> QED
      BY <1>1, <2>1, <3>1, Effects, Constants DEF t, Pcs
  <2> QED
    BY <1>5, <2>2, <2>3 DEF ClerkStep
<1> QED
  BY <1>3, <1>4, <1>5 DEF t

\* It copies nothing.
LEMMA ClerkSync ==
    ASSUME PBInv, FailStop, ReplicaInv, NEW c \in Clerks, StartPut(c) \/ StartGet(c) \/ ClerkStep(c)
    PROVE  ReplicaInv'
<1> DEFINE t == Live(c)
<1>1. /\ t \in Threads /\ Others(t) /\ \A s \in Servers : t # Live(s)
      /\ UNCHANGED <<vsVars, db, pbview, up>>
  BY ClerkEffect DEF pbVars
<1> HIDE DEF t
<1>2. ASSUME NEW f, stack[t] = <<>>, stack' = [stack EXCEPT ![t] = <<f>>], f.op \notin Copies \cup {"Put"}
      PROVE  ReplicaInv'
  <2>1. stack'[t] = <<f>>
    BY <1>1, <1>2, ServiceData
  <2>2. CriticalFrom(stack'[t], stack[t])
    BY <1>2, <2>1 DEF CriticalFrom, Critical
  <2>3. CopyOK(t)'
    BY <1>2, <2>1 DEF CopyOK, Top, Last
  <2>4. \A i \in 1 .. Len(stack[t]) : PendingTo(stack'[t], stack[t], i)
    BY <1>2
  <2> QED
    BY <1>1, <2>2, <2>3, <2>4, PlainHandler
<1>3. CASE StartPut(c) \/ StartGet(c)
  <2>1. \E op \in {"ClerkPut", "ClerkGet"} : \E arg :
           stack[t] = <<>> /\ stack' = [stack EXCEPT ![t] = << Frame(c, op, arg) >>]
    BY <1>3 DEF StartPut, StartGet, t
  <2>2. \A op, arg : Frame(c, op, arg).op = op
    BY DEF Frame
  <2> QED
    BY <1>2, <2>1, <2>2 DEF Copies
<1>4. CASE ClerkCall(c)
  <2>1. /\ stack[t] # <<>> /\ Top(t).op \in {"ClerkPut", "ClerkGet"}
        /\ \E op \in {"Put", "Get"} : Call(t, view.Primary, op, Top(t).arg)
    BY <1>4 DEF ClerkCall, Running, Top, t
  <2> QED
    BY <1>1, <2>1, PlainCall DEF Copies, Ops
<1>5. CASE ClerkPutReturn(c) \/ ClerkGetReturn(c)
  <2>1. stack[t] # <<>> /\ Top(t).op \in {"ClerkPut", "ClerkGet"} /\ (Goto(t, "start") \/ Return(t, OK))
    BY <1>5 DEF ClerkPutReturn, ClerkGetReturn, Running, Top, t
  <2> QED
    BY <1>1, <2>1, PlainGoto, PlainReturn, Constants DEF Copies, Pcs, Pending, Critical
<1> QED
  BY <1>3, <1>4, <1>5 DEF ClerkStep

-----------------------------------------------------------------------------
(* Ticks, and time.                                                        *)

\* A ping: a primary that is down, and not declared dead, is kept.
LEMMA TickPingSync ==
    ASSUME PBInv, FailStop, ReplicaInv, NEW s \in Servers, TickPing(s)
    PROVE  ReplicaInv'
<1> DEFINE t == Live(s)
           n == pbview[s].Viewnum
<1>1. /\ s \in up /\ Resting(s) /\ PingAccepted(s, n) /\ UNCHANGED <<db, pbview, up>>
      /\ stack' = [stack EXCEPT ![t] = << Frame(s, "Tick", view') >>]
  BY DEF TickPing, Resting, pbVars
<1>2. /\ t \in Threads /\ Others(t) /\ stack[t] = <<>> /\ stack'[t] = << Frame(s, "Tick", view') >>
  BY <1>1, TickThread, ServiceData DEF Others, Resting
<1>3. /\ CriticalFrom(stack'[t], stack[t]) /\ CopyOK(t)'
      /\ \A i \in 1 .. Len(stack[t]) : PendingTo(stack'[t], stack[t], i)
  BY <1>2 DEF CriticalFrom, Critical, CopyOK, Top, Last, Frame, Copies
<1>4. \A q \in up : TransferDue(q) => TransferDue(q)'
  <2> SUFFICES ASSUME NEW q \in up, q # s PROVE stack'[Live(q)] = stack[Live(q)]
    BY <1>1 DEF TransferDue, Resting, TickFrame
  <2> QED
    BY <1>2, OtherTicks, ServiceData
<1>5. Orphaned => Orphaned'
  <2> SUFFICES ASSUME Orphaned PROVE Orphaned'
    OBVIOUS
  <2> DEFINE q == view.Primary
             p == Prepared(s, n)
  <2>1. q \in Servers /\ q # s /\ q # None /\ newView.Primary = q /\ age[q] <= DeadPings /\ q \notin up
        /\ VSTypeOK /\ VSInv
    BY <1>1, Constants, ServiceData DEF Orphaned, PBInv, ViewsInv
  <2>2. p.Primary = q
    BY <2>1 DEF Prepared, WithoutRestarted, Reassign
  <2> HIDE DEF p
  <2>3. ~ PingFirst(s, n)
    BY <2>1 DEF PingFirst, VSInv, FreshView, EmptyUnacked, NoView
  <2>4. /\ view'.Primary = q /\ newView'.Primary = q /\ age' = [age EXCEPT ![s] = 0]
    BY <1>1, <2>1, <2>2, <2>3 DEF PingAccepted, PingAdopt, PingKeep, Renumbered, Touch, p
  <2>5. age'[q] = age[q]
    BY <2>1, <2>4 DEF VSTypeOK
  <2> QED
    BY <1>1, <2>1, <2>4, <2>5 DEF Orphaned
<1> QED
  BY <1>1, <1>2, <1>3, <1>4, <1>5, PlainKeeps

\* A view is adopted: its backup is the one that was filled, or is filled next.
LEMMA TickViewSync ==
    ASSUME PBInv, FailStop, HeardInv, RoleInv, DataInv, ReplicaInv, NEW s \in Servers, TickView(s)
    PROVE  ReplicaInv'
<1> DEFINE t == Live(s)
           v == TickFrame(s).arg
           b == pbview[s].Backup
           fills == v.Primary = s /\ v.Backup \notin {b, None}
<1>1. /\ t \in Threads /\ s \in up /\ ~ Resting(s) /\ TickFrame(s).pc = "start" /\ v \in View
      /\ pbview' = [pbview EXCEPT ![s] = v] /\ UNCHANGED <<vsVars, up, db, locked>>
      /\ Others(t) /\ Len(stack[t]) = 1 /\ Top(t) = TickFrame(s)
      /\ \/ ~ fills /\ stack'[t] = <<>>
         \/ fills /\ Len(stack'[t]) = 1 /\ Like(stack'[t][1], stack[t][1], "lock", NoRes)
  BY TickViewStep
<1>2. TickFrame(s).op = "Tick" /\ stack[t][1] = TickFrame(s)
  BY <1>1, TickTops DEF TickFrame
<1>3. ~ TransferDue(s) /\ (fills => TransferDue(s)')
  <2>1. \A st : Len(st) = 1 => st # <<>>
    OBVIOUS
  <2> QED
    BY <1>1, <2>1 DEF TransferDue, Resting, TickFrame, Like
<1>4. pbview'[s] = v /\ \A q \in Servers : q # s => pbview'[q] = pbview[q]
  BY <1>1, ServiceData
<1>5. \A q \in up : q # s => (TransferDue(q)' <=> TransferDue(q))
  BY <1>1, OtherTicks, ServiceData DEF TransferDue, Resting, TickFrame
<1>6. /\ CriticalFrom(stack'[t], stack[t]) /\ CopyOK(t)'
      /\ \A i \in 1 .. Len(stack[t]) : PendingTo(stack'[t], stack[t], i)
  <2>1. \A i \in 1 .. 1 : i = 1
    OBVIOUS
  <2>2. \A i \in 1 .. Len(stack[t]) : ~ Pending(stack[t][i])
    BY <1>1, <1>2, <2>1 DEF Pending, Critical
  <2>3. CASE stack'[t] = <<>>
    BY <2>2, <2>3 DEF CriticalFrom, CopyOK, PendingTo
  <2>4. CASE Len(stack'[t]) = 1 /\ Like(stack'[t][1], stack[t][1], "lock", NoRes)
    BY <1>2, <2>1, <2>2, <2>4 DEF CriticalFrom, Critical, CopyOK, PendingTo, Like, Top, Last, Copies
  <2> QED
    BY <1>1, <2>3, <2>4
<1>7. pbview[s].Primary = s => v.Primary = s
  BY <1>1 DEF PBInv, PrimaryInv
<1>8. v.Primary = s /\ v.Backup = b /\ b \in up => pbview[s].Primary = s
  <2> SUFFICES ASSUME v.Primary = s, v.Backup = b, b \in up PROVE pbview[s].Primary = s
    OBVIOUS
  <2>1. newView.Primary = s
    BY <1>1 DEF PBInv, PrimaryInv
  <2>2. b # s /\ s # None
    BY <1>1, Constants DEF PBInv, ViewsInv, DistinctRoles
  <2>3. newView.Primary \in {pbview[s].Primary, None} \/ newView.Primary = b
    BY <1>1 DEF HeardInv, BackupOK
  <2> QED
    BY <2>1, <2>2, <2>3
<1>20. pbview[s].Primary = s /\ b \in up => v.Backup = b
  <2> SUFFICES ASSUME pbview[s].Primary = s, b \in up PROVE v.Backup = b
    OBVIOUS
  <2>1. b # s
    BY <1>1, Constants DEF PBInv, ViewsInv, DistinctRoles
  <2>2. Backs(v, s, b)
    BY <1>1 DEF RoleInv
  <2> QED
    BY <1>7, <2>1, <2>2 DEF Backs
<1>21. fills /\ v.Backup \in up => \A k \in Keys : db[v.Backup][k] = 0
  <2> SUFFICES ASSUME fills, v.Backup \in up, NEW k \in Keys PROVE db[v.Backup][k] = 0
    OBVIOUS
  <2>1. view.Primary = s
    BY <1>1 DEF PBInv, PrimaryInv
  <2>2. v.Backup # s
    BY <1>1, Constants DEF PBInv, ViewsInv, DistinctRoles
  <2> QED
    BY <1>1, <2>1, <2>2 DEF DataInv, Partner
<1> HIDE DEF v, b, fills, t
<1>9. WroteInv'
  BY <1>1, <1>6, WroteKept DEF CriticalFrom, ReplicaInv
<1>10. CopiesInv'
  <2> SUFFICES ASSUME NEW u \in Threads PROVE CopyOK(u)'
    BY DEF CopiesInv
  <2>1. pbview[s].Primary = s => KeepsBackup(s)
    BY <1>1, <1>4, <1>20 DEF KeepsBackup, b
  <2>2. \A q \in up : q # s => KeepsBackup(q)
    BY <1>1, <1>4, ServiceData DEF KeepsBackup
  <2>3. Orphaned => Orphaned'
    BY <1>1 DEF Orphaned, vsVars
  <2>4. u # t => CopyOK(u) /\ stack'[u] = stack[u]
    BY <1>1 DEF Others, ReplicaInv, CopiesInv
  <2> QED
    BY <1>6, <2>1, <2>2, <2>3, <2>4, CopyKept
<1>11. SyncInv'
  <2> SUFFICES ASSUME NEW p \in up PROVE SyncOK(p)'
    BY <1>1 DEF SyncInv
  <2>1. \A k : IsPending(p, k) => IsPending(p, k)'
    BY <1>1, <1>6, PendingKept
  <2>2. SyncOK(p)
    BY DEF ReplicaInv, SyncInv
  <2>3. CASE p # s
    BY <1>1, <1>4, <1>5, <2>1, <2>2, <2>3, ServiceData, SyncKept
  <2>4. CASE p = s
    <3> SUFFICES ASSUME v.Primary = s, v.Backup \in up, ~ fills, NEW k \in Keys
                 PROVE  db[s][k] = db[v.Backup][k] \/ IsPending(s, k)'
      BY <1>1, <1>3, <1>4, <1>21, <2>4 DEF SyncOK
    <3>1. v.Backup = b /\ b \in up
      BY ServiceData, Constants DEF fills
    <3> QED
      BY <1>3, <1>8, <2>1, <2>2, <2>4, <3>1 DEF SyncOK, b
  <2> QED
    BY <2>3, <2>4
<1> QED
  BY <1>9, <1>10, <1>11 DEF ReplicaInv

\* The primary sends its database to the backup it has, or that is down.
LEMMA TickMoveSync ==
    ASSUME PBInv, FailStop, ReplicaInv, NEW s \in Servers, TickMove(s)
    PROVE  ReplicaInv'
<1> DEFINE t == Live(s)
           b == pbview[s].Backup
           g == Frame(b, "MoveDB", db[s])
<1>1. /\ t \in Threads /\ s \in up /\ ~ Resting(s) /\ TickFrame(s).pc = "lock" /\ ~ locked[s]
      /\ Call(t, b, "MoveDB", db[s]) /\ UNCHANGED <<vsVars, up, pbview, db>>
      /\ Len(stack[t]) = 1 /\ Top(t) = TickFrame(s) /\ Top(t).op = "Tick"
  BY TickMoveStep
<1>2. /\ stack[t] # <<>> /\ stack[t] \in Seq(Frames) /\ stack[t][1] = TickFrame(s) /\ TickFrame(s).at = s
  BY <1>1, TickTops, ServiceData DEF TickFrame, Resting
<1>3. g.op = "MoveDB" /\ g.pc = "start" /\ g.at = b /\ g.arg = db[s] /\ (b \in up => g \in Frames)
  <2>1. db[s] \in [Keys -> Nat]
    <3>1. db[s] \in [Keys -> 0 .. env.puts] /\ env.puts \in Nat
      BY ServiceData
    <3> QED
      BY <3>1
  <2> QED
    BY <2>1, ServiceData, Constants DEF Frame, Frames, Owners, Pcs, Ops, Arg
<1>4. /\ Others(t)
      /\ \/ b \in up /\ (g \in Frames => Called(stack'[t], stack[t], g))
         \/ b \notin up /\ Failed(t)
  BY <1>1, <1>2, Effects
<1> HIDE DEF g
<1>5. Orphaned => Orphaned'
  BY <1>1 DEF Orphaned, vsVars
<1>6. \A q \in up : q # s => (TransferDue(q) => TransferDue(q)')
  BY <1>4, OtherTicks, ServiceData DEF TransferDue, Resting, TickFrame
<1>7. CASE b \in up /\ Called(stack'[t], stack[t], g)
  <2>1. /\ stack'[t][1].at = s /\ stack'[t][1].op = "Tick" /\ stack'[t][1].pc = "wait"
        /\ Len(stack'[t]) = 2 /\ stack'[t][2] = g /\ Top(t)' = g
    BY <1>1, <1>2, <1>7 DEF Called, Like, Top, Last
  <2>2. CopyOK(t)'
    BY <1>1, <1>3, <2>1 DEF CopyOK, FromOK
  <2>3. TransferDue(s)'
    <3>1. stack'[t] # <<>>
      BY <2>1
    <3> QED
      BY <2>1, <3>1 DEF TransferDue, Resting, TickFrame
  <2>4. /\ CriticalFrom(stack'[t], stack[t])
        /\ \A i \in 1 .. Len(stack[t]) : PendingTo(stack'[t], stack[t], i)
    BY <1>1, <1>2, <1>3, <1>7, CalledPlain
  <2> QED
    BY <1>1, <1>4, <1>5, <1>6, <2>2, <2>3, <2>4, PlainKeeps
<1>8. CASE b \notin up /\ Failed(t)
  <2>1. /\ CriticalFrom(stack'[t], stack[t]) /\ NoCopy(stack'[t])
        /\ \A i \in 1 .. Len(stack[t]) : PendingTo(stack'[t], stack[t], i)
    BY <1>1, <1>2, <1>8, MovedPlain DEF Failed, Copies, Pending, Critical
  <2>2. CopyOK(t)'
    BY <2>1 DEF CopyOK, NoCopy, Top, Last
  <2> QED
    BY <1>1, <1>4, <1>5, <1>6, <1>8, <2>1, <2>2, PlainKeeps
<1> QED
  BY <1>3, <1>4, <1>7, <1>8

\* The transfer is over: none is due.
LEMMA TickMovedSync ==
    ASSUME PBInv, FailStop, ReplicaInv, NEW s \in Servers, TickMoved(s)
    PROVE  ReplicaInv'
<1> DEFINE t == Live(s)
<1>1. /\ t \in Threads /\ s \in up /\ TickFrame(s).pc = "ret" /\ UNCHANGED <<vsVars, up, pbview, db>>
      /\ Others(t) /\ stack'[t] = <<>> /\ Len(stack[t]) = 1 /\ stack[t][1].op = "Tick"
  BY TickMovedStep DEF TickFrame
<1>2. \A i \in 1 .. 1 : i = 1
  OBVIOUS
<1>3. /\ CriticalFrom(stack'[t], stack[t]) /\ CopyOK(t)'
      /\ \A i \in 1 .. Len(stack[t]) : PendingTo(stack'[t], stack[t], i)
  BY <1>1, <1>2 DEF CriticalFrom, CopyOK, PendingTo, Pending, Critical
<1>4. \A q \in up : TransferDue(q) => TransferDue(q)'
  BY <1>1, OtherTicks, ServiceData DEF TransferDue, Resting, TickFrame
<1>5. Orphaned => Orphaned'
  BY <1>1 DEF Orphaned, vsVars
<1> QED
  BY <1>1, <1>3, <1>4, <1>5, PlainKeeps

\* Steps of which only orphaned copies take notice.
LEMMA SameStacks ==
    ASSUME ReplicaInv, UNCHANGED <<stack, db, pbview, up>>,
           \A t \in Threads : stack[t] # <<>> /\ Top(t).op \in Copies /\ Len(stack[t]) = 1 /\ Orphaned
                                 => Orphaned'
    PROVE  ReplicaInv'
<1>1. WroteInv'
  BY DEF ReplicaInv, WroteInv, Critical, HoldsLock
<1>2. CopiesInv'
  BY DEF ReplicaInv, CopiesInv, CopyOK, FromOK, Top
<1>3. SyncInv'
  BY DEF ReplicaInv, SyncInv, SyncOK, TransferDue, Resting, TickFrame, IsPending, Pending, Critical, HoldsLock
<1> QED
  BY <1>1, <1>2, <1>3 DEF ReplicaInv

\* The view server's tick keeps a primary whose time is not over.
LEMMA VSTickSync == ASSUME PBInv, ReplicaInv, VSTick PROVE ReplicaInv'
<1>1. UNCHANGED <<stack, db, pbview, up, view, age>>
      /\ newView'.Primary = (IF Expired(newView.Primary) THEN None ELSE newView.Primary)
  BY DEF VSTick, Tick, pbVars
<1>2. Orphaned => Orphaned'
  <2> SUFFICES ASSUME Orphaned PROVE ~ Expired(newView.Primary)
    BY <1>1 DEF Orphaned
  <2>1. view.Primary \in Servers /\ age[view.Primary] \in Int
    BY ServiceData DEF Orphaned, VSTypeOK
  <2> QED
    BY <2>1, DeadPingsAssumption DEF Orphaned, Expired
<1> QED
  BY <1>1, <1>2, SameStacks

\* No time passes while a copy is left over: it waits for no mutex.
LEMMA TimePassesSync ==
    ASSUME PBInv, FailStop, ReplicaInv, TimePasses
    PROVE  ReplicaInv'
<1>1. UNCHANGED <<stack, db, pbview, up>> /\ \A o \in Owners : stack[Left(o)] # <<>> => HeldUp(Left(o))
  BY DEF TimePasses, pbVars, FailStop
<1> SUFFICES ASSUME NEW t \in Threads, stack[t] # <<>>, Top(t).op \in Copies, Len(stack[t]) = 1, Orphaned
             PROVE  FALSE
  BY <1>1, SameStacks
<1>2. t[1] \in Owners /\ t = Left(t[1])
  <2>1. BottomOK(t, stack[t]) /\ Top(t) = stack[t][1] /\ 1 \in 1 .. Len(stack[t])
    BY TopFrame DEF PBInv, Core, StackOK
  <2>2. t[2] # "live"
    BY <2>1 DEF BottomOK, BottomOps, Copies
  <2> QED
    BY <2>2 DEF Threads, Left
<1>3. PICK u \in Threads : Spins(u) /\ (u = t \/ (Top(u).at = Top(t).at /\ locked[Top(t).at]))
  BY <1>1, <1>2 DEF HeldUp
<1>4. Top(u).op \in {"Put", "Relay"}
  BY <1>3 DEF Spins, Running, Top
<1>5. locked[Top(t).at]
  BY <1>3, <1>4 DEF Copies
<1>6. Top(t).at \in Servers /\ Top(t).at \in up
  <2>1. Top(t) = stack[t][Len(stack[t])] /\ Len(stack[t]) \in 1 .. Len(stack[t]) /\ Top(t).at \in Servers
    BY TopRole, TopFacts DEF Copies
  <2> QED
    BY <2>1, Constants DEF PBInv, Core, PlacesInv
<1>7. Top(t).at = view.Primary
  <2>1. PICK w \in Threads, i \in Nat : Keeps(stack[w], Top(t).at, i)
    BY <1>5, <1>6 DEF PBInv, Core, MutexInv, MutexOK
  <2> QED
    BY <1>6, <2>1, OnlyPrimaryHolds
<1> QED
  BY <1>6, <1>7 DEF Orphaned

-----------------------------------------------------------------------------
(* Crashes.                                                                *)

\* A crash, opened once.
LEMMA CrashFacts ==
    ASSUME PBInv, FailStop, NEW s \in Servers, Crash(s)
    PROVE  /\ s \in up /\ CrashedStack(s) /\ Survive(s) /\ up' = up \ {s} /\ UNCHANGED vsVars
           /\ \A q \in Servers : q # s => pbview'[q] = pbview[q] /\ db'[q] = db[q]
<1>1. /\ s \in up /\ LeavesOnePart(s) /\ CrashedStack(s) /\ UNCHANGED vsVars
      /\ up' = up \ {s} /\ pbview' = [pbview EXCEPT ![s] = NoView]
      /\ db' = [db EXCEPT ![s] = Empty]
  BY DEF Crash, CrashedStack
<1>2. Survive(s)
  BY <1>1, Survivors DEF PBInv, Core
<1> QED
  BY <1>1, <1>2, ServiceData

\* The views that the others have heard of are the same.
LEMMA CrashHeard ==
    ASSUME PBInv, FailStop, NEW s \in Servers, Crash(s)
    PROVE  HeardKept
<1>1. /\ CrashedStack(s) /\ up' = up \ {s} /\ UNCHANGED vsVars /\ up \subseteq Servers
      /\ \A q \in Servers : q # s => pbview'[q] = pbview[q]
  BY CrashFacts, ServiceData
<1>2. \A q \in Servers : q # s => BottomKept(stack'[Live(q)], stack[Live(q)])
  BY <1>1, CrashTicks DEF PBInv, Core
<1>3. \A q \in up' :
         /\ pbview'[q] = pbview[q]
         /\ ~ Resting(q)' =>
               /\ ~ Resting(q) /\ TickFrame(q).arg' = TickFrame(q).arg
               /\ (TickFrame(q).pc # "start")' => TickFrame(q).pc # "start"
  BY <1>1, <1>2 DEF BottomKept, Resting, TickFrame
<1> QED
  BY <1>1, <1>3 DEF HeardKept, vsVars

\* A frame that is left is one that was there.
LEMMA LeftFrame ==
    ASSUME PBInv, NEW s, Survive(s), NEW t \in Threads, NEW i \in 1 .. Len(stack'[t])
    PROVE  LET u == From(t)
               a == Offset(t, s)
           IN  /\ u \in Threads /\ i \in Nat /\ a \in Nat /\ a + i \in 1 .. Len(stack[u])
               /\ Kept(stack'[t][i], stack[u][a + i]) /\ stack'[t][i].at # s
<1> DEFINE w == stack'[t]
           u == From(t)
           st == stack[u]
           a == Offset(t, s)
<1>1. u \in Threads /\ w \in Seq(Frames) /\ a \in Nat /\ a + Len(w) <= Len(st)
      /\ Kept(w[i], st[a + i]) /\ w[i].at # s
  BY DEF Survive, PieceOf
<1>2. Len(st) \in Nat /\ Len(w) \in Nat /\ i \in 1 .. Len(w)
  BY <1>1, ServiceData
<1> HIDE DEF w, u, st, a
<1>3. i \in Nat /\ a + i \in 1 .. Len(st)
  BY <1>1, <1>2
<1> QED
  BY <1>1, <1>3 DEF w, u, st, a

\* A transfer goes on unless its backup is the one that crashed.
LEMMA CrashTransfer ==
    ASSUME PBInv, CopiesInv, NEW s \in Servers, CrashedStack(s), NEW q \in Servers, q # s,
           TransferDue(q), pbview[q].Backup # s
    PROVE  TransferDue(q)'
<1> DEFINE t == Live(q)
           st == stack[t]
<1> SUFFICES stack'[t] = st
  BY DEF TransferDue, Resting, TickFrame
<1>0. ~ Resting(q)
  BY DEF TransferDue
<1>1. /\ t \in Threads /\ TickFrame(q).at = q /\ TickFrame(q).op = "Tick" /\ st[1] = TickFrame(q)
      /\ \/ Len(st) = 1 /\ TickFrame(q).pc # "wait"
         \/ /\ Len(st) = 2 /\ Top(t) = st[2] /\ Top(t).op = "MoveDB"
            /\ TickFrame(q).pc = "wait" /\ TickFrame(q) = st[Len(st) - 1]
  BY <1>0, TickTops DEF TickFrame
<1>2. st # <<>> /\ st \in Seq(Frames)
  BY <1>0, <1>1, ServiceData DEF Resting
<1>3. \A i \in 1 .. Len(st) : st[i].at # s
  <2>1. CASE Len(st) = 1
    <3>1. \A i \in 1 .. 1 : i = 1
      OBVIOUS
    <3> QED
      BY <1>1, <2>1, <3>1
  <2>2. CASE Len(st) # 1
    <3>1. \A i \in 1 .. 2 : i = 1 \/ i = 2
      OBVIOUS
    <3>2. FromOK(TickFrame(q), Top(t))
      BY <1>1, <1>2, <2>2 DEF CopiesInv, CopyOK, Copies
    <3>3. Top(t).at = pbview[q].Backup
      BY <1>1, <3>2 DEF FromOK
    <3> QED
      BY <1>1, <2>2, <3>1, <3>3
  <2> QED
    BY <2>1, <2>2
<1>4. stack'[t] = Below(st, s)
  <2>1. t[2] # "left"
    BY DEF Live
  <2> QED
    BY <1>1, <2>1 DEF CrashedStack
<1> HIDE DEF st, t
<1>5. FirstAt(st, s) = 0
  <2>1. IsFirst(st, s, FirstAt(st, s))
    BY <1>2, FirstFacts
  <2>2. \A n \in Nat : \A k \in 0 .. n : k # 0 => k \in 1 .. n
    OBVIOUS
  <2> QED
    BY <1>2, <1>3, <2>1, <2>2 DEF IsFirst
<1> QED
  BY <1>4, <1>5 DEF Below

\* A copy that loses the frame that waits for it has lost the primary.
LEMMA CrashOrphan ==
    ASSUME PBInv, FailStop, CopiesInv, NEW s \in Servers, Crash(s), NEW t \in Threads,
           stack'[t] # <<>>, Top(t)'.op \in Copies
    PROVE  CopyOK(t)'
<1> DEFINE w == stack'[t]
           m == Len(w)
           u == From(t)
           st == stack[u]
           a == Offset(t, s)
           g == w[m]
<1>1. /\ s \in up /\ CrashedStack(s) /\ Survive(s) /\ up' = up \ {s} /\ UNCHANGED vsVars
      /\ \A q \in Servers : q # s => pbview'[q] = pbview[q] /\ db'[q] = db[q]
  BY CrashFacts
<1>2. /\ StackOK(t, w, env', puts', stored') /\ w \in Seq(Frames) /\ Top(t)' = g /\ m \in Nat \ {0}
      /\ m \in 1 .. m /\ m - 1 \in Nat /\ (m # 1 => m - 1 \in 1 .. m /\ m - 1 \in 1 .. m - 1) /\ (m - 1) + 1 = m
  <2>1. StackOK(t, w, env', puts', stored') /\ w \in Seq(Frames)
    BY CrashInv DEF PBInv, Core, StacksInv
  <2>2. \A n \in Nat \ {0} : n \in 1 .. n /\ n - 1 \in Nat /\ (n # 1 => n - 1 \in 1 .. n /\ n - 1 \in 1 .. n - 1) /\ (n - 1) + 1 = n
    OBVIOUS
  <2>3. m \in Nat \ {0}
    BY <2>1
  <2> HIDE DEF m
  <2> QED
    BY <2>1, <2>2, <2>3 DEF Top, Last, m
<1>3. g.pc = "start" /\ g.op \in Copies
  BY <1>2 DEF StackOK, FramesOK, FrameOK, PcOK, Copies
<1>4. /\ u \in Threads /\ a \in Nat /\ a + m \in 1 .. Len(st) /\ Kept(g, st[a + m])
  BY <1>1, <1>2, LeftFrame
<1>5. st[a + m] = g
  BY <1>3, <1>4 DEF Kept
<1>6. a + m = Len(st) /\ st # <<>> /\ Top(u) = g
  <2>1. LinksOK(st) /\ st \in Seq(Frames) /\ Len(st) \in Nat
    BY <1>4, ServiceData DEF PBInv, Core, StacksInv, StackOK
  <2> HIDE DEF w, m, u, st, a, g
  <2>2. a + m # Len(st) => a + m \in 1 .. Len(st) - 1
    BY <1>2, <1>4, <2>1
  <2>3. a + m = Len(st)
    BY <1>3, <1>5, <2>1, <2>2 DEF LinksOK
  <2>4. st # <<>>
    BY <1>2, <1>4, <2>1, <2>3
  <2> QED
    BY <1>5, <2>3, <2>4 DEF Top, Last, st
<1>7. CopyOK(u)
  BY <1>4 DEF CopiesInv
<1>8. m # 1 => LET f == w[m - 1] IN f.pc = "wait" /\ f = st[a + (m - 1)] /\ f.at # s
  <2> SUFFICES ASSUME m # 1
               PROVE  w[m - 1].pc = "wait" /\ w[m - 1] = st[a + (m - 1)] /\ w[m - 1].at # s
    OBVIOUS
  <2>1. w[m - 1].pc = "wait"
    BY <1>2 DEF StackOK, LinksOK
  <2>2. Kept(w[m - 1], st[a + (m - 1)]) /\ w[m - 1].at # s
    BY <1>1, <1>2, LeftFrame
  <2> QED
    BY <2>1, <2>2 DEF Kept
<1> HIDE DEF w, m, u, st, a, g
<1>9. a + (m - 1) = Len(st) - 1 /\ (Len(st) = 1 => m = 1) /\ (m = 1 => a = Len(st) - 1)
  BY <1>2, <1>4, <1>6
<1>10. CASE m # 1
  <2> DEFINE f == w[m - 1]
  <2>1. Len(st) # 1 /\ f = st[Len(st) - 1]
    BY <1>8, <1>9, <1>10
  <2>2. FromOK(f, g)
    BY <1>3, <1>6, <1>7, <2>1 DEF CopyOK, st
  <2>3. f.at \in Servers /\ f.at # s
    <3>1. st[Len(st) - 1].at \in Servers
      BY <1>3, <1>4, <1>6, <2>1, Caller DEF st
    <3> QED
      BY <1>8, <1>10, <2>1, <3>1
  <2> HIDE DEF f
  <2>4. g.at = pbview'[f.at].Backup /\ (f.op = "Tick" => g.arg = db'[f.at])
    BY <1>1, <2>2, <2>3 DEF FromOK
  <2>5. FromOK(stack[t][Len(stack[t]) - 1], Top(t))'
    BY <1>2, <2>4 DEF FromOK, f, w, m
  <2> QED
    BY <1>10, <2>5 DEF CopyOK, w, m
<1>11. CASE m = 1 /\ Len(st) = 1
  <2>1. Orphaned
    BY <1>3, <1>6, <1>7, <1>11 DEF CopyOK, st
  <2>2. Orphaned'
    BY <1>1, <2>1 DEF Orphaned, vsVars
  <2> QED
    BY <1>11, <2>2 DEF CopyOK, w, m
<1>12. CASE m = 1 /\ Len(st) # 1
  <2>1. st[Len(st) - 1].at = view.Primary
    BY <1>3, <1>4, <1>6, <1>12, Caller DEF st
  <2>2. a # 0
    BY <1>2, <1>4, <1>9, <1>12
  <2>3. TakesOver(t, s)
    BY <1>1, <2>2, ThreadParts DEF Stays, a
  <2>4. u = Live(t[1]) /\ a = RestAt(st, s) /\ w = Above(st, s)
    BY <2>3 DEF TakesOver, u, a, w, st
  <2>5. st \in Seq(Frames) /\ LinksOK(st)
    BY <1>4, ServiceData DEF PBInv, Core, StacksInv, StackOK, st
  <2>6. FirstAt(st, s) # 0 /\ FirstAt(st, s) <= a /\ FirstAt(st, s) \in 0 .. Len(st)
    <3>1. w # <<>>
      BY DEF w
    <3> QED
      BY <2>4, <2>5, <3>1, AbovePiece, FirstFacts DEF IsFirst
  <2>7. st[a].at = s
    <3>1. a \in FirstAt(st, s) .. a
      BY <1>4, <2>5, <2>6
    <3>2. \A i \in FirstAt(st, s) .. a : st[i].at = s
      BY <2>4, <2>5, <2>6, RestFacts DEF IsRest
    <3> QED
      BY <3>1, <3>2
  <2>8. view.Primary = s
    BY <1>9, <1>12, <2>1, <2>7
  <2>9. Orphaned'
    BY <1>1, <2>8 DEF Orphaned, PBInv, PrimaryInv, vsVars
  <2> QED
    BY <1>12, <2>9 DEF CopyOK, w, m
<1> QED
  BY <1>10, <1>11, <1>12

\* A crash keeps what the others hold.
LEMMA CrashSync ==
    ASSUME PBInv, FailStop, ReplicaInv, NEW s \in Servers, Crash(s)
    PROVE  ReplicaInv'
<1>1. /\ s \in up /\ CrashedStack(s) /\ Survive(s) /\ up' = up \ {s} /\ UNCHANGED vsVars
      /\ \A q \in Servers : q # s => pbview'[q] = pbview[q] /\ db'[q] = db[q]
  BY CrashFacts
<1>2. WroteInv'
  <2> SUFFICES ASSUME NEW t \in Threads, NEW i \in 1 .. Len(stack'[t]), Critical(stack'[t][i])
               PROVE  db'[stack'[t][i].at][stack'[t][i].arg[1]] = stack'[t][i].arg[2]
    BY DEF WroteInv, Critical, HoldsLock
  <2> DEFINE g == stack'[t][i]
             u == From(t)
             j == Offset(t, s) + i
             f == stack[u][j]
  <2>1. u \in Threads /\ j \in 1 .. Len(stack[u]) /\ Kept(g, f) /\ g.at # s
    BY <1>1, LeftFrame
  <2>2. Critical(f)
    BY <2>1 DEF Kept, Critical
  <2> HIDE DEF j, u
  <2>3. f.at \in Servers /\ db[f.at][f.arg[1]] = f.arg[2]
    BY <2>1, <2>2, CriticalLocked DEF ReplicaInv, WroteInv
  <2> QED
    BY <1>1, <2>1, <2>3 DEF Kept
<1>3. CopiesInv'
  BY CrashOrphan DEF CopiesInv, CopyOK, ReplicaInv
<1>4. SyncInv'
  <2> SUFFICES ASSUME NEW p \in up, p # s PROVE SyncOK(p)'
    BY <1>1 DEF SyncInv
  <2>1. p \in Servers /\ up \subseteq Servers
    BY ServiceData
  <2>2. TransferDue(p) /\ pbview[p].Backup # s => TransferDue(p)'
    BY <1>1, <2>1, CrashTransfer DEF ReplicaInv
  <2>3. ASSUME NEW k \in Keys, IsPending(p, k) PROVE IsPending(p, k)'
    <3>1. PICK u \in Threads : \E j \in 1 .. Len(stack[u]) :
             Pending(stack[u][j]) /\ stack[u][j].at = p /\ stack[u][j].arg[1] = k
      BY <2>3 DEF IsPending
    <3>2. PICK j \in 1 .. Len(stack[u]) :
             Pending(stack[u][j]) /\ stack[u][j].at = p /\ stack[u][j].arg[1] = k
      BY <3>1
    <3>3. j \in Nat
      BY ServiceData
    <3>4. PICK t \in Threads, i \in Nat : i \in 1 .. Len(stack'[t]) /\ From(t) = u /\ j = Offset(t, s) + i
      BY <1>1, <3>2, <3>3 DEF Survive
    <3>5. Kept(stack'[t][i], stack[u][j])
      BY <1>1, <3>4, LeftFrame
    <3>6. Pending(stack'[t][i]) /\ stack'[t][i].at = p /\ stack'[t][i].arg[1] = k
      BY <3>2, <3>5 DEF Kept, Pending, Critical
    <3> QED
      BY <3>4, <3>6 DEF IsPending, Pending, Critical, HoldsLock
  <2> QED
    BY <1>1, <2>1, <2>2, <2>3, SyncKept DEF ReplicaInv, SyncInv
<1> QED
  BY <1>2, <1>3, <1>4 DEF ReplicaInv

-----------------------------------------------------------------------------
(* Steps.                                                                  *)

\* Without a step of the view server or a tick that pings, views stay.
LEMMA OtherHeard ==
    ASSUME PBInv, FailStop,
           \/ \E c \in Clerks : StartPut(c) \/ StartGet(c) \/ ClerkStep(c)
           \/ \E t \in Threads : Handle(t)
           \/ \E s \in Servers : TickMove(s) \/ TickMoved(s)
           \/ TimePasses
           \/ UNCHANGED vars
    PROVE  HeardKept
<1>1. up \subseteq Servers
  BY ServiceData
<1>2. CASE \E c \in Clerks : StartPut(c) \/ StartGet(c) \/ ClerkStep(c)
  <2>1. PICK c \in Clerks : StartPut(c) \/ StartGet(c) \/ ClerkStep(c)
    BY <1>2
  <2>2. Others(Live(c)) /\ UNCHANGED <<vsVars, pbVars>>
    BY <2>1, ClerkEffect
  <2> QED
    BY <1>1, <2>2, ClerkTicks, HeardTicksKept DEF vsVars, pbVars
<1>3. CASE \E t \in Threads : Handle(t)
  <2>1. TicksKept /\ Quiet
    BY <1>3, HandleKeeps, HandleData DEF Handled
  <2> QED
    BY <1>1, <2>1, HeardTicksKept DEF Quiet, vsVars
<1>4. CASE \E s \in Servers : TickMove(s)
  BY <1>1, <1>4, TickMoveStep, HeardTicksKept DEF vsVars
<1>5. CASE \E s \in Servers : TickMoved(s)
  <2>1. PICK s \in Servers : TickMoved(s)
    BY <1>5
  <2>2. /\ UNCHANGED <<vsVars, up, pbview>> /\ Others(Live(s)) /\ stack'[Live(s)] = <<>>
    BY <2>1, TickMovedStep
  <2>3. \A q \in Servers : Resting(q)' \/ stack'[Live(q)] = stack[Live(q)]
    BY <2>2, OtherTicks DEF Resting
  <2>4. \A q \in up' :
           /\ pbview'[q] = pbview[q]
           /\ ~ Resting(q)' =>
                 /\ ~ Resting(q) /\ TickFrame(q).arg' = TickFrame(q).arg
                 /\ (TickFrame(q).pc # "start")' => TickFrame(q).pc # "start"
    BY <1>1, <2>2, <2>3 DEF Resting, TickFrame
  <2> QED
    BY <1>1, <2>2, <2>4 DEF HeardKept, vsVars
<1>6. CASE TimePasses \/ UNCHANGED vars
  <2>1. UNCHANGED <<view, newView, update, pbview, up, stack>>
    BY <1>6 DEF TimePasses, Elapse, vars, vsVars, pbVars
  <2>2. TicksKept
    BY <2>1 DEF TicksKept, BottomKept
  <2> QED
    BY <1>1, <2>1, <2>2, HeardTicksKept
<1> QED
  BY <1>2, <1>3, <1>4, <1>5, <1>6

\* The environment stays.
LEMMA SameEnv == PBInv /\ [Next]_vars => env' = env
<1> SUFFICES ASSUME PBInv, [Next]_vars PROVE env' = env
  OBVIOUS
<1>1. \A t \in Threads : Handle(t) => env' = env
  BY HandleData DEF Quiet
<1>2. \A c \in Clerks : StartPut(c) \/ StartGet(c) \/ ClerkStep(c) => env' = env
  BY DEF StartPut, StartGet, ClerkStep, ClerkCall, ClerkPutReturn, ClerkGetReturn, pbVars
<1>3. \A s \in Servers : TickPing(s) \/ TickPingFails(s) \/ TickStep(s) => env' = env
  BY DEF TickPing, TickPingFails, TickStep, TickView, TickMove, TickMoved, pbVars
<1>4. \A s \in Servers : Crash(s) \/ Restart(s) => env' = env
  BY DEF Crash, Restart
<1>5. VSTick \/ TimePasses \/ UNCHANGED vars => env' = env
  BY DEF VSTick, TimePasses, vars, pbVars
<1> QED
  BY <1>1, <1>2, <1>3, <1>4, <1>5 DEF Next

\* If servers at worst crash, these are the steps.
FailStopNext ==
    \/ \E c \in Clerks : StartPut(c) \/ StartGet(c) \/ ClerkStep(c)
    \/ \E t \in Threads : Handle(t)
    \/ \E s \in Servers : TickPing(s) \/ TickView(s) \/ TickMove(s) \/ TickMoved(s) \/ Crash(s)
    \/ VSTick
    \/ TimePasses
    \/ UNCHANGED vars

\* No ping fails, and no server comes back.
LEMMA FailStopSteps == FailStop /\ [Next]_vars => FailStopNext
  BY DEF FailStop, Next, TickPingFails, Restart, TickStep, FailStopNext

\* Every step keeps what servers have heard of ...
LEMMA NextHeard ==
    ASSUME PBInv, FailStop, HeardInv, AckInv, RoleInv, FailStopNext
    PROVE  HeardInv' /\ AckInv' /\ RoleInv'
<1>1. ASSUME NEW s \in Servers, TickPing(s) PROVE HeardInv' /\ AckInv' /\ RoleInv'
  BY <1>1, TickPingHeard, TickPingRoles
<1>2. ASSUME NEW s \in Servers, TickView(s) PROVE HeardInv' /\ AckInv' /\ RoleInv'
  BY <1>2, TickViewHeard, TickViewRoles
<1>3. ASSUME NEW s \in Servers, Crash(s) PROVE HeardInv' /\ AckInv' /\ RoleInv'
  BY <1>3, CrashHeard, HeardSame
<1>4. CASE VSTick
  BY <1>4, VSTickHeard, VSTickRoles
<1>5. CASE \/ \E c \in Clerks : StartPut(c) \/ StartGet(c) \/ ClerkStep(c)
           \/ \E t \in Threads : Handle(t)
           \/ \E s \in Servers : TickMove(s) \/ TickMoved(s)
           \/ TimePasses
           \/ UNCHANGED vars
  <2>1. HeardKept
    BY <1>5, OtherHeard
  <2> QED
    BY <2>1, HeardSame
<1> QED
  BY <1>1, <1>2, <1>3, <1>4, <1>5 DEF FailStopNext

\* ... and what they hold.
LEMMA NextReplica ==
    ASSUME PBInv, FailStop, HeardInv, RoleInv, DataInv, ReplicaInv, FailStopNext
    PROVE  ReplicaInv'
<1>1. CASE UNCHANGED vars
  BY <1>1, SameStacks DEF vars, vsVars, pbVars, Orphaned
<1> QED
  BY <1>1, ClerkSync, HandleSync, TickPingSync, TickViewSync, TickMoveSync, TickMovedSync, CrashSync,
     VSTickSync, TimePassesSync DEF FailStopNext

-----------------------------------------------------------------------------
(* Where frames come from.                                                 *)

\* Frame g goes on as frame f, with the good answer that f has, if any, ...
Continues(g, f) ==
    /\ g.at = f.at /\ g.op = f.op /\ g.arg = f.arg
    /\ g.pc = "ret" => g = f \/ g.res = Fail
    /\ f.pc = "ret" /\ f.res.err = "OK" => g = f

\* ... or does what f is to do: at the server that f's side takes for the
\* primary, or the backup.
PassedOn(g, f) ==
    /\ g.pc = "start" /\ g.arg = f.arg
    /\ \/ f.op = "ClerkPut" /\ g.op = "Put" /\ g.at = view.Primary
       \/ f.op = "ClerkGet" /\ g.op = "Get" /\ g.at = view.Primary
       \/ f.op = "Put" /\ g.op = "Relay" /\ g.at = f.at
       \/ f.op = "Relay" /\ g.op = "Put" /\ g.at = pbview[f.at].Primary
       \/ f.op = "Put" /\ g.op = "ForwardPut" /\ g.at = pbview[f.at].Backup

HasSource(t, g) ==
    \E u \in Threads : u[1] = t[1] /\ \E j \in 1 .. Len(stack[u]) :
        Continues(g, stack[u][j]) \/ PassedOn(g, stack[u][j])

\* Every frame comes from one of the same owner's, or is one of these.
FlowBut(New) ==
    \A t \in Threads : \A i \in 1 .. Len(stack'[t]) :
        HasSource(t, stack'[t][i]) \/ <<t, stack'[t][i]>> \in New

\* The frame below the top of t, when it gets answer r.
Answered(t, r) ==
    LET f == stack[t][Len(stack[t]) - 1]
    IN  [at |-> f.at, op |-> f.op, pc |-> "ret", arg |-> f.arg, res |-> r]
Answer(t, r) == IF Len(stack[t]) = 1 THEN {} ELSE {<<t, Answered(t, r)>>}

\* A frame that was there has itself as its source.
LEMMA SameSource ==
    ASSUME NEW t \in Threads, NEW i \in 1 .. Len(stack[t]), NEW g, g = stack[t][i]
    PROVE  HasSource(t, g)
  BY DEF HasSource, Continues

\* It is enough to look at one thread.
LEMMA OneFlow ==
    ASSUME NEW t \in Threads, Others(t), NEW New,
           \A i \in 1 .. Len(stack'[t]) : HasSource(t, stack'[t][i]) \/ <<t, stack'[t][i]>> \in New
    PROVE  FlowBut(New)
<1> SUFFICES ASSUME NEW u \in Threads, u # t, NEW i \in 1 .. Len(stack'[u])
             PROVE  HasSource(u, stack'[u][i])
  BY DEF FlowBut
<1>1. stack'[u] = stack[u]
  BY DEF Others
<1> QED
  BY <1>1, SameSource

\* The top frame moves on, with no answer.
LEMMA MovedFlow ==
    ASSUME PBInv, NEW t \in Threads, stack[t] # <<>>, Others(t), NEW pc, NEW r,
           Moved(stack'[t], stack[t], pc, r), pc = "ret" => r = Fail,
           Top(t).pc = "ret" => Top(t).res.err # "OK"
    PROVE  FlowBut({})
<1> DEFINE n == Len(stack[t])
<1>1. n \in Nat \ {0} /\ Top(t) = stack[t][n]
  BY TopRole
<1>2. /\ Len(stack'[t]) = n /\ \A i \in 1 .. n - 1 : stack'[t][i] = stack[t][i]
      /\ Continues(stack'[t][n], stack[t][n])
  BY <1>1 DEF Moved, Like, Continues
<1>3. \A i \in 1 .. n : i = n \/ i \in 1 .. n - 1
  BY <1>1
<1> HIDE DEF n
<1>4. \A i \in 1 .. n : HasSource(t, stack'[t][i])
  BY <1>2, <1>3 DEF HasSource, Continues, n
<1> QED
  BY <1>2, <1>4, OneFlow

\* The top frame ends, and the one below has the answer.
LEMMA EndedFlow ==
    ASSUME PBInv, NEW t \in Threads, stack[t] # <<>>, Others(t), NEW r, Ended(stack'[t], stack[t], r)
    PROVE  FlowBut(Answer(t, r))
<1> DEFINE n == Len(stack[t])
           m == n - 1
<1>1. n \in Nat \ {0} /\ stack[t] \in Seq(Frames)
  BY TopRole
<1>2. CASE n = 1
  BY <1>2, OneFlow DEF Ended
<1>3. CASE n # 1
  <2>0. \A k \in Nat : k # 0 /\ k # 1 =>
           k - 1 \in 1 .. k /\ \A i \in 1 .. k - 1 : i \in 1 .. k /\ (i = k - 1 \/ i \in 1 .. (k - 1) - 1)
    OBVIOUS
  <2>1. m \in 1 .. n /\ \A i \in 1 .. m : i \in 1 .. n /\ (i = m \/ i \in 1 .. m - 1)
    BY <1>1, <1>3, <2>0
  <2>2. /\ Len(stack'[t]) = m /\ \A i \in 1 .. m - 1 : stack'[t][i] = stack[t][i]
        /\ Like(stack'[t][m], stack[t][m], "ret", r)
    BY <1>3 DEF Ended, CutAt
  <2>3. stack'[t][m] = Answered(t, r)
    <3> DEFINE g == stack'[t][m]
               f == stack[t][m]
    <3>1. g \in Frames /\ g.at = f.at /\ g.op = f.op /\ g.pc = "ret" /\ g.arg = f.arg /\ g.res = r
      BY <2>2 DEF Like
    <3> HIDE DEF g, f
    <3>2. g = [at |-> f.at, op |-> f.op, pc |-> "ret", arg |-> f.arg, res |-> r]
      BY <3>1 DEF Frames
    <3> QED
      BY <3>2 DEF Answered, g, f
  <2> HIDE DEF m
  <2>4. \A i \in 1 .. m : HasSource(t, stack'[t][i]) \/ <<t, stack'[t][i]>> \in Answer(t, r)
    BY <1>3, <2>1, <2>2, <2>3, SameSource DEF Answer
  <2> QED
    BY <2>2, <2>4, OneFlow
<1> QED
  BY <1>2, <1>3

\* The top frame calls, or leaves a call behind.
LEMMA CallFlow ==
    ASSUME PBInv, NEW t \in Threads, stack[t] # <<>>, NEW srv, NEW op \in Ops, NEW arg \in Arg,
           Top(t).pc # "ret", Call(t, srv, op, arg), NEW New,
           LET g == Frame(srv, op, arg)
           IN  PassedOn(g, Top(t)) \/ \A u \in Threads : <<u, g>> \in New
    PROVE  FlowBut(New)
<1> DEFINE g == Frame(srv, op, arg)
           n == Len(stack[t])
<1>1. /\ stack \in [Threads -> Seq(Frames)] /\ stack[t] \in Seq(Frames) /\ n \in Nat \ {0}
      /\ Top(t) = stack[t][n] /\ n \in 1 .. n /\ Top(t) \in Frames
  BY ServiceData, TopRole
<1>2. srv \in up => g \in Frames
  BY <1>1, ServiceData, Constants DEF Frame, Frames, Owners, Pcs
<1>3. \A u \in Threads : u[1] = t[1] => HasSource(u, g) \/ <<u, g>> \in New
  <2> HIDE DEF g
  <2>1. CASE PassedOn(g, Top(t))
    BY <1>1, <2>1 DEF HasSource
  <2> QED
    BY <2>1 DEF g
<1> HIDE DEF g
<1>4. CASE srv \in up /\ stack' = [stack EXCEPT ![t] = At(@, "wait", NoRes) \o << g >>]
  <2> DEFINE w == At(stack[t], "wait", NoRes) \o << g >>
  <2>1. Called(w, stack[t], g)
    BY <1>1, <1>2, <1>4, Steps, Constants
  <2>2. stack' = [stack EXCEPT ![t] = w]
    BY <1>4
  <2> HIDE DEF w
  <2>3. stack'[t] = w /\ Others(t)
    BY <1>1, <2>2 DEF Others
  <2>4. /\ Len(w) = n + 1 /\ \A i \in 1 .. n - 1 : w[i] = stack[t][i]
        /\ Continues(w[n], stack[t][n]) /\ w[n + 1] = g
    BY <1>1, <2>1 DEF Called, Like, Continues
  <2>5. \A i \in 1 .. n + 1 : i = n + 1 \/ i = n \/ i \in 1 .. n - 1
    BY <1>1
  <2>6. \A i \in 1 .. n - 1 : i \in 1 .. n
    BY <1>1
  <2> HIDE DEF n
  <2>7. HasSource(t, w[n])
    BY <1>1, <2>4 DEF HasSource, n
  <2>8. \A i \in 1 .. n - 1 : HasSource(t, w[i])
    BY <2>4, <2>6, SameSource DEF n
  <2>9. \A i \in 1 .. n + 1 : HasSource(t, w[i]) \/ <<t, w[i]>> \in New
    BY <1>3, <2>4, <2>5, <2>7, <2>8
  <2> QED
    BY <2>3, <2>4, <2>9, OneFlow
<1>5. CASE stack' = [stack EXCEPT ![t] = At(@, "ret", Fail)]
  <2>1. Moved(stack'[t], stack[t], "ret", Fail) /\ Others(t)
    <3>1. Moved(At(stack[t], "ret", Fail), stack[t], "ret", Fail)
      BY <1>1, Steps, Constants DEF Pcs
    <3> QED
      BY <1>1, <1>5, <3>1 DEF Others
  <2> QED
    BY <2>1, MovedFlow DEF FlowBut
<1>6. CASE /\ srv \in up /\ t[2] = "live"
           /\ stack' = [stack EXCEPT ![t] = At(@, "ret", Fail), ![Left(t[1])] = << g >>]
  <2> DEFINE w == At(stack[t], "ret", Fail)
             l == Left(t[1])
  <2>1. l \in Threads /\ l # t /\ l[1] = t[1]
    BY <1>6 DEF Left, Threads, Owners
  <2>2. Moved(w, stack[t], "ret", Fail)
    BY <1>1, Steps, Constants DEF Pcs
  <2>3. stack' = [stack EXCEPT ![t] = w, ![l] = << g >>]
    BY <1>6
  <2> HIDE DEF w, l
  <2>4. /\ stack'[t] = w /\ stack'[l] = << g >>
        /\ \A u \in Threads : u # t /\ u # l => stack'[u] = stack[u]
    BY <1>1, <2>1, <2>3
  <2>5. /\ Len(w) = n /\ \A i \in 1 .. n - 1 : w[i] = stack[t][i]
        /\ Continues(w[n], stack[t][n])
    BY <1>1, <2>2 DEF Moved, Like, Continues
  <2>6. \A i \in 1 .. n : i = n \/ i \in 1 .. n - 1
    BY <1>1
  <2> HIDE DEF n
  <2>7. \A i \in 1 .. n : HasSource(t, w[i])
    BY <2>5, <2>6 DEF HasSource, Continues, n
  <2>8. HasSource(l, g) \/ <<l, g>> \in New
    BY <1>3, <2>1
  <2>9. \A i \in 1 .. Len(<<g>>) : <<g>>[i] = g
    OBVIOUS
  <2>10. ASSUME NEW u \in Threads, NEW i \in 1 .. Len(stack'[u]) 
        PROVE  HasSource(u, stack'[u][i]) \/ <<u, stack'[u][i]>> \in New
    <3>1. CASE u = t
      BY <2>4, <2>5, <2>7, <3>1
    <3>2. CASE u = l
      BY <2>4, <2>8, <2>9, <3>2
    <3>3. CASE u # t /\ u # l
      BY <2>4, <3>3, SameSource
    <3> QED
      BY <3>1, <3>2, <3>3
  <2> QED
    BY <2>10 DEF FlowBut
<1>7. \/ srv \in up /\ stack' = [stack EXCEPT ![t] = At(@, "wait", NoRes) \o << g >>]
      \/ stack' = [stack EXCEPT ![t] = At(@, "ret", Fail)]
      \/ /\ srv \in up /\ t[2] = "live"
         /\ stack' = [stack EXCEPT ![t] = At(@, "ret", Fail), ![Left(t[1])] = << g >>]
  BY DEF Call, g
<1> QED
  BY <1>4, <1>5, <1>6, <1>7

\* What the handler that ends in t answers.
Read(t) ==
    LET v == db[Top(t).at][Top(t).arg[1]] IN IF v = 0 THEN NoKey ELSE [err |-> "OK", val |-> v]

AnswersWith(t, r) ==
    /\ stack[t] # <<>> /\ Return(t, r) /\ r \in Res
    /\ \/ Top(t).op = "Get" /\ r = WrongServer
       \/ Top(t).op = "Get" /\ GetRead(t) /\ r = Read(t)
       \/ Top(t).op = "Put" /\ ~ connected[Top(t).at] /\ r = WrongServer
       \/ Top(t).op = "Put" /\ Top(t).pc = "forward" /\ pbview[Top(t).at].Backup = None /\ r = OK
       \/ Top(t).op \in {"Put", "Relay"} /\ Top(t).pc = "ret" /\ Top(t).res # Fail /\ r = Top(t).res
       \/ Top(t).op \in Copies /\ r = OK

\* It ends, ...
LEMMA AnswerFlow ==
    ASSUME PBInv, NEW t \in Threads, NEW r, AnswersWith(t, r)
    PROVE  FlowBut(Answer(t, r)) /\ Others(t)
<1>1. stack[t] # <<>> /\ Return(t, r) /\ r \in Res
  BY DEF AnswersWith
<1>2. Ended(stack'[t], stack[t], r) /\ Others(t)
  BY <1>1, Effects
<1> QED
  BY <1>1, <1>2, EndedFlow

\* ... or goes on, or calls.
LEMMA HandleFlow ==
    ASSUME PBInv, NEW t \in Threads, Handle(t)
    PROVE  FlowBut({}) \/ \E r : AnswersWith(t, r)
<1>0. stack[t] # <<>>
  BY DEF Handle, GetEnter, GetRead, PutEnter, PutStore, PutForward, PutForwarded, RelayCall, RelayReturn,
         ForwardPut, MoveDB, Running
<1>1. Top(t) \in Frames /\ Top(t).arg \in Arg /\ Top(t) = stack[t][Len(stack[t])]
  BY <1>0, TopRole
<1>2. ASSUME NEW pc \in Pcs, pc # "ret", Goto(t, pc), Top(t).pc = "ret" => Top(t).res = Fail
      PROVE  FlowBut({})
  BY <1>0, <1>2, Effects, MovedFlow DEF Fail
<1>3. ASSUME Become(t, "Relay"), Top(t).op = "Put" PROVE FlowBut({})
  <2> DEFINE n == Len(stack[t])
             g == Frame(Top(t).at, "Relay", Top(t).arg)
             w == Front(stack[t]) \o <<g>>
  <2>1. n \in Nat \ {0} /\ Top(t) = stack[t][n] /\ stack[t] \in Seq(Frames)
    BY <1>0, TopRole
  <2>2. stack'[t] = w /\ Others(t)
    BY <1>3, ServiceData DEF Become, Others, Top
  <2>3. g \in Frames
    BY <1>0, <1>1, <1>3, TopFacts, Constants DEF Frame, Frames, Ops, Pcs
  <2>4. PassedOn(g, stack[t][n])
    BY <1>3, <2>1 DEF Frame, PassedOn
  <2> HIDE DEF g
  <2>5. Len(w) = n /\ w[n] = g /\ \A i \in 1 .. n - 1 : w[i] = stack[t][i]
    BY <1>0, <2>1, <2>3, Retopped DEF SameBelow
  <2> HIDE DEF w
  <2>6. \A i \in 1 .. n : i = n \/ i \in 1 .. n - 1
    BY <2>1
  <2>7. n \in 1 .. n
    BY <2>1
  <2> HIDE DEF n
  <2>8. HasSource(t, g)
    BY <2>4, <2>7 DEF HasSource, n
  <2>9. \A i \in 1 .. n : HasSource(t, w[i])
    BY <2>5, <2>6, <2>8, SameSource DEF n
  <2> QED
    BY <2>2, <2>5, <2>9, OneFlow
<1>4. CASE GetEnter(t)
  <2>1. Top(t).op = "Get" /\ Top(t).pc = "start" /\ (Goto(t, "lock") \/ Return(t, WrongServer))
    BY <1>4 DEF GetEnter, Running, Top
  <2> QED
    BY <1>0, <1>2, <2>1, Constants DEF AnswersWith, Pcs
<1>5. CASE GetRead(t)
  <2>1. Top(t).op = "Get" /\ Return(t, Read(t))
    BY <1>5 DEF GetRead, Running, Top, Read
  <2>2. Read(t) \in Res
    <3>1. Top(t).at \in Servers /\ Top(t).arg[1] \in Keys
      BY <1>0, <2>1, TopFacts DEF GetOps
    <3>2. db[Top(t).at][Top(t).arg[1]] \in Nat
      BY <3>1, ServiceData
    <3> QED
      BY <3>2, Constants DEF Res, Read
  <2> QED
    BY <1>0, <1>5, <2>1, <2>2 DEF AnswersWith
<1>6. CASE PutEnter(t)
  <2>1. /\ Top(t).op = "Put" /\ Top(t).pc = "start"
        /\ \/ ~ connected[Top(t).at] /\ Return(t, WrongServer)
           \/ Goto(t, "lock")
           \/ Become(t, "Relay")
    BY <1>6 DEF PutEnter, Running, Top
  <2> QED
    BY <1>0, <1>2, <1>3, <2>1, Constants DEF AnswersWith, Pcs
<1>7. CASE PutStore(t)
  BY <1>2, <1>7 DEF PutStore, Pcs, Running, Top
<1>8. CASE PutForward(t)
  <2> DEFINE b == pbview[Top(t).at].Backup
  <2>1. Top(t).op = "Put" /\ Top(t).pc = "forward"
    BY <1>8 DEF PutForward, Running, Top
  <2>2. \/ b = None /\ Return(t, OK)
        \/ Call(t, b, "ForwardPut", Top(t).arg)
    BY <1>8 DEF PutForward
  <2>3. PassedOn(Frame(b, "ForwardPut", Top(t).arg), Top(t))
    BY <2>1 DEF PassedOn, Frame
  <2>4. Call(t, b, "ForwardPut", Top(t).arg) => FlowBut({})
    BY <1>0, <1>1, <2>1, <2>3, CallFlow DEF Ops
  <2> QED
    BY <1>0, <2>1, <2>2, <2>4, Constants DEF AnswersWith
<1>9. CASE PutForwarded(t) \/ RelayReturn(t)
  <2>1. /\ Top(t).op \in {"Put", "Relay"} /\ Top(t).pc = "ret"
        /\ \/ Top(t).res = Fail /\ (Goto(t, "forward") \/ Goto(t, "start"))
           \/ Top(t).res # Fail /\ Return(t, Top(t).res)
    BY <1>9 DEF PutForwarded, RelayReturn, Running, Top
  <2>2. Top(t).res \in Res
    BY <1>0, <2>1, TopFacts
  <2> QED
    BY <1>0, <1>2, <2>1, <2>2 DEF AnswersWith, Pcs
<1>10. CASE RelayCall(t)
  <2> DEFINE p == pbview[Top(t).at].Primary
  <2>1. Top(t).op = "Relay" /\ Top(t).pc = "start" /\ Call(t, p, "Put", Top(t).arg)
    BY <1>10 DEF RelayCall, Running, Top
  <2>2. PassedOn(Frame(p, "Put", Top(t).arg), Top(t))
    BY <2>1 DEF PassedOn, Frame
  <2> QED
    BY <1>0, <1>1, <2>1, <2>2, CallFlow DEF Ops
<1>11. CASE ForwardPut(t) \/ MoveDB(t)
  <2>1. Top(t).op \in Copies /\ Return(t, OK)
    BY <1>11 DEF ForwardPut, MoveDB, Running, Top, Copies
  <2> QED
    BY <1>0, <2>1, Constants DEF AnswersWith
<1> QED
  BY <1>4, <1>5, <1>6, <1>7, <1>8, <1>9, <1>10, <1>11 DEF Handle

\* A thread that rests begins with one frame.
LEMMA NewFlow ==
    ASSUME NEW t \in Threads, NEW f, stack \in [Threads -> Seq(Frames)],
           stack' = [stack EXCEPT ![t] = <<f>>]
    PROVE  FlowBut({<<t, f>>})
<1>1. stack'[t] = <<f>> /\ Others(t)
  BY DEF Others
<1>2. \A i \in 1 .. Len(stack'[t]) : stack'[t][i] = f
  BY <1>1
<1> QED
  BY <1>1, <1>2, OneFlow

\* A thread that ends leaves nothing.
LEMMA GoneFlow ==
    ASSUME NEW t \in Threads, Others(t), stack'[t] = <<>>
    PROVE  FlowBut({})
<1>1. \A i \in 1 .. Len(stack'[t]) : FALSE
  OBVIOUS
<1> QED
  BY <1>1, OneFlow

\* If stacks stay, frames do.
LEMMA SameFlow == ASSUME stack' = stack PROVE FlowBut({})
  BY SameSource DEF FlowBut

\* A clerk's operation begins.
StartFlow(c) ==
    \E k \in Keys :
        \/ /\ StartPut(c)
           /\ FlowBut({<<Live(c), Frame(c, "ClerkPut", <<k, puts'>>)>>})
        \/ /\ StartGet(c)
           /\ FlowBut({<<Live(c), Frame(c, "ClerkGet", <<k, floor[k]>>)>>})

\* So one frame is new.
LEMMA ClerkStartFlow ==
    ASSUME PBInv, NEW c \in Clerks, StartPut(c) \/ StartGet(c)
    PROVE  StartFlow(c)
<1>1. Live(c) \in Threads /\ stack \in [Threads -> Seq(Frames)]
  BY ServiceData DEF Live, Threads, Owners
<1> QED
  BY <1>1, NewFlow DEF StartPut, StartGet, StartFlow

\* It calls, is tried again, or ends.
LEMMA ClerkStepFlow ==
    ASSUME PBInv, NEW c \in Clerks, ClerkStep(c)
    PROVE  FlowBut({})
<1> DEFINE t == Live(c)
<1>1. t \in Threads
  BY DEF Threads, Owners, Live
<1> HIDE DEF t
<1>2. CASE ClerkCall(c)
  <2>1. PICK o \in {"Put", "Get"} :
           /\ stack[t] # <<>> /\ Top(t).pc = "start" /\ Top(t).op = (IF o = "Put" THEN "ClerkPut" ELSE "ClerkGet")
           /\ Call(t, view.Primary, o, Top(t).arg)
    <3>1. /\ stack[t] # <<>> /\ Top(t).pc = "start"
          /\ \/ Top(t).op = "ClerkPut" /\ Call(t, view.Primary, "Put", Top(t).arg)
             \/ Top(t).op = "ClerkGet" /\ Call(t, view.Primary, "Get", Top(t).arg)
      BY <1>2 DEF ClerkCall, Running, Top, t
    <3> QED
      BY <3>1
  <2>2. PassedOn(Frame(view.Primary, o, Top(t).arg), Top(t))
    BY <2>1 DEF PassedOn, Frame
  <2>3. o \in Ops /\ Top(t).arg \in Arg
    BY <1>1, <2>1, TopRole DEF Ops
  <2> QED
    BY <1>1, <2>1, <2>2, <2>3, CallFlow
<1>3. CASE ClerkPutReturn(c) \/ ClerkGetReturn(c)
  <2>1. /\ stack[t] # <<>> /\ Top(t).op \in {"ClerkPut", "ClerkGet"}
        /\ (Top(t).res.err # "OK" /\ Goto(t, "start")) \/ Return(t, OK)
    BY <1>3 DEF ClerkPutReturn, ClerkGetReturn, Running, Top, t
  <2>2. CASE Top(t).res.err # "OK" /\ Goto(t, "start")
    <3> DEFINE pc == "start"
    <3>1. Moved(stack'[t], stack[t], pc, NoRes) /\ Others(t) /\ pc # "ret"
      BY <1>1, <2>1, <2>2, Effects DEF Pcs
    <3> HIDE DEF pc
    <3> QED
      BY <1>1, <2>1, <2>2, <3>1, MovedFlow
  <2>3. CASE Return(t, OK)
    <3>1. Ended(stack'[t], stack[t], OK) /\ Others(t)
      BY <1>1, <2>1, <2>3, Effects, Constants
    <3>2. Len(stack[t]) = 1
      BY <2>1, ClerkFrame DEF t
    <3>3. stack'[t] = <<>>
      BY <3>1, <3>2 DEF Ended
    <3> QED
      BY <1>1, <3>1, <3>3, GoneFlow
  <2> QED
    BY <2>1, <2>2, <2>3
<1> QED
  BY <1>2, <1>3 DEF ClerkStep

\* A tick: it hears of a view, ...
LEMMA TickPingFlow ==
    ASSUME PBInv, NEW s \in Servers, TickPing(s)
    PROVE  FlowBut({<<Live(s), Frame(s, "Tick", view')>>})
<1>1. /\ Live(s) \in Threads /\ stack \in [Threads -> Seq(Frames)]
      /\ stack' = [stack EXCEPT ![Live(s)] = << Frame(s, "Tick", view') >>]
  BY ServiceData, TickThread DEF TickPing
<1> QED
  BY <1>1, NewFlow

\* ... or of none, adopts it, or ends, ...
LEMMA TickFlow ==
    ASSUME PBInv, NEW s \in Servers, TickPingFails(s) \/ TickView(s) \/ TickMoved(s)
    PROVE  FlowBut({})
<1> DEFINE t == Live(s)
<1>1. t \in Threads /\ stack \in [Threads -> Seq(Frames)]
  BY ServiceData, TickThread
<1>2. CASE TickPingFails(s)
  BY <1>1, <1>2, GoneFlow DEF TickPingFails, Others
<1>3. CASE TickMoved(s)
  BY <1>1, <1>3, TickMovedStep, GoneFlow
<1>4. CASE TickView(s)
  <2>1. /\ Others(t) /\ Len(stack[t]) = 1 /\ Top(t).pc = "start"
        /\ stack'[t] = <<>> \/ (Len(stack'[t]) = 1 /\ Like(stack'[t][1], stack[t][1], "lock", NoRes))
    BY <1>4, TickViewStep
  <2>2. stack[t] # <<>>
    BY <1>4, TickViewStep DEF Resting
  <2>3. CASE Len(stack'[t]) = 1 /\ Like(stack'[t][1], stack[t][1], "lock", NoRes)
    <3> DEFINE pc == "lock"
    <3>1. Moved(stack'[t], stack[t], pc, NoRes) /\ pc # "ret"
      BY <2>1, <2>3 DEF Moved
    <3> HIDE DEF pc
    <3> QED
      BY <1>1, <2>1, <2>2, <3>1, MovedFlow
  <2> QED
    BY <1>1, <2>1, <2>3, GoneFlow
<1> QED
  BY <1>2, <1>3, <1>4

\* ... and sends the database.
LEMMA TickMoveFlow ==
    ASSUME PBInv, NEW s \in Servers, TickMove(s)
    PROVE  FlowBut(Threads \X {Frame(pbview[s].Backup, "MoveDB", db[s])})
<1> DEFINE b == pbview[s].Backup
           g == Frame(b, "MoveDB", db[s])
<1>1. Live(s) \in Threads /\ stack[Live(s)] # <<>> /\ Top(Live(s)).pc = "lock" /\ Call(Live(s), b, "MoveDB", db[s])
  BY TickMoveStep DEF Resting
<1>2. db[s] \in Arg
  <2>1. db[s] \in [Keys -> 0 .. env.puts] /\ env.puts \in Nat
    BY ServiceData
  <2> QED
    BY <2>1 DEF Arg
<1> DEFINE o == "MoveDB"
<1>3. o \in Ops /\ \A u \in Threads : <<u, Frame(b, o, db[s])>> \in Threads \X {g}
  BY DEF Ops
<1>4. Call(Live(s), b, o, db[s])
  BY <1>1
<1> HIDE DEF b, o
<1>5. FlowBut(Threads \X {g})
  BY <1>1, <1>2, <1>3, <1>4, CallFlow
<1> QED
  BY <1>5 DEF b

\* A crash leaves what was there, or fails calls.
LEMMA CrashFlow ==
    ASSUME PBInv, NEW s \in Servers, Crash(s)
    PROVE  FlowBut({})
<1>1. Survive(s)
  BY Survivors DEF PBInv, Core, Crash, CrashedStack
<1> SUFFICES ASSUME NEW t \in Threads, NEW i \in 1 .. Len(stack'[t]) PROVE HasSource(t, stack'[t][i])
  BY DEF FlowBut
<1>2. From(t) \in Threads /\ From(t)[1] = t[1]
  BY DEF From, Live, Threads, Owners
<1>3. PICK j \in 1 .. Len(stack[From(t)]) : Kept(stack'[t][i], stack[From(t)][j])
  BY <1>1, LeftFrame
<1>4. Continues(stack'[t][i], stack[From(t)][j])
  BY <1>3 DEF Kept, Continues
<1> QED
  BY <1>2, <1>4 DEF HasSource

\* So this is where frames come from, in any step.
StepFlow ==
    \/ FlowBut({})
    \/ \E t \in Threads, r \in Res : Handle(t) /\ AnswersWith(t, r) /\ FlowBut(Answer(t, r))
    \/ \E c \in Clerks : StartFlow(c)
    \/ \E s \in Servers :
          \/ TickPing(s) /\ FlowBut({<<Live(s), Frame(s, "Tick", view')>>})
          \/ TickMove(s) /\ FlowBut(Threads \X {Frame(pbview[s].Backup, "MoveDB", db[s])})

\* Every step is one of these.
LEMMA NextFlow == PBInv /\ [Next]_vars => StepFlow
<1> SUFFICES ASSUME PBInv, [Next]_vars PROVE StepFlow
  OBVIOUS
<1>1. ASSUME NEW t \in Threads, Handle(t) PROVE StepFlow
  <2>1. ASSUME NEW r, AnswersWith(t, r) PROVE StepFlow
    <3>1. r \in Res
      BY <2>1 DEF AnswersWith
    <3> QED
      BY <1>1, <2>1, <3>1, AnswerFlow DEF StepFlow
  <2> QED
    BY <1>1, <2>1, HandleFlow DEF StepFlow
<1>2. ASSUME NEW c \in Clerks, StartPut(c) \/ StartGet(c) \/ ClerkStep(c) PROVE StepFlow
  BY <1>2, ClerkStartFlow, ClerkStepFlow DEF StepFlow
<1>3. ASSUME NEW s \in Servers, TickPing(s) \/ TickMove(s) PROVE StepFlow
  BY <1>3, TickPingFlow, TickMoveFlow DEF StepFlow
<1>4. ASSUME NEW s \in Servers, TickPingFails(s) \/ TickView(s) \/ TickMoved(s) \/ Crash(s) PROVE StepFlow
  BY <1>4, TickFlow, CrashFlow DEF StepFlow
<1>5. ASSUME (\E s \in Servers : Restart(s)) \/ VSTick \/ TimePasses \/ UNCHANGED vars PROVE StepFlow
  BY <1>5, SameFlow DEF StepFlow, Restart, VSTick, TimePasses, vars
<1> QED
  BY <1>1, <1>2, <1>3, <1>4, <1>5 DEF Next, TickStep

\* A frame that has no source is new: an answer, the start of a clerk's operation
\* or of a tick, or a transfer.
IsAnswer(t, g) ==
    /\ Handle(t) /\ stack[t] # <<>> /\ Len(stack[t]) # 1 /\ Len(stack[t]) - 1 \in 1 .. Len(stack[t])
    /\ \E r \in Res : AnswersWith(t, r) /\ g = Answered(t, r)
IsStart(t, g) ==
    \E c \in Clerks, k \in Keys :
        /\ t = Live(c)
        /\ \/ StartPut(c) /\ g = Frame(c, "ClerkPut", <<k, puts'>>)
           \/ StartGet(c) /\ g = Frame(c, "ClerkGet", <<k, floor[k]>>)
IsTick(t, g) ==
    \E s \in Servers :
        \/ TickPing(s) /\ t = Live(s) /\ g = Frame(s, "Tick", view')
        \/ TickMove(s) /\ g = Frame(pbview[s].Backup, "MoveDB", db[s])

\* So it is for every frame after a step.
LEMMA FrameFlow ==
    ASSUME PBInv, [Next]_vars, NEW t \in Threads, NEW i \in 1 .. Len(stack'[t])
    PROVE  LET g == stack'[t][i] IN HasSource(t, g) \/ IsAnswer(t, g) \/ IsStart(t, g) \/ IsTick(t, g)
<1> DEFINE g == stack'[t][i]
<1> SUFFICES ASSUME ~ HasSource(t, g) PROVE IsAnswer(t, g) \/ IsStart(t, g) \/ IsTick(t, g)
  OBVIOUS
<1>1. \A New : FlowBut(New) => <<t, g>> \in New
  BY DEF FlowBut
<1> HIDE DEF g
<1>2. ASSUME NEW u \in Threads, NEW r \in Res, Handle(u), AnswersWith(u, r), FlowBut(Answer(u, r))
      PROVE  IsAnswer(t, g)
  <2>1. u = t /\ Len(stack[t]) # 1 /\ g = Answered(t, r)
    BY <1>1, <1>2 DEF Answer
  <2>2. stack[t] # <<>> /\ Len(stack[t]) \in Nat \ {0}
    BY <1>2, <2>1, TopRole DEF AnswersWith
  <2>3. \A n \in Nat \ {0} : n # 1 => n - 1 \in 1 .. n
    OBVIOUS
  <2> QED
    BY <1>2, <2>1, <2>2, <2>3 DEF IsAnswer
<1>3. ASSUME NEW c \in Clerks, StartFlow(c) PROVE IsStart(t, g)
  <2>1. \A h : FlowBut({<<Live(c), h>>}) => t = Live(c) /\ g = h
    BY <1>1
  <2>2. PICK k \in Keys :
          \/ StartPut(c) /\ FlowBut({<<Live(c), Frame(c, "ClerkPut", <<k, puts'>>)>>})
          \/ StartGet(c) /\ FlowBut({<<Live(c), Frame(c, "ClerkGet", <<k, floor[k]>>)>>})
    BY <1>3 DEF StartFlow
  <2>3. \/ StartPut(c) /\ t = Live(c) /\ g = Frame(c, "ClerkPut", <<k, puts'>>)
        \/ StartGet(c) /\ t = Live(c) /\ g = Frame(c, "ClerkGet", <<k, floor[k]>>)
    <3>1. CASE StartPut(c) /\ FlowBut({<<Live(c), Frame(c, "ClerkPut", <<k, puts'>>)>>})
      <4>1. t = Live(c) /\ g = Frame(c, "ClerkPut", <<k, puts'>>)
        BY <2>1, <3>1
      <4> QED
        BY <3>1, <4>1
    <3>2. CASE StartGet(c) /\ FlowBut({<<Live(c), Frame(c, "ClerkGet", <<k, floor[k]>>)>>})
      <4>1. t = Live(c) /\ g = Frame(c, "ClerkGet", <<k, floor[k]>>)
        BY <2>1, <3>2
      <4> QED
        BY <3>2, <4>1
    <3> QED
      BY <2>2, <3>1, <3>2
  <2> QED
    BY <2>3 DEF IsStart
<1>4. ASSUME NEW s \in Servers, TickPing(s), FlowBut({<<Live(s), Frame(s, "Tick", view')>>}) PROVE IsTick(t, g)
  <2>1. \A h : FlowBut({<<Live(s), h>>}) => t = Live(s) /\ g = h
    BY <1>1
  <2>2. t = Live(s) /\ g = Frame(s, "Tick", view')
    BY <1>4, <2>1
  <2> QED
    BY <1>4, <2>2 DEF IsTick
<1>5. ASSUME NEW s \in Servers, TickMove(s), FlowBut(Threads \X {Frame(pbview[s].Backup, "MoveDB", db[s])})
      PROVE  IsTick(t, g)
  <2>1. \A h : FlowBut(Threads \X {h}) => g = h
    BY <1>1
  <2> QED
    BY <1>5, <2>1 DEF IsTick
<1> QED
  BY <1>1, <1>2, <1>3, <1>4, <1>5, NextFlow DEF StepFlow

-----------------------------------------------------------------------------
(* What clerks do.                                                         *)

\* What frames without a source do.
LEMMA NewOps ==
    ASSUME NEW t, NEW g
    PROVE  /\ IsStart(t, g) => g.op \in {"ClerkPut", "ClerkGet"}
           /\ IsTick(t, g) => g.op \in {"Tick", "MoveDB"}
<1>1. \A at, op, arg : g = Frame(at, op, arg) => g.op = op
  BY DEF Frame
<1> QED
  BY <1>1 DEF IsStart, IsTick

\* A handler moves on, ends, goes on as another, or calls.
LEMMA HandleKinds ==
    ASSUME PBInv, NEW t \in Threads, Handle(t)
    PROVE  /\ stack[t] # <<>> /\ Top(t).op \notin BottomOps
           /\ \/ \E pc \in Pcs : Goto(t, pc)
              \/ \E r \in Res : Return(t, r)
              \/ Top(t).op = "Put" /\ Become(t, "Relay")
              \/ \E srv, op, arg : Call(t, srv, op, arg)
<1>1. stack[t] # <<>> /\ Top(t).op \notin BottomOps
  BY DEF Handle, GetEnter, GetRead, PutEnter, PutStore, PutForward, PutForwarded, RelayCall, RelayReturn,
         ForwardPut, MoveDB, Running, Top, BottomOps
<1>2. \/ \E pc \in Pcs : Goto(t, pc)
      \/ \E r \in Res : Return(t, r)
      \/ Top(t).op = "Put" /\ Become(t, "Relay")
      \/ \E srv, op, arg : Call(t, srv, op, arg)
  <2>1. ASSUME NEW r, AnswersWith(t, r) PROVE Return(t, r) /\ r \in Res
    BY <2>1 DEF AnswersWith
  <2>2. CASE PutForwarded(t) \/ RelayReturn(t)
    <3>1. Top(t).res \in Res
      BY <1>1, <2>2, TopFacts DEF PutForwarded, RelayReturn, Running, Top
    <3> QED
      BY <2>2, <3>1, Constants DEF PutForwarded, RelayReturn, Pcs
  <2>3. CASE GetRead(t)
    <3>1. Top(t).op = "Get" /\ Return(t, Read(t))
      BY <2>3 DEF GetRead, Running, Top, Read
    <3>2. Top(t).at \in Servers /\ Top(t).arg[1] \in Keys
      BY <1>1, <3>1, TopFacts DEF GetOps
    <3>3. db[Top(t).at][Top(t).arg[1]] \in Nat
      BY <3>2, ServiceData
    <3>4. Read(t) \in Res
      BY <3>3, Constants DEF Res, Read
    <3> QED
      BY <3>1, <3>4
  <2>4. CASE GetEnter(t) \/ PutEnter(t) \/ PutStore(t)
    BY <2>4, Constants DEF GetEnter, PutEnter, PutStore, Pcs, Running, Top
  <2>5. CASE PutForward(t) \/ RelayCall(t) \/ ForwardPut(t) \/ MoveDB(t)
    BY <2>5, Constants DEF PutForward, RelayCall, ForwardPut, MoveDB
  <2> QED
    BY <2>2, <2>3, <2>4, <2>5 DEF Handle
<1> QED
  BY <1>1, <1>2

\* A handler's step leaves a clerk's operation at the bottom of its thread.
LEMMA HandlerOn ==
    ASSUME PBInv, NEW t \in Threads, Handle(t), NEW c \in Clerks, stack[Live(c)] # <<>>
    PROVE  stack'[Live(c)] # <<>>
<1> DEFINE l == Live(c)
<1>0. l \in Threads /\ l[2] = "live"
  BY DEF Live, Threads, Owners
<1> HIDE DEF l
<1>1. stack[t] # <<>> /\ Top(t).op \notin BottomOps
  BY HandleKinds
<1>2. \/ \E pc \in Pcs : Goto(t, pc)
      \/ \E r \in Res : Return(t, r)
      \/ Top(t).op = "Put" /\ Become(t, "Relay")
      \/ \E srv, op, arg : Call(t, srv, op, arg)
  BY HandleKinds
<1>3. /\ stack \in [Threads -> Seq(Frames)] /\ stack[t] \in Seq(Frames)
      /\ Len(stack[t]) \in Nat \ {0} /\ Top(t) = stack[t][Len(stack[t])]
      /\ BottomOK(t, stack[t])
  BY <1>1, ServiceData, TopFrame DEF PBInv, Core, StackOK
<1>4. CASE t = l
  <2>1. Len(stack[t]) # 1
    <3> SUFFICES ASSUME Len(stack[t]) = 1 PROVE FALSE
      OBVIOUS
    <3>1. 1 \in 1 .. 1
      OBVIOUS
    <3> QED
      BY <1>0, <1>1, <1>3, <1>4, <3>1 DEF BottomOK
  <2>2. \A w, r : Ended(w, stack[t], r) => w # <<>>
    <3>1. \A n \in Nat \ {0} : n # 1 => n - 1 # 0
      OBVIOUS
    <3> QED
      BY <1>3, <2>1, <3>1 DEF Ended, CutAt
  <2>3. \A w, pc, r : Moved(w, stack[t], pc, r) => w # <<>>
    BY <1>3 DEF Moved
  <2>4. ASSUME NEW srv, NEW op, NEW arg, Call(t, srv, op, arg) PROVE stack'[t] # <<>>
    <3>1. At(stack[t], "ret", Fail) # <<>>
      BY <1>1, <1>3, <2>3, Steps, Constants DEF Pcs
    <3>2. At(stack[t], "wait", NoRes) \in Seq(Frames)
      BY <1>1, <1>3, AtFacts, Constants DEF Pcs, SameBelow
    <3>3. \A g : \A st \in Seq(Frames) : st \o <<g>> # <<>>
      OBVIOUS
    <3>4. \/ stack' = [stack EXCEPT ![t] = At(@, "wait", NoRes) \o << Frame(srv, op, arg) >>]
          \/ stack' = [stack EXCEPT ![t] = At(@, "ret", Fail)]
          \/ stack' = [stack EXCEPT ![t] = At(@, "ret", Fail), ![Left(t[1])] = << Frame(srv, op, arg) >>]
      BY <2>4 DEF Call
    <3>5. Left(t[1]) # t
      BY <1>0, <1>4 DEF Left
    <3> QED
      BY <1>3, <3>1, <3>2, <3>3, <3>4, <3>5
  <2>5. ASSUME Top(t).op = "Put", Become(t, "Relay") PROVE stack'[t] # <<>>
    <3> DEFINE g == Frame(Top(t).at, "Relay", Top(t).arg)
    <3>1. g \in Frames
      BY <1>1, <2>5, TopFacts, TopRole, Constants DEF Frame, Frames, Ops, Pcs
    <3>2. stack'[t] = Front(stack[t]) \o <<g>>
      BY <1>3, <2>5 DEF Become, Top
    <3> HIDE DEF g
    <3> QED
      BY <1>1, <1>3, <3>1, <3>2, Retopped DEF SameBelow
  <2> QED
    BY <1>1, <1>2, <1>4, <2>2, <2>3, <2>4, <2>5, Effects DEF l
<1>5. CASE t # l
  <2>1. \A w : stack' = [stack EXCEPT ![t] = w] => stack'[l] = stack[l]
    BY <1>0, <1>3, <1>5
  <2>2. \A v, w, u : stack' = [stack EXCEPT ![t] = w, ![Left(u)] = v] => stack'[l] = stack[l]
    <3>1. \A u : Left(u) # l
      BY <1>0 DEF Left
    <3> QED
      BY <1>0, <1>3, <1>5, <3>1
  <2> QED
    BY <1>2, <2>1, <2>2 DEF Goto, Return, Become, Call, l
<1> QED
  BY <1>4, <1>5 DEF l

\* A clerk's operation ends: it has an answer.
Finishes(c) ==
    \/ ClerkPutReturn(c) /\ Top(Live(c)).op = "ClerkPut" /\ Top(Live(c)).res.err # "fail"
    \/ ClerkGetReturn(c) /\ Top(Live(c)).op = "ClerkGet" /\ Top(Live(c)).res.err = "OK"

\* Only then it is gone.
LEMMA ClerkOn ==
    ASSUME PBInv, [Next]_vars, NEW c \in Clerks, stack[Live(c)] # <<>>
    PROVE  stack'[Live(c)] # <<>> \/ Finishes(c)
<1> DEFINE l == Live(c)
<1>1. /\ l \in Threads /\ l[2] = "live" /\ stack \in [Threads -> Seq(Frames)]
      /\ c \notin Servers /\ \A o : Live(o) = l => o = c
  BY ServiceData, Constants DEF Live, Threads, Owners
<1>2. ASSUME NEW t, NEW srv, NEW op, NEW arg, Call(t, srv, op, arg), t # l PROVE stack'[l] = stack[l]
  <2>1. \A u : Left(u) # l
    BY <1>1 DEF Left
  <2>2. \A w : stack' = [stack EXCEPT ![t] = w] => stack'[l] = stack[l]
    BY <1>1, <1>2
  <2>3. \A v, w, u : stack' = [stack EXCEPT ![t] = w, ![Left(u)] = v] => stack'[l] = stack[l]
    BY <1>1, <1>2, <2>1
  <2> QED
    BY <1>2, <2>2, <2>3 DEF Call
<1>3. \A t, w : t # l /\ stack' = [stack EXCEPT ![t] = w] => stack'[l] = stack[l]
  BY <1>1
<1>4. ASSUME NEW t \in Threads, Handle(t) PROVE stack'[l] # <<>>
  BY <1>4, HandlerOn
<1>5. ASSUME NEW d \in Clerks, d # c, StartPut(d) \/ StartGet(d) \/ ClerkStep(d) PROVE stack'[l] # <<>>
  <2>1. Live(d) # l
    BY <1>1, <1>5
  <2> QED
    BY <1>2, <1>3, <1>5, <2>1
       DEF StartPut, StartGet, ClerkStep, ClerkCall, ClerkPutReturn, ClerkGetReturn, Goto, Return
<1>6. ~ StartPut(c) /\ ~ StartGet(c)
  BY DEF StartPut, StartGet
<1>7. ASSUME ClerkStep(c) PROVE stack'[l] # <<>> \/ Finishes(c)
  <2>1. CASE ClerkCall(c)
    <3> DEFINE t == l
    <3>1. PICK op, arg : Call(t, view.Primary, op, arg)
      BY <2>1 DEF ClerkCall
    <3>2. \/ stack' = [stack EXCEPT ![l] = At(@, "wait", NoRes) \o << Frame(view.Primary, op, arg) >>]
          \/ stack' = [stack EXCEPT ![l] = At(@, "ret", Fail)]
          \/ stack' = [stack EXCEPT ![l] = At(@, "ret", Fail), ![Left(l[1])] = << Frame(view.Primary, op, arg) >>]
      BY <3>1 DEF Call
    <3>3. Left(l[1]) # l
      BY <1>1 DEF Left
    <3>4. At(stack[l], "ret", Fail) # <<>> /\ At(stack[l], "wait", NoRes) \in Seq(Frames)
      BY <1>1, AtFacts, Constants DEF Pcs, SameBelow
    <3>5. \A g : \A st \in Seq(Frames) : st \o <<g>> # <<>>
      OBVIOUS
    <3> HIDE DEF l
    <3> QED
      BY <1>1, <3>2, <3>3, <3>4, <3>5
  <2>2. CASE ClerkPutReturn(c) \/ ClerkGetReturn(c)
    <3>1. Finishes(c) \/ Goto(l, "start")
      BY <2>2 DEF ClerkPutReturn, ClerkGetReturn, Finishes, Running, Top
    <3>2. At(stack[l], "start", NoRes) # <<>>
      BY <1>1, AtFacts, Constants DEF Pcs, SameBelow
    <3> QED
      BY <1>1, <3>1, <3>2 DEF Goto
  <2> QED
    BY <1>7, <2>1, <2>2 DEF ClerkStep
<1>8. ASSUME NEW s \in Servers, TickPing(s) \/ TickPingFails(s) \/ TickStep(s) PROVE stack'[l] # <<>>
  <2>1. Live(s) # l
    BY <1>1
  <2> QED
    BY <1>2, <1>3, <1>8, <2>1
       DEF TickPing, TickPingFails, TickStep, TickView, TickMove, TickMoved, Goto, Return
<1>9. ASSUME NEW s \in Servers, Crash(s) PROVE stack'[l] # <<>>
  <2>1. CrashedStack(s) /\ StackOK(l, stack[l], env, puts, stored) /\ stack[l] \in Seq(Frames)
    BY <1>1, <1>9 DEF Crash, CrashedStack, PBInv, Core, StacksInv
  <2>2. stack'[l] = Below(stack[l], s)
    BY <1>1, <2>1 DEF CrashedStack
  <2> DEFINE k == FirstAt(stack[l], s)
             st == stack[l]
  <2>3. IsFirst(st, s, k) /\ LinksOK(st) /\ st[1].at = c /\ Len(st) \in Nat \ {0}
    BY <1>1, <2>1, FirstFacts DEF StackOK, BottomOK, Live
  <2> HIDE DEF k, st, l
  <2>4. k # 1 /\ k \in 0 .. Len(st)
    BY <1>1, <2>3 DEF IsFirst
  <2>5. Len(Below(st, s)) = IF k = 0 THEN Len(st) ELSE k - 1
    BY <2>1, <2>3, BelowPiece DEF k, st
  <2>6. Len(Below(st, s)) # 0
    BY <2>3, <2>4, <2>5
  <2> QED
    BY <2>2, <2>6 DEF st
<1>10. (\E s \in Servers : Restart(s)) \/ VSTick \/ TimePasses \/ UNCHANGED vars => stack'[l] = stack[l]
  BY DEF Restart, VSTick, TimePasses, vars
<1> QED
  BY <1>4, <1>5, <1>6, <1>7, <1>8, <1>9, <1>10 DEF Next

\* The bottom frame, opened once.
LEMMA BottomFrame ==
    ASSUME PBInv, NEW t \in Threads, NEW i \in 1 .. Len(stack[t])
    PROVE  /\ stack[t] # <<>> /\ stack[t] \in Seq(Frames) /\ stack[t][i] \in Frames
           /\ stack[t][i].op \in BottomOps => i = 1 /\ t = Live(t[1]) /\ stack[t][i].at = t[1]
           /\ \A c \in Clerks : t = Live(c) /\ i = 1 => stack[t][1].op \in {"ClerkPut", "ClerkGet"}
<1>1. /\ stack[t] \in Seq(Frames) /\ BottomOK(t, stack[t]) /\ FrameOK(stack[t][i], env, puts, stored)
  BY DEF PBInv, Core, StacksInv, StackOK, FramesOK
<1>2. stack[t] # <<>> /\ stack[t][i] \in Frames
  BY <1>1 DEF FrameOK
<1>3. t[2] = "live" => t = Live(t[1])
  BY DEF Threads, Owners, Live
<1>4. ASSUME NEW c \in Clerks, t = Live(c), i = 1 PROVE stack[t][1].op \in {"ClerkPut", "ClerkGet"}
  <2>1. t[2] = "live" /\ t[1] = c
    BY <1>4 DEF Live
  <2>2. stack[t][1].op \in BottomOps /\ stack[t][1].at = c
    BY <1>1, <1>2, <1>4, <2>1 DEF BottomOK
  <2> QED
    BY <1>1, <1>4, <2>2, Constants DEF FrameOK, PlaceOK, BottomOps
<1> QED
  BY <1>1, <1>2, <1>3, <1>4 DEF BottomOK

\* A bottom frame goes on from the bottom frame of the same thread.
LEMMA BottomSource ==
    ASSUME PBInv, NEW t \in Threads, NEW g, g.op \in BottomOps, HasSource(t, g)
    PROVE  stack[Live(t[1])] # <<>> /\ Continues(g, stack[Live(t[1])][1])
<1>1. PICK u \in Threads : u[1] = t[1] /\ \E j \in 1 .. Len(stack[u]) :
         Continues(g, stack[u][j]) \/ PassedOn(g, stack[u][j])
  BY DEF HasSource
<1>2. PICK j \in 1 .. Len(stack[u]) : Continues(g, stack[u][j]) \/ PassedOn(g, stack[u][j])
  BY <1>1
<1>3. Continues(g, stack[u][j])
  BY <1>2 DEF PassedOn, BottomOps
<1>4. stack[u][j].op \in BottomOps
  BY <1>3 DEF Continues
<1> QED
  BY <1>1, <1>3, <1>4, BottomFrame

\* A clerk's thread begins with its Put or Get.
ClerkBottoms ==
    /\ stack \in [Threads -> Seq(Frames)]
    /\ \A t \in Threads : \A i \in 1 .. Len(stack[t]) :
          stack[t][i].op \in BottomOps => i = 1 /\ t = Live(t[1])
    /\ \A c \in Clerks : stack[Live(c)] # <<>> =>
          /\ 1 \in 1 .. Len(stack[Live(c)])
          /\ stack[Live(c)][1].op \in {"ClerkPut", "ClerkGet"}

\* It follows from the invariant of the stacks.
LEMMA PBBottoms == PBInv => ClerkBottoms
<1> SUFFICES ASSUME PBInv PROVE ClerkBottoms
  OBVIOUS
<1>1. stack \in [Threads -> Seq(Frames)]
  BY ServiceData
<1>2. \A t \in Threads : stack[t] # <<>> => 1 \in 1 .. Len(stack[t])
  <2>1. \A st \in Seq(Frames) : st # <<>> => 1 \in 1 .. Len(st)
    OBVIOUS
  <2> QED
    BY <1>1, <2>1
<1>3. \A c \in Clerks : Live(c) \in Threads
  BY DEF Live, Threads, Owners
<1> QED
  BY <1>1, <1>2, <1>3, BottomFrame DEF ClerkBottoms

\* What a clerk does changes as it starts, when a Get has its answer, and as
\* it finishes.
Served(c) ==
    LET t == Live(c)
    IN  /\ stack[t] # <<>> /\ Len(stack[t]) = 2 /\ stack[t][1].op = "ClerkGet"
        /\ GetRead(t) /\ Top(t).op = "Get" /\ Read(t).err = "OK"
        /\ stack'[t] # <<>> /\ stack'[t][1] = Answered(t, Read(t))

\* Nothing else changes it.
LEMMA DoingStep ==
    ASSUME PBInv, PBInv', [Next]_vars, NEW c \in Clerks
    PROVE  Doing(c)' = Doing(c) \/ StartPut(c) \/ StartGet(c) \/ Served(c) \/ Finishes(c)
<1> DEFINE l == Live(c)
           f == stack[l][1]
           g == stack'[l][1]
<1>1. l \in Threads /\ l[1] = c /\ c \notin Servers /\ \A o : Live(o) = l => o = c
  BY Constants DEF Live, Threads, Owners
<1>2. ClerkBottoms /\ ClerkBottoms'
  BY PBBottoms, PTL
<1>3. stack[l] # <<>> => 1 \in 1 .. Len(stack[l]) /\ f.op \in {"ClerkPut", "ClerkGet"}
  BY <1>2 DEF ClerkBottoms
<1>4. stack'[l] # <<>> => 1 \in 1 .. Len(stack'[l]) /\ g.op \in {"ClerkPut", "ClerkGet"}
  BY <1>2 DEF ClerkBottoms
<1>5. CASE stack[l] # <<>> /\ stack'[l] # <<>> /\ HasSource(l, g)
  <2>1. Continues(g, f)
    BY <1>1, <1>4, <1>5, BottomSource DEF BottomOps
  <2> HIDE DEF f, g
  <2>2. /\ g.op = f.op /\ g.arg = f.arg
        /\ (g.pc = "ret" /\ g.res.err = "OK" <=> f.pc = "ret" /\ f.res.err = "OK")
        /\ (g.pc = "ret" /\ g.res.err = "OK" => g.res = f.res)
    BY <2>1 DEF Continues, Fail
  <2>3. Doing(c) = IF f.op = "ClerkPut" THEN [does |-> "write", key |-> f.arg[1], val |-> f.arg[2]]
                   ELSE [does |-> "read", key |-> f.arg[1], since |-> f.arg[2],
                         answer |-> IF f.pc = "ret" /\ f.res.err = "OK" THEN f.res.val ELSE 0]
    BY <1>5 DEF Doing, f
  <2>4. Doing(c)' = IF g.op = "ClerkPut" THEN [does |-> "write", key |-> g.arg[1], val |-> g.arg[2]]
                    ELSE [does |-> "read", key |-> g.arg[1], since |-> g.arg[2],
                          answer |-> IF g.pc = "ret" /\ g.res.err = "OK" THEN g.res.val ELSE 0]
    BY <1>5 DEF Doing, g
  <2>5. (IF g.pc = "ret" /\ g.res.err = "OK" THEN g.res.val ELSE 0)
           = (IF f.pc = "ret" /\ f.res.err = "OK" THEN f.res.val ELSE 0)
    BY <2>2
  <2> QED
    BY <2>2, <2>3, <2>4, <2>5
<1>6. CASE stack[l] = <<>> /\ stack'[l] = <<>>
  BY <1>6 DEF Doing
<1>7. CASE stack[l] # <<>> /\ stack'[l] = <<>>
  BY <1>7, ClerkOn
<1>8. CASE stack[l] = <<>> /\ HasSource(l, g) /\ stack'[l] # <<>>
  BY <1>1, <1>4, <1>8, BottomSource DEF BottomOps
<1>9. ASSUME stack'[l] # <<>>, ~ HasSource(l, g)
      PROVE  Doing(c)' = Doing(c) \/ StartPut(c) \/ StartGet(c) \/ Served(c)
  <2>1. IsAnswer(l, g) \/ IsStart(l, g) \/ IsTick(l, g)
    BY <1>1, <1>4, <1>9, FrameFlow
  <2>2. CASE IsStart(l, g)
    BY <1>1, <2>2 DEF IsStart
  <2>3. ~ IsTick(l, g)
    <3>1. g.op \in {"ClerkPut", "ClerkGet"}
      BY <1>4, <1>9
    <3> HIDE DEF l, g
    <3> QED
      BY <3>1, NewOps
  <2>4. ASSUME NEW t, t = l, NEW r \in Res, Handle(t), AnswersWith(t, r), IsAnswer(t, g), g = Answered(t, r)
        PROVE  Doing(c)' = Doing(c) \/ Served(c)
    <3> DEFINE h == stack[t][Len(stack[t]) - 1]
               n == Len(stack[t])
    <3>1. t = l /\ t \in Threads /\ n # 1 /\ g = Answered(t, r)
      BY <1>1, <2>4 DEF IsAnswer
    <3>2. /\ stack[t] # <<>> /\ n \in Nat \ {0} /\ LinksOK(stack[t]) /\ Top(t) = stack[t][n]
      <4>1. stack[t] # <<>>
        BY <2>4 DEF AnswersWith
      <4> HIDE DEF l
      <4> QED
        BY <3>1, <4>1, TopRole
    <3>3. h.op = g.op /\ h.arg = g.arg /\ g.pc = "ret" /\ g.res = r
      BY <3>1 DEF Answered
    <3>4. \A k \in Nat : k # 0 /\ k # 1 => k - 1 \in 1 .. k /\ k - 1 \in 1 .. k - 1 /\ (k - 1) + 1 = k
                                            /\ (k - 1 = 1 => k = 2)
      OBVIOUS
    <3>5. n - 1 \in 1 .. n /\ n - 1 = 1 /\ n = 2 /\ n - 1 \in 1 .. n - 1 /\ (n - 1) + 1 = n
      <4>1. n - 1 \in 1 .. n /\ n - 1 \in 1 .. n - 1 /\ (n - 1) + 1 = n /\ (n - 1 = 1 => n = 2)
        BY <3>1, <3>2, <3>4
      <4>2. h.op \in BottomOps
        BY <1>4, <1>9, <3>3 DEF BottomOps
      <4>3. n - 1 \in 1 .. Len(stack[t]) /\ stack[t][n - 1].op \in BottomOps
        BY <4>1, <4>2
      <4> HIDE DEF h, n, g, l
      <4>4. n - 1 = 1
        BY <1>2, <3>1, <4>3 DEF ClerkBottoms
      <4> QED
        BY <4>1, <4>4
    <3>6. h = f /\ f.pc = "wait" /\ Calls(f, Top(t).op, Top(t).arg)
      <4>1. h = f /\ f = stack[t][n - 1]
        BY <3>1, <3>5
      <4>2. /\ stack[t][n - 1].pc = "wait"
            /\ Calls(stack[t][n - 1], stack[t][(n - 1) + 1].op, stack[t][(n - 1) + 1].arg)
        BY <3>2, <3>5 DEF LinksOK
      <4> QED
        BY <3>2, <3>5, <4>1, <4>2
    <3> HIDE DEF f, g, h, l
    <3>7. CASE f.op = "ClerkPut"
      <4>1. Doing(c) = [does |-> "write", key |-> f.arg[1], val |-> f.arg[2]]
        BY <3>1, <3>2, <3>7 DEF Doing, f, l
      <4>2. Doing(c)' = [does |-> "write", key |-> g.arg[1], val |-> g.arg[2]]
        BY <1>9, <3>3, <3>6, <3>7 DEF Doing, g, l
      <4> QED
        BY <3>3, <3>6, <4>1, <4>2
    <3>8. CASE f.op = "ClerkGet" /\ r.err # "OK"
      <4>1. Doing(c) = [does |-> "read", key |-> f.arg[1], since |-> f.arg[2], answer |-> 0]
        BY <3>1, <3>2, <3>6, <3>8 DEF Doing, f, l
      <4>2. Doing(c)' = [does |-> "read", key |-> g.arg[1], since |-> g.arg[2], answer |-> 0]
        BY <1>9, <3>3, <3>6, <3>8 DEF Doing, g, l
      <4> QED
        BY <3>3, <3>6, <4>1, <4>2
    <3>9. CASE f.op = "ClerkGet" /\ r.err = "OK"
      <4>1. Top(t).op = "Get"
        BY <3>6, <3>9 DEF Calls
      <4>2. GetRead(t) /\ r = Read(t)
        BY <2>4, <3>9, <4>1 DEF AnswersWith, WrongServer, Copies
      <4> QED
        BY <1>9, <3>1, <3>2, <3>5, <3>9, <4>1, <4>2 DEF Served, f, g, l
    <3>10. f.op \in {"ClerkPut", "ClerkGet"}
      BY <1>3, <3>1, <3>2 DEF f, l
    <3> QED
      BY <3>7, <3>8, <3>9, <3>10
  <2>5. CASE IsAnswer(l, g)
    <3>1. PICK r \in Res : Handle(l) /\ AnswersWith(l, r) /\ g = Answered(l, r)
      BY <2>5 DEF IsAnswer
    <3> QED
      BY <2>4, <2>5, <3>1
  <2> QED
    BY <2>1, <2>2, <2>3, <2>5
<1> QED
  BY <1>5, <1>6, <1>7, <1>8, <1>9

\* If servers at worst crash, a handler leaves other threads alone.
LEMMA HandleOthers ==
    ASSUME PBInv, FailStop, NEW t \in Threads, Handle(t)
    PROVE  Others(t)
<1>1. stack[t] # <<>> /\ stack \in [Threads -> Seq(Frames)]
  BY HandleKinds, ServiceData
<1>2. Become(t, "Relay") => Others(t)
  BY <1>1 DEF Become, Others
<1> QED
  BY <1>1, <1>2, HandleKinds, Effects

-----------------------------------------------------------------------------
(* Who works for whom, and who has data, if servers at worst crash.        *)

\* Put, Relay and Get are at the primary.
AtPrimaryInv ==
    \A t \in Threads : \A i \in 1 .. Len(stack[t]) :
        stack[t][i].op \in {"Put", "Relay", "Get"} => stack[t][i].at = view.Primary

\* A Put, and all that works for it, is one that a clerk is doing.
Writing(f) == [does |-> "write", key |-> f.arg[1], val |-> f.arg[2]]
PutsOwned ==
    \A t \in Threads : \A i \in 1 .. Len(stack[t]) :
        stack[t][i].op \in PutOps => t[1] \in Clerks /\ Doing(t[1]) = Writing(stack[t][i])

\* What is left over is one copy to the backup; the clerk whose Put it is for
\* has to try again.
LeftInv ==
    \A o \in Owners : stack[Left(o)] # <<>> =>
        /\ Len(stack[Left(o)]) = 1 /\ Top(Left(o)).op \in Copies /\ Top(Left(o)).at = view.Backup
        /\ Top(Left(o)).op = "ForwardPut" =>
              /\ Len(stack[Live(o)]) = 1
              /\ stack[Live(o)][1].pc = "ret" => stack[Live(o)][1].res = Fail

HomeInv == AtPrimaryInv /\ PutsOwned /\ LeftInv /\ DataInv

\* A primary that is up stays the primary.
LEMMA PrimaryStays ==
    ASSUME PBInv, FailStop, FailStopNext, NEW q \in up, view.Primary = q
    PROVE  view'.Primary = q
<1>1. ASSUME NEW s \in Servers, TickPing(s) PROVE view'.Primary = q
  <2> DEFINE n == pbview[s].Viewnum
  <2>1. /\ s \in up /\ Resting(s) /\ PingAccepted(s, n) /\ VSTypeOK /\ VSInv /\ PrimaryInv
        /\ n \in Nat /\ up \in SUBSET Servers
    BY <1>1, ServiceData, HeardViews DEF TickPing, Resting, PBInv, ViewsInv, View
  <2>2. view.Primary = s => n # 0
    BY <2>1 DEF PrimaryInv
  <2>3. \A p \in up : view.Primary = p => newView.Primary = p
    BY <2>1 DEF PrimaryInv
  <2> HIDE DEF n
  <2> QED
    BY <2>1, <2>2, <2>3, PingRoles
<1>2. \A t \in Threads : Handle(t) => view' = view
  BY HandleData DEF Quiet, vsVars
<1>3. \A c \in Clerks : StartPut(c) \/ StartGet(c) \/ ClerkStep(c) => view' = view
  BY ClerkEffect DEF vsVars
<1>4. \A s \in Servers : TickView(s) \/ TickMove(s) \/ TickMoved(s) \/ Crash(s) => view' = view
  BY DEF TickView, TickMove, TickMoved, Crash, vsVars
<1>5. VSTick \/ TimePasses \/ UNCHANGED vars => view' = view
  BY DEF VSTick, Tick, TimePasses, Elapse, vars, vsVars
<1> QED
  BY <1>1, <1>2, <1>3, <1>4, <1>5 DEF FailStopNext

\* Where a frame may be.
LEMMA FramePlaces ==
    ASSUME PBInv, NEW t \in Threads, NEW i \in 1 .. Len(stack[t])
    PROVE  LET f == stack[t][i]
           IN  /\ f.op \in {"ClerkPut", "ClerkGet"} => f.at \in Clerks
               /\ f.op \notin {"ClerkPut", "ClerkGet"} => f.at \in up /\ f.at \in Servers
               /\ f.op \in Copies => i = Len(stack[t]) /\ f.pc = "start"
<1>1. /\ FrameOK(stack[t][i], env, puts, stored) /\ LinksOK(stack[t]) /\ stack[t] \in Seq(Frames)
      /\ stack[t][i].at \in up \cup Clerks
  BY DEF PBInv, Core, StacksInv, StackOK, FramesOK, PlacesInv
<1>2. \A n \in Nat : \A j \in 1 .. n : j = n \/ j \in 1 .. n - 1
  OBVIOUS
<1>3. i = Len(stack[t]) \/ stack[t][i].pc = "wait"
  BY <1>1, <1>2 DEF LinksOK
<1> QED
  BY <1>1, <1>3, Constants DEF FrameOK, PlaceOK, PcOK, Copies

\* It stays at the primary whatever works for it.
LEMMA AtPrimaryKept ==
    ASSUME PBInv, PBInv', FailStop, RoleInv, AtPrimaryInv, FailStopNext, [Next]_vars
    PROVE  AtPrimaryInv'
<1> SUFFICES ASSUME NEW t \in Threads, NEW i \in 1 .. Len(stack'[t]),
                    stack'[t][i].op \in {"Put", "Relay", "Get"}
             PROVE  stack'[t][i].at = view'.Primary
  BY DEF AtPrimaryInv
<1> DEFINE g == stack'[t][i]
<1>1. g.at \in up /\ g.at \in Servers
  <2>1. g.at \in up' \cup Clerks /\ FrameOK(g, env', puts', stored')
    BY DEF PBInv, Core, StacksInv, StackOK, FramesOK, PlacesInv
  <2>2. g.at \in Servers /\ g.at \notin Clerks
    BY <2>1, Constants DEF FrameOK, PlaceOK
  <2>3. up' \subseteq up
    <3>1. \A u \in Threads : Handle(u) => up' = up
      BY HandleData DEF Quiet
    <3>2. \A c \in Clerks : StartPut(c) \/ StartGet(c) \/ ClerkStep(c) => up' = up
      BY ClerkEffect DEF pbVars
    <3> QED
      BY <3>1, <3>2
         DEF FailStopNext, TickPing, TickView, TickMove, TickMoved, Crash, VSTick, TimePasses, vars, pbVars
  <2> QED
    BY <2>1, <2>2, <2>3
<1>2. g.at = view.Primary
  <2>1. CASE HasSource(t, g)
    <3>1. PICK u \in Threads : u[1] = t[1] /\ \E j \in 1 .. Len(stack[u]) :
             Continues(g, stack[u][j]) \/ PassedOn(g, stack[u][j])
      BY <2>1 DEF HasSource
    <3>2. PICK j \in 1 .. Len(stack[u]) : Continues(g, stack[u][j]) \/ PassedOn(g, stack[u][j])
      BY <3>1
    <3>3. stack[u][j].op \in {"Put", "Relay", "Get"} =>
             stack[u][j].at = view.Primary /\ stack[u][j].at \in up
      BY FramePlaces DEF AtPrimaryInv
    <3>4. CASE Continues(g, stack[u][j])
      BY <3>3, <3>4 DEF Continues
    <3>5. CASE PassedOn(g, stack[u][j])
      <4>1. CASE stack[u][j].op = "Relay"
        BY <1>1, <3>3, <3>5, <4>1 DEF PassedOn, RoleInv, RoleOK
      <4> QED
        BY <3>3, <3>5, <4>1 DEF PassedOn
    <3> QED
      BY <3>2, <3>4, <3>5
  <2>2. CASE IsAnswer(t, g)
    <3>1. PICK r \in Res : g = Answered(t, r)
      BY <2>2 DEF IsAnswer
    <3> QED
      BY <2>2, <3>1 DEF IsAnswer, AtPrimaryInv, Answered
  <2>3. ~ IsStart(t, g) /\ ~ IsTick(t, g)
    BY NewOps
  <2> QED
    BY <2>1, <2>2, <2>3, FrameFlow
<1> QED
  BY <1>1, <1>2, PrimaryStays

-----------------------------------------------------------------------------
(* Whose a Put is.                                                         *)

\* A clerk that writes has its Put at the bottom of its thread.
LEMMA WritesPut ==
    ASSUME NEW c, NEW f, Doing(c) = Writing(f)
    PROVE  stack[Live(c)] # <<>> /\ stack[Live(c)][1].op = "ClerkPut"
<1>1. \A a, b, k, v, w, x, y : /\ [does |-> "nothing"] # [does |-> "write", key |-> k, val |-> v]
                               /\ [does |-> "read", key |-> a, since |-> b, answer |-> w]
                                     # [does |-> "write", key |-> k, val |-> v]
  <2>1. ASSUME NEW a, NEW b, NEW k, NEW v, NEW w,
               [does |-> "read", key |-> a, since |-> b, answer |-> w] = [does |-> "write", key |-> k, val |-> v]
        PROVE  FALSE
    <3>1. [does |-> "read", key |-> a, since |-> b, answer |-> w].does
             = [does |-> "write", key |-> k, val |-> v].does
      BY <2>1
    <3> QED
      BY <3>1
  <2>2. ASSUME NEW k, NEW v, [does |-> "nothing"] = [does |-> "write", key |-> k, val |-> v]
        PROVE  FALSE
    <3>1. [does |-> "nothing"].does = [does |-> "write", key |-> k, val |-> v].does
      BY <2>2
    <3> QED
      BY <3>1
  <2> QED
    BY <2>1, <2>2
<1>2. stack[Live(c)] # <<>>
  BY <1>1 DEF Writing, Doing
<1>3. stack[Live(c)][1].op = "ClerkPut"
  BY <1>1, <1>2 DEF Writing, Doing
<1> QED
  BY <1>2, <1>3

\* A clerk writes on while a frame is left that does.
LEMMA WritesOn ==
    ASSUME PBInv, PBInv', FailStop, LeftInv, [Next]_vars, NEW t \in Threads, NEW f, t[1] \in Clerks, Doing(t[1]) = Writing(f),
           NEW i \in 1 .. Len(stack'[t]), stack'[t][i].op \in PutOps
    PROVE  Doing(t[1])' = Writing(f)
<1> DEFINE c == t[1]
<1>1. c \in Clerks /\ stack[Live(c)] # <<>> /\ stack[Live(c)][1].op = "ClerkPut"
  BY WritesPut
<1>2. ~ StartPut(c) /\ ~ StartGet(c) /\ ~ Served(c)
  BY <1>1 DEF StartPut, StartGet, Served
<1>3. ASSUME Finishes(c) PROVE FALSE
  <2> DEFINE l == Live(c)
  <2>1. Top(l).op \in {"ClerkPut", "ClerkGet"}
    BY <1>3 DEF Finishes
  <2>2. l \in Threads /\ Len(stack[l]) = 1
    BY <1>1, <2>1, ClerkFrame
  <2>3. Top(l) = stack[l][1]
    BY <1>1, <2>2, TopRole
  <2>4. ClerkPutReturn(c) /\ stack[l][1].res.err # "fail"
    BY <1>1, <1>3, <2>3 DEF Finishes
  <2>5. Return(l, OK) /\ stack[l][1].pc = "ret"
    BY <2>3, <2>4 DEF ClerkPutReturn, Running, Top
  <2>6. Ended(stack'[l], stack[l], OK) /\ Others(l)
    BY <1>1, <2>2, <2>5, Effects, Constants
  <2>7. stack'[l] = <<>>
    BY <2>2, <2>6 DEF Ended
  <2>8. t # l
    BY <2>7
  <2>9. t = Left(c) /\ stack'[t] = stack[t]
    BY <2>6, <2>8 DEF Threads, Live, Left, Others
  <2>10. stack[t] # <<>> /\ c \in Owners
    BY <1>1, <2>9 DEF Owners
  <2>11. Len(stack[t]) = 1 /\ Top(t) = stack[t][1]
    BY <2>9, <2>10, TopRole DEF LeftInv
  <2>12. Top(t).op = "ForwardPut"
    BY <2>9, <2>10, <2>11 DEF LeftInv, Copies, PutOps
  <2>13. stack[l][1].res = Fail
    BY <2>5, <2>9, <2>10, <2>12 DEF LeftInv
  <2> QED
    BY <2>4, <2>13 DEF Fail
<1>4. Doing(c)' = Doing(c)
  BY <1>1, <1>2, <1>3, DoingStep
<1> QED
  BY <1>4

\* So a Put, and all that works for it, stays one that a clerk is doing.
LEMMA OwnedKept ==
    ASSUME PBInv, PBInv', FailStop, PutsOwned, LeftInv, [Next]_vars
    PROVE  PutsOwned'
<1> SUFFICES ASSUME NEW t \in Threads, NEW i \in 1 .. Len(stack'[t]), stack'[t][i].op \in PutOps
             PROVE  t[1] \in Clerks /\ Doing(t[1])' = Writing(stack'[t][i])
  BY DEF PutsOwned
<1> DEFINE g == stack'[t][i]
<1>2. ASSUME NEW u \in Threads, NEW j \in 1 .. Len(stack[u]), u[1] = t[1],
             stack[u][j].op \in PutOps, stack[u][j].arg = g.arg
      PROVE  t[1] \in Clerks /\ Doing(t[1])' = Writing(g)
  <2> HIDE DEF g
  <2>1. t[1] \in Clerks /\ Doing(t[1]) = Writing(g)
    BY <1>2 DEF PutsOwned, Writing
  <2> QED
    BY <2>1, WritesOn DEF g
<1>3. CASE HasSource(t, g)
  <2>1. PICK u \in Threads : u[1] = t[1] /\ \E j \in 1 .. Len(stack[u]) :
           Continues(g, stack[u][j]) \/ PassedOn(g, stack[u][j])
    BY <1>3 DEF HasSource
  <2>2. PICK j \in 1 .. Len(stack[u]) : Continues(g, stack[u][j]) \/ PassedOn(g, stack[u][j])
    BY <2>1
  <2>3. g.op \in PutOps
    OBVIOUS
  <2> HIDE DEF g
  <2>4. stack[u][j].op \in PutOps /\ stack[u][j].arg = g.arg
    BY <2>2, <2>3 DEF Continues, PassedOn, PutOps
  <2> QED
    BY <1>2, <2>1, <2>4 DEF g
<1>4. CASE IsAnswer(t, g)
  <2>1. g.op \in PutOps
    OBVIOUS
  <2> HIDE DEF g
  <2>2. Len(stack[t]) - 1 \in 1 .. Len(stack[t]) /\ \E r : g = Answered(t, r)
    BY <1>4 DEF IsAnswer
  <2>3. g.op = stack[t][Len(stack[t]) - 1].op /\ g.arg = stack[t][Len(stack[t]) - 1].arg
    BY <2>2 DEF Answered
  <2> QED
    BY <1>2, <2>1, <2>2, <2>3 DEF g
<1>5. CASE IsStart(t, g)
  <2>1. g.op = "ClerkPut"
    BY <1>5, NewOps DEF PutOps
  <2>2. ClerkBottoms'
    BY PBBottoms, PTL
  <2>3. i = 1 /\ stack'[t] # <<>> /\ stack' \in [Threads -> Seq(Frames)]
    BY <2>1, <2>2 DEF ClerkBottoms, BottomOps
  <2>4. PICK c \in Clerks : t = Live(c)
    BY <1>5 DEF IsStart
  <2> HIDE DEF g
  <2>5. Doing(c)' = Writing(g) /\ t[1] = c
    BY <2>1, <2>3, <2>4 DEF Doing, Writing, g, Live
  <2> QED
    BY <2>4, <2>5 DEF g
<1>6. ~ IsTick(t, g)
  BY NewOps DEF PutOps
<1> QED
  BY <1>3, <1>4, <1>5, <1>6, FrameFlow

-----------------------------------------------------------------------------
(* What is left over.                                                      *)

\* A copy is on its way to the backup, which the primary has, if that is up.
LEMMA CopyTarget ==
    ASSUME PBInv, FailStop, RoleInv, CopiesInv, LeftInv, NEW t \in Threads, stack[t] # <<>>,
           Top(t).op \in Copies
    PROVE  Top(t).at = view.Backup /\ Partner(Top(t).at) /\ Top(t).at \in up /\ Top(t).at # view.Primary
<1> DEFINE g == Top(t)
           f == stack[t][Len(stack[t]) - 1]
<1>1. /\ Len(stack[t]) \in Nat \ {0} /\ Len(stack[t]) \in 1 .. Len(stack[t]) /\ g = stack[t][Len(stack[t])]
      /\ CopyOK(t) /\ t[1] \in Owners /\ t[2] \in {"live", "left"} /\ t = <<t[1], t[2]>>
  BY TopRole DEF CopiesInv, Threads
<1>2. g.at \in up /\ g.at \in Servers
  BY <1>1, FramePlaces DEF Copies
<1>3. CASE Len(stack[t]) = 1
  <2>1. Orphaned
    BY <1>1, <1>3 DEF CopyOK
  <2>2. t[2] # "live"
    <3>1. 1 \in 1 .. Len(stack[t]) /\ stack[t][1].op \in Copies
      BY <1>1, <1>3
    <3>2. BottomOK(t, stack[t])
      BY DEF PBInv, Core, StacksInv, StackOK
    <3> QED
      BY <3>1, <3>2 DEF BottomOK, BottomOps, Copies
  <2>3. t = Left(t[1])
    BY <1>1, <2>2 DEF Left
  <2>4. g.at = view.Backup
    BY <1>1, <2>3 DEF LeftInv
  <2> QED
    BY <1>2, <2>1, <2>4 DEF Orphaned, Partner
<1>4. CASE Len(stack[t]) # 1
  <2>1. /\ f.at \in Servers /\ f.at \in up /\ g.at # f.at /\ f.at = view.Primary
        /\ pbview[f.at].Primary = f.at
    BY <1>4, Caller
  <2>2. g.at = pbview[f.at].Backup
    BY <1>1, <1>4 DEF CopyOK, FromOK
  <2> HIDE DEF f, g
  <2>3. Backs(view, f.at, g.at)
    BY <1>2, <2>1, <2>2 DEF RoleInv, RoleOK
  <2>4. view.Backup = g.at
    BY <2>1, <2>3 DEF Backs
  <2> QED
    BY <1>2, <2>1, <2>2, <2>4 DEF Partner, g
<1> QED
  BY <1>3, <1>4

\* What LeftInv says of owner o.
LeftOK(o) ==
    stack[Left(o)] # <<>> =>
        /\ Len(stack[Left(o)]) = 1 /\ Top(Left(o)).op \in Copies /\ Top(Left(o)).at = view.Backup
        /\ Top(Left(o)).op = "ForwardPut" =>
              /\ Len(stack[Live(o)]) = 1
              /\ stack[Live(o)][1].pc = "ret" => stack[Live(o)][1].res = Fail

\* The clerk whose Put is left over is waiting to try again.
LEMMA LeftClerk ==
    ASSUME PBInv, PutsOwned, LeftInv, NEW o \in Owners, stack[Left(o)] # <<>>, Top(Left(o)).op = "ForwardPut"
    PROVE  /\ o \in Clerks /\ Len(stack[Live(o)]) = 1 /\ stack[Live(o)] # <<>>
           /\ stack[Live(o)][1].op = "ClerkPut" /\ Top(Live(o)) = stack[Live(o)][1]
           /\ stack[Live(o)][1].pc = "ret" => stack[Live(o)][1].res = Fail
<1> DEFINE t == Left(o)
<1>1. t \in Threads /\ t[1] = o /\ Live(o) \in Threads
  BY DEF Left, Live, Threads
<1>2. Top(t) = stack[t][1] /\ 1 \in 1 .. Len(stack[t])
  <2>1. Len(stack[t]) = 1
    BY DEF LeftInv
  <2> QED
    BY <1>1, <2>1, TopRole
<1>3. o \in Clerks /\ Doing(o) = Writing(stack[t][1])
  BY <1>1, <1>2 DEF PutsOwned, PutOps
<1>4. stack[Live(o)] # <<>> /\ stack[Live(o)][1].op = "ClerkPut"
  BY <1>3, WritesPut
<1>5. Len(stack[Live(o)]) = 1 /\ (stack[Live(o)][1].pc = "ret" => stack[Live(o)][1].res = Fail)
  BY DEF LeftInv
<1>6. Top(Live(o)) = stack[Live(o)][1]
  BY <1>1, <1>4, <1>5, TopRole
<1> QED
  BY <1>3, <1>4, <1>5, <1>6

\* A step of another owner leaves both threads alone.
LEMMA LeftSame ==
    ASSUME LeftInv, NEW o \in Owners, stack'[Left(o)] = stack[Left(o)],
           view'.Backup = view.Backup,
           stack[Left(o)] # <<>> /\ Top(Left(o)).op = "ForwardPut" =>
              /\ Len(stack'[Live(o)]) = 1
              /\ stack'[Live(o)][1].pc = "ret" => stack'[Live(o)][1].res = Fail
    PROVE  LeftOK(o)'
<1>1. Top(Left(o))' = Top(Left(o))
  BY DEF Top
<1> QED
  BY <1>1 DEF LeftInv, LeftOK

\* The backup that has a copy left over keeps its role.
LEMMA LeftRole ==
    ASSUME PBInv, FailStop, HeardInv, CopiesInv, LeftInv, NEW s \in Servers, TickPing(s), CopiesInv',
           NEW o \in Owners, stack[Left(o)] # <<>>
    PROVE  view'.Backup = view.Backup
<1> DEFINE t == Left(o)
           b == view.Backup
<1>1. t \in Threads /\ Live(s) # t
  BY DEF Left, Live, Threads
<1>2. stack'[t] = stack[t] /\ up' = up
  BY <1>1, ServiceData DEF TickPing, pbVars
<1>3. Top(t)' = Top(t) /\ Len(stack[t]) = 1 /\ Top(t).op \in Copies /\ Top(t).at = b
  BY <1>2 DEF Top, LeftInv
<1>4. Orphaned /\ Orphaned'
  <2>1. CopyOK(t) /\ CopyOK(t)'
    BY <1>1 DEF CopiesInv
  <2> QED
    BY <1>2, <1>3, <2>1 DEF CopyOK
<1>5. b \in up /\ b \in Servers
  <2>1. Len(stack[t]) \in 1 .. Len(stack[t]) /\ Top(t) = stack[t][Len(stack[t])]
    BY <1>1, TopRole
  <2> QED
    BY <1>1, <1>3, <2>1, FramePlaces DEF Copies
<1>6. Backs(newView, view.Primary, b) /\ view.Primary \in Servers
  BY <1>4, <1>5 DEF HeardInv, BackupOK, Backs, Orphaned
<1>7. CASE view' = newView' /\ \A p \in Servers \cup {None}, c \in Servers : Backs(newView, p, c) => Backs(newView', p, c)
  <2>1. Backs(newView', view.Primary, b)
    BY <1>5, <1>6, <1>7
  <2>2. newView'.Primary # b
    BY <1>2, <1>4, <1>5, <1>7 DEF Orphaned
  <2> QED
    BY <1>7, <2>1, <2>2 DEF Backs
<1> DEFINE n == pbview[s].Viewnum
<1>8. n \in Nat /\ PingAccepted(s, n) /\ VSTypeOK /\ VSInv /\ (view.Primary = s => n # 0)
  <2>1. n \in Nat /\ PingAccepted(s, n) /\ VSTypeOK /\ VSInv /\ s \in up
    BY ServiceData, HeardViews DEF TickPing, PBInv, ViewsInv, View
  <2> QED
    BY <1>4, <2>1 DEF Orphaned
<1> HIDE DEF n
<1> QED
  BY <1>7, <1>8, PingHeard

\* Steps but crashes keep it.
LEMMA LeftKept ==
    ASSUME PBInv, PBInv', FailStop, HeardInv, ReplicaInv, PutsOwned, LeftInv, ReplicaInv', FailStopNext,
           \A s \in Servers : ~ Crash(s), NEW o \in Owners, stack'[Left(o)] # <<>>
    PROVE  LeftOK(o)'
<1> DEFINE t == Left(o)
           l == Live(o)
<1>1. /\ t \in Threads /\ l \in Threads /\ \A q : t # Live(q) /\ stack \in [Threads -> Seq(Frames)]
      /\ CopiesInv /\ CopiesInv'
      /\ \A q : Live(q) = l <=> q = o
  BY ServiceData DEF Left, Live, Threads, ReplicaInv
<1>2. stack[t] # <<>> => Top(t).op \in Copies /\ Len(stack[t]) = 1 /\ Orphaned
  <2>1. stack[t] # <<>> => Top(t).op \in Copies /\ Len(stack[t]) = 1
    BY DEF LeftInv
  <2> QED
    BY <1>1, <2>1 DEF CopiesInv, CopyOK
<1>3. ASSUME NEW u \in Threads, Others(u), u # t, view'.Backup = view.Backup,
             u = l /\ stack[t] # <<>> /\ Top(t).op = "ForwardPut" =>
                /\ Len(stack'[l]) = 1
                /\ stack'[l][1].pc = "ret" => stack'[l][1].res = Fail
      PROVE  LeftOK(o)'
  <2>1. stack'[t] = stack[t] /\ (u # l => stack'[l] = stack[l])
    BY <1>1, <1>3 DEF Others
  <2>2. stack[t] # <<>> /\ Top(t).op = "ForwardPut" =>
           Len(stack[l]) = 1 /\ (stack[l][1].pc = "ret" => stack[l][1].res = Fail)
    BY DEF LeftInv
  <2> QED
    BY <1>3, <2>1, <2>2, LeftSame
<1>4. ASSUME NEW u \in Threads, Handle(u) PROVE LeftOK(o)'
  <2>1. Others(u) /\ stack[u] # <<>> /\ Top(u).op \notin BottomOps
    BY <1>4, HandleOthers, HandleKinds
  <2>2. u # t
    <3> SUFFICES ASSUME u = t PROVE FALSE
      OBVIOUS
    <3>1. Top(t).op \in Copies /\ Len(stack[t]) = 1 /\ stack[t] # <<>>
      BY <1>2, <2>1
    <3>2. Return(t, OK)
      BY <1>4, <3>1 DEF Handle, GetEnter, GetRead, PutEnter, PutStore, PutForward, PutForwarded,
                        RelayCall, RelayReturn, ForwardPut, MoveDB, Running, Top, Copies
    <3>3. Ended(stack'[t], stack[t], OK)
      BY <1>1, <3>1, <3>2, Effects, Constants
    <3> QED
      BY <3>1, <3>3 DEF Ended
  <2>3. view'.Backup = view.Backup
    BY <1>4, HandleData DEF Quiet, vsVars
  <2>4. ~ (u = l /\ stack[t] # <<>> /\ Top(t).op = "ForwardPut")
    BY <2>1, LeftClerk DEF BottomOps
  <2> QED
    BY <1>3, <2>1, <2>2, <2>3, <2>4
<1>5. ASSUME NEW c \in Clerks, StartPut(c) \/ StartGet(c) \/ ClerkStep(c) PROVE LeftOK(o)'
  <2>1. Live(c) \in Threads /\ Others(Live(c)) /\ view'.Backup = view.Backup /\ Live(c) # t
    BY <1>1, <1>5, ClerkEffect DEF vsVars
  <2> SUFFICES ASSUME Live(c) = l, stack[t] # <<>>, Top(t).op = "ForwardPut"
               PROVE  Len(stack'[l]) = 1 /\ (stack'[l][1].pc = "ret" => stack'[l][1].res = Fail)
    BY <1>3, <2>1
  <2> DEFINE f == stack[l][1]
  <2>2. /\ o \in Clerks /\ o = c /\ Len(stack[l]) = 1 /\ stack[l] # <<>> /\ f.op = "ClerkPut"
        /\ Top(l) = f /\ (f.pc = "ret" => f.res = Fail)
    BY <1>1, LeftClerk
  <2>3. ASSUME NEW pc, NEW r, Moved(stack'[l], stack[l], pc, r)
        PROVE  Len(stack'[l]) = 1 /\ stack'[l][1].pc = pc /\ stack'[l][1].res = r
    BY <2>2, <2>3 DEF Moved, Like
  <2>4. CASE ClerkCall(c)
    <3>1. PICK op, arg : Call(l, view.Primary, op, arg)
      BY <2>2, <2>4 DEF ClerkCall
    <3>2. view.Primary \notin up
      BY <1>2 DEF Orphaned
    <3>3. Failed(l)
      BY <1>1, <2>2, <3>1, <3>2, Effects
    <3> QED
      BY <2>3, <3>3 DEF Failed
  <2>5. CASE ClerkPutReturn(c)
    <3>1. Top(l).pc = "ret"
      BY <2>2, <2>5 DEF ClerkPutReturn, Running, Top
    <3>2. Goto(l, "start")
      BY <2>2, <2>5, <3>1 DEF ClerkPutReturn, Fail
    <3>3. Moved(stack'[l], stack[l], "start", NoRes)
      BY <1>1, <2>2, <3>2, Effects DEF Pcs
    <3> QED
      BY <2>3, <3>3
  <2>6. ~ StartPut(c) /\ ~ StartGet(c) /\ ~ ClerkGetReturn(c)
    BY <2>2 DEF StartPut, StartGet, ClerkGetReturn, Running, Top
  <2> QED
    BY <1>5, <2>4, <2>5, <2>6 DEF ClerkStep
<1>6. ASSUME NEW s \in Servers, stack[t] # <<>>, Top(t).op = "ForwardPut" PROVE Live(s) # l
  BY <1>1, <1>6, LeftClerk, Constants
<1>7. ASSUME NEW s \in Servers, Others(Live(s)), view'.Backup = view.Backup PROVE LeftOK(o)'
  BY <1>1, <1>3, <1>6, <1>7, TickThread
<1>8. ASSUME NEW s \in Servers, TickPing(s) PROVE LeftOK(o)'
  <2>1. Live(s) \in Threads /\ t # Live(s)
    BY <1>1, TickThread
  <2>2. Others(Live(s))
    BY <1>1, <1>8 DEF TickPing, Others
  <2>3. stack[t] # <<>>
    BY <1>1, <2>1, <2>2 DEF Others
  <2> QED
    BY <1>1, <1>7, <1>8, <2>2, <2>3, LeftRole
<1>9. ASSUME NEW s \in Servers, TickView(s) \/ TickMove(s) \/ TickMoved(s) PROVE LeftOK(o)'
  <2>1. Live(s) \in Threads /\ view'.Backup = view.Backup
    BY <1>9, TickThread DEF TickView, TickMove, TickMoved, vsVars
  <2>2. CASE TickView(s) \/ TickMoved(s)
    BY <1>1, <1>7, <2>1, <2>2 DEF TickView, TickMoved, Goto, Return, Others
  <2>3. CASE TickMove(s)
    <3>1. stack[Live(s)] # <<>> /\ Call(Live(s), pbview[s].Backup, "MoveDB", db[s])
      BY <2>3 DEF TickMove, Running
    <3>2. Others(Live(s))
      BY <2>1, <3>1, Effects
    <3> QED
      BY <1>7, <2>1, <3>2
  <2> QED
    BY <1>9, <2>2, <2>3
<1>10. ASSUME VSTick \/ TimePasses \/ UNCHANGED vars PROVE LeftOK(o)'
  <2>1. stack' = stack /\ view' = view
    BY <1>10 DEF VSTick, Tick, TimePasses, Elapse, vars, vsVars
  <2> QED
    BY <1>3, <2>1, <1>1, LeftSame DEF LeftInv
<1> QED
  BY <1>4, <1>5, <1>8, <1>9, <1>10 DEF FailStopNext

\* A crash leaves the copy that it leaves for a Put without its caller: the clerk
\* of the Put is alone.
LEMMA LeftCrash ==
    ASSUME PBInv, PBInv', FailStop, RoleInv, ReplicaInv, AtPrimaryInv, PutsOwned, LeftInv,
           NEW s \in Servers, Crash(s), NEW o \in Owners, stack'[Left(o)] # <<>>
    PROVE  LeftOK(o)'
<1> DEFINE t == Left(o)
           l == Live(o)
           w == stack'[t]
           st == stack[l]
           a == RestAt(st, s)
           k == FirstAt(st, s)
           v == stack'[l]
<1>1. /\ t \in Threads /\ l \in Threads /\ t # l /\ t[1] = o /\ l[1] = o /\ t[2] = "left" /\ l[2] = "live"
      /\ stack \in [Threads -> Seq(Frames)] /\ CopiesInv
      /\ CrashedStack(s) /\ Survive(s) /\ UNCHANGED vsVars /\ s \in up
  BY ServiceData, CrashFacts DEF Left, Live, Threads, ReplicaInv
<1>2. /\ w \in Seq(Frames) /\ Len(w) \in Nat \ {0} /\ v \in Seq(Frames)
      /\ \A x \in Nat, n \in Nat \ {0} : x + n <= x + 1 => n = 1
  BY <1>1 DEF PBInv, Core, StacksInv
<1>3. Stays(l, s) /\ (Stays(t, s) \/ TakesOver(t, s))
  BY <1>1, ThreadParts DEF TakesOver
<1>4. v = Below(st, s) /\ LinksOK(st) /\ st \in Seq(Frames)
  BY <1>1, <1>3 DEF Stays, PBInv, Core, StacksInv, StackOK
\* A frame that is copying, if left, is as it was.
<1>5. ASSUME NEW u \in Threads, NEW i \in 1 .. Len(stack[u]), NEW g, Kept(g, stack[u][i]),
             stack[u][i].op \in Copies
      PROVE  g = stack[u][i] /\ i = Len(stack[u]) /\ Top(u) = g /\ stack[u] # <<>>
  <2>1. stack[u][i].pc = "start" /\ i = Len(stack[u])
    BY <1>5, FramePlaces
  <2>2. stack[u] \in Seq(Frames)
    BY <1>1
  <2>3. stack[u] # <<>>
    BY <2>2
  <2> QED
    BY <1>5, <2>1, <2>3, TopRole DEF Kept
<1>6. ASSUME Len(w) = 1, w[1].op \in Copies, w[1].at = view.Backup,
             w[1].op = "ForwardPut" => Len(v) = 1 /\ (v[1].pc = "ret" => v[1].res = Fail)
      PROVE  LeftOK(o)'
  <2>1. Top(t)' = w[1]
    BY <1>6 DEF Top, Last
  <2>2. view' = view
    BY <1>1 DEF vsVars
  <2> HIDE DEF w, v
  <2> QED
    BY <1>6, <2>1, <2>2 DEF LeftOK, w, v
<1>7. CASE Stays(t, s)
  <2>1. stack[t] # <<>> /\ w = Below(stack[t], s) /\ From(t) = t /\ Offset(t, s) = 0
    BY <1>1, <1>7 DEF Stays
  <2>2. /\ Len(stack[t]) = 1 /\ Top(t).op \in Copies /\ Top(t).at = view.Backup
        /\ Top(t).op = "ForwardPut" => Len(st) = 1 /\ (st[1].pc = "ret" => st[1].res = Fail)
    BY <2>1 DEF LeftInv
  <2>3. PieceOf(w, stack[t], 0, s)
    BY <1>1, <2>1 DEF Survive
  <2>4. Len(w) = 1 /\ Top(t) = stack[t][1]
    <3>1. 0 + Len(w) <= 0 + 1
      BY <2>2, <2>3 DEF PieceOf
    <3>2. Len(w) = 1
      BY <1>2, <3>1
    <3> QED
      BY <1>1, <2>1, <2>2, <3>2, TopRole
  <2>5. w[1] = Top(t)
    <3>1. 1 \in 1 .. Len(w) /\ 0 + 1 = 1 /\ 1 \in 1 .. Len(stack[t])
      BY <2>2, <2>4
    <3>2. Kept(w[1], stack[t][1])
      BY <2>3, <3>1 DEF PieceOf
    <3> QED
      BY <1>1, <1>5, <2>2, <2>4, <3>1, <3>2
  <2>6. ASSUME Top(t).op = "ForwardPut" PROVE v = st
    <3>1. o \in Clerks /\ Len(st) = 1 /\ st # <<>>
      BY <2>1, <2>6, LeftClerk
    <3>2. st[1].at # s
      <4>1. BottomOK(l, st)
        BY <1>1 DEF PBInv, Core, StacksInv, StackOK
      <4> QED
        BY <1>1, <3>1, <4>1, Constants DEF BottomOK
    <3>3. IsFirst(st, s, k)
      BY <1>4, FirstFacts
    <3> HIDE DEF st, k
    <3>4. \A i \in 0 .. 1 : i # 0 => i = 1
      OBVIOUS
    <3>5. k = 0
      BY <3>1, <3>2, <3>3, <3>4 DEF IsFirst
    <3> QED
      BY <1>4, <3>5 DEF Below, k
  <2> HIDE DEF w, v, st
  <2> QED
    BY <1>6, <2>2, <2>4, <2>5, <2>6
<1>8. CASE TakesOver(t, s)
  <2>1. w = Above(st, s) /\ PieceOf(w, st, a, s) /\ k # 0 /\ k <= a /\ a \in 1 .. Len(st)
    <3>1. w = Above(st, s) /\ w # <<>>
      BY <1>1, <1>8 DEF TakesOver
    <3> QED
      BY <1>4, <3>1, AbovePiece
  <2>2. /\ k \in 1 .. Len(st) /\ Len(st) \in Nat /\ st[a].at = s
        /\ st[k].at = s /\ \A i \in 1 .. k - 1 : st[i].at # s
    <3>1. IsFirst(st, s, k) /\ IsRest(Rest(st, s), st, s, k, a)
      BY <1>4, FirstFacts, RestFacts
    <3>2. Len(st) \in Nat
      BY <1>4
    <3> HIDE DEF k, a, st
    <3>3. k \in 0 .. Len(st)
      BY <3>1 DEF IsFirst
    <3>4. a \in k .. a /\ k \in 1 .. Len(st)
      BY <2>1, <3>2, <3>3
    <3> QED
      BY <2>1, <3>1, <3>2, <3>4 DEF IsFirst, IsRest
  <2>3. Kept(w[1], st[a + 1]) /\ w[1].at # s /\ a + 1 \in 1 .. Len(st) /\ a \in 1 .. Len(st) - 1 /\ a + Len(w) <= Len(st)
    <3>1. Len(st) \in Nat /\ Len(w) \in Nat \ {0} /\ a + Len(w) <= Len(st)
      BY <1>2, <2>1, <2>2 DEF PieceOf
    <3>2. 1 \in 1 .. Len(w)
      BY <3>1
    <3>3. Kept(w[1], st[a + 1]) /\ w[1].at # s
      BY <2>1, <3>2 DEF PieceOf
    <3> HIDE DEF w, a, st
    <3> QED
      BY <2>1, <3>1, <3>3
  <2>4. st[a].pc = "wait" /\ Calls(st[a], st[a + 1].op, st[a + 1].arg)
    BY <1>4, <2>3 DEF LinksOK
  <2>5. st[a + 1].at # s /\ st[a].op \notin {"ClerkPut", "ClerkGet"}
    <3>1. st[a].op \in {"ClerkPut", "ClerkGet"} => st[a].at \in Clerks
      BY <1>1, <2>1, FramePlaces
    <3> QED
      BY <2>2, <2>3, <3>1, Constants DEF Kept
  <2>6. st[a].op # "Relay"
    <3> SUFFICES ASSUME st[a].op = "Relay" PROVE FALSE
      OBVIOUS
    <3>1. st[a + 1].op \in {"Put", "Relay"}
      BY <2>4 DEF Calls
    <3> QED
      BY <1>1, <2>1, <2>2, <2>3, <2>5, <3>1 DEF AtPrimaryInv
  <2>7. st[a + 1].op \in Copies /\ (st[a + 1].op = "ForwardPut" => st[a].op = "Put")
    BY <2>4, <2>5, <2>6 DEF Calls, Copies
  <2>8. w[1] = st[a + 1] /\ a + 1 = Len(st) /\ Top(l) = w[1] /\ st # <<>>
    BY <1>1, <1>5, <2>3, <2>7
  <2>9. Len(w) = 1
    <3>1. Len(w) \in Nat \ {0} /\ a \in Nat
      BY <1>2, <2>1
    <3>2. a + Len(w) <= a + 1
      BY <2>3, <2>8
    <3> HIDE DEF w, a, st
    <3> QED
      BY <1>2, <3>1, <3>2
  <2>10. w[1].at = view.Backup /\ w[1].op \in Copies
    BY <1>1, <2>7, <2>8, CopyTarget
  <2>11. ASSUME w[1].op = "ForwardPut" PROVE Len(v) = 1 /\ (v[1].pc = "ret" => v[1].res = Fail)
    <3>1. st[a].op = "Put" /\ s = view.Primary
      BY <1>1, <2>1, <2>2, <2>7, <2>8, <2>11 DEF AtPrimaryInv
    <3>2. o \in Clerks /\ st[1].op = "ClerkPut"
      <4>1. o \in Clerks /\ Doing(o) = Writing(st[a + 1])
        BY <1>1, <2>3, <2>8, <2>11 DEF PutsOwned, PutOps
      <4> QED
        BY <4>1, WritesPut
    <3>3. st[1].at # s /\ 1 \in 1 .. Len(st)
      <4>1. BottomOK(l, st)
        BY <1>1 DEF PBInv, Core, StacksInv, StackOK
      <4>2. st[1].at = o
        BY <1>1, <2>8, <4>1 DEF BottomOK
      <4>3. 1 \in 1 .. Len(st)
        BY <2>2
      <4> QED
        BY <1>1, <3>2, <4>2, <4>3, Constants
    <3>4. k # 1 /\ 1 \in 1 .. Len(st) - 1 /\ 1 + 1 = 2 /\ 2 \in 1 .. Len(st)
      <4>1. k # 1
        BY <2>2, <3>3
      <4> HIDE DEF k, a, st
      <4> QED
        BY <2>2, <4>1
    <3>5. st[2].op \in {"Put", "Relay"} /\ st[1].pc = "wait"
      BY <1>4, <3>2, <3>4 DEF LinksOK, Calls
    <3>6. st[2].at = s
      BY <1>1, <3>1, <3>4, <3>5 DEF AtPrimaryInv
    <3>7. k = 2
      <4>1. \A n \in Nat : n \notin {0, 1, 2} => 2 \in 1 .. n - 1
        OBVIOUS
      <4>2. k \in Nat /\ k # 0
        BY <2>1, <2>2
      <4> QED
        BY <2>2, <3>4, <3>6, <4>1, <4>2
    <3>8. Len(v) = 1 /\ PieceOf(v, st, 0, s)
      <4>1. PieceOf(Below(st, s), st, 0, s) /\ Len(Below(st, s)) = IF k = 0 THEN Len(st) ELSE k - 1
        BY <1>4, BelowPiece
      <4> QED
        BY <1>4, <3>7, <4>1
    <3>9. Kept(v[1], st[1])
      <4>1. 1 \in 1 .. Len(v) /\ 0 + 1 = 1
        BY <3>8
      <4> QED
        BY <3>8, <4>1 DEF PieceOf
    <3> QED
      BY <3>5, <3>8, <3>9 DEF Kept
  <2> QED
    BY <1>6, <2>9, <2>10, <2>11
<1> QED
  BY <1>3, <1>7, <1>8

\* So it is kept in every step.
LEMMA LeftInvKept ==
    ASSUME PBInv, PBInv', FailStop, HeardInv, RoleInv, ReplicaInv, AtPrimaryInv, PutsOwned, LeftInv,
           ReplicaInv', FailStopNext
    PROVE  LeftInv'
<1>1. ASSUME NEW o \in Owners, stack'[Left(o)] # <<>> PROVE LeftOK(o)'
  <2>1. CASE \E s \in Servers : Crash(s)
    BY <1>1, <2>1, LeftCrash
  <2>2. CASE \A s \in Servers : ~ Crash(s)
    BY <1>1, <2>2, LeftKept
  <2> QED
    BY <2>1, <2>2
<1> QED
  BY <1>1 DEF LeftInv, LeftOK

-----------------------------------------------------------------------------
(* Who has data.                                                           *)

\* Where there is data stays so, if roles and databases do.
LEMMA DataSame ==
    ASSUME DataInv, NEW q \in up, q # view'.Primary, ~ Partner(q)', NEW k \in Keys, db'[q] = db[q],
           q = view.Primary => view'.Primary = q, Partner(q) => Partner(q)' \/ view'.Primary = q
    PROVE  db'[q][k] = 0
  BY DEF DataInv

\* No step puts data elsewhere.
LEMMA DataKept ==
    ASSUME PBInv, PBInv', FailStop, HeardInv, RoleInv, ReplicaInv, AtPrimaryInv, LeftInv, DataInv, FailStopNext
    PROVE  DataInv'
<1> SUFFICES ASSUME NEW q \in up', q # view'.Primary, ~ Partner(q)', NEW k \in Keys
             PROVE  db'[q][k] = 0
  BY DEF DataInv
<1>0. /\ view \in View /\ newView \in View /\ up \subseteq Servers /\ None \notin Servers
      /\ db \in [Servers -> [Keys -> 0 .. env.puts]] /\ pbview \in [Servers -> View]
  BY HeardViews, ServiceData
<1>1. ASSUME view' = view, up' = up, db' = db, \A p \in up : pbview'[p] = pbview[p] PROVE db'[q][k] = 0
  <2>1. Partner(q) => Partner(q)'
    BY <1>1 DEF Partner
  <2> QED
    BY <1>1, <2>1, DataSame
<1>2. ASSUME NEW t \in Threads, Handle(t) PROVE db'[q][k] = 0
  <2>1. UNCHANGED <<view, up, pbview>> /\ stack[t] # <<>>
    BY <1>2, HandleData, HandleKinds DEF Quiet, vsVars
  <2>2. q \in up /\ q # view.Primary /\ ~ Partner(q)
    BY <2>1 DEF Partner
  <2>3. CASE db' = db
    BY <1>1, <2>1, <2>3
  <2>4. CASE PutStore(t)
    <3>1. Top(t).op = "Put" /\ Written(t)
      BY <2>4 DEF PutStore, Running, Top
    <3>2. Top(t).at = view.Primary
      BY <2>1, <3>1, TopRole DEF AtPrimaryInv
    <3>3. db'[q] = db[q]
      BY <1>0, <2>2, <3>1, <3>2 DEF Written
    <3> QED
      BY <2>2, <3>3 DEF DataInv
  <2>5. CASE ForwardPut(t) \/ MoveDB(t)
    <3>1. Top(t).op \in Copies /\ (Written(t) \/ db' = [db EXCEPT ![Top(t).at] = Top(t).arg])
      BY <2>5 DEF ForwardPut, MoveDB, Running, Top, Copies
    <3>2. Partner(Top(t).at)
      BY <2>1, <3>1, CopyTarget DEF ReplicaInv
    <3>3. db'[q] = db[q]
      BY <1>0, <2>2, <3>1, <3>2 DEF Written
    <3> QED
      BY <2>2, <3>3 DEF DataInv
  <2> QED
    BY <1>2, <2>3, <2>4, <2>5 DEF Handle, GetEnter, GetRead, PutEnter, PutForward, PutForwarded,
                                  RelayCall, RelayReturn, pbVars
<1>3. ASSUME NEW c \in Clerks, StartPut(c) \/ StartGet(c) \/ ClerkStep(c) PROVE db'[q][k] = 0
  <2>1. UNCHANGED <<vsVars, pbVars>>
    BY <1>3, ClerkEffect
  <2> QED
    BY <1>1, <2>1 DEF vsVars, pbVars
<1>4. ASSUME NEW s \in Servers, TickPing(s) PROVE db'[q][k] = 0
  <2> DEFINE n == pbview[s].Viewnum
             vp == view.Primary
  <2>1. UNCHANGED <<up, pbview, db>> /\ s \in up /\ PingAccepted(s, n)
    BY <1>4 DEF TickPing, pbVars
  <2>2. q = view.Primary => view'.Primary = q
    BY <1>4, <2>1, PrimaryStays
  <2>3. ASSUME Partner(q) PROVE Partner(q)' \/ view'.Primary = q
    <3>1. view.Backup = q /\ Backs(newView, vp, q)
      BY <2>1, <2>3 DEF Partner, HeardInv, BackupOK, Backs
    <3>2. n \in Nat /\ VSTypeOK /\ VSInv /\ (vp = s => n # 0)
      <4>1. n \in Nat /\ VSTypeOK /\ VSInv /\ PrimaryInv
        BY <1>0, ServiceData, <2>1 DEF PBInv, ViewsInv, View
      <4>2. Resting(s)
        BY <1>4 DEF TickPing, Resting
      <4> HIDE DEF n
      <4>3. vp = s => n # 0
        BY <2>1, <4>1, <4>2 DEF PrimaryInv, n
      <4> QED
        BY <4>1, <4>3
    <3>3. \/ view' = view
          \/ view' = newView' /\ Backs(newView', vp, q)
      <4>1. vp \in Servers \cup {None} /\ q \in Servers
        BY <1>0, <2>1 DEF View
      <4> HIDE DEF n, vp
      <4> QED
        BY <2>1, <3>1, <3>2, <4>1, PingHeard DEF vp
    <3>4. CASE view' = view
      BY <2>1, <2>3, <3>4 DEF Partner
    <3>5. CASE view' = newView' /\ newView'.Backup = q /\ newView'.Primary \in {vp, None}
      BY <1>0, <2>1, <2>3, <3>5 DEF Partner
    <3> QED
      BY <3>3, <3>4, <3>5 DEF Backs
  <2> QED
    BY <2>1, <2>2, <2>3, DataSame
<1>5. ASSUME NEW s \in Servers, TickView(s) PROVE db'[q][k] = 0
  <2> DEFINE v == TickFrame(s).arg
  <2>1. UNCHANGED <<vsVars, up, db>> /\ pbview' = [pbview EXCEPT ![s] = v] /\ s \in up /\ ~ Resting(s)
    BY <1>5, TickViewStep
  <2>2. ASSUME Partner(q), s = view.Primary PROVE Partner(q)'
    <3>1. view.Backup = q /\ pbview[s].Primary = s /\ pbview[s].Backup = q
      BY <2>1, <2>2 DEF Partner
    <3>2. v.Primary = s
      BY <2>1, <3>1 DEF PBInv, PrimaryInv
    <3>3. Backs(v, s, q)
      BY <2>1, <3>1 DEF RoleInv
    <3>4. v.Backup = q
      BY <2>1, <2>2, <3>2, <3>3 DEF Backs, vsVars
    <3>5. pbview'[s] = v /\ view' = view /\ up' = up
      BY <1>0, <2>1 DEF vsVars
    <3> HIDE DEF v
    <3> QED
      BY <2>2, <3>1, <3>2, <3>4, <3>5 DEF Partner
  <2>3. ASSUME Partner(q), s # view.Primary PROVE Partner(q)'
    <3>1. view.Primary \in up => pbview'[view.Primary] = pbview[view.Primary]
      BY <1>0, <2>1, <2>3
    <3> QED
      BY <2>1, <2>3, <3>1 DEF Partner, vsVars
  <2> QED
    BY <2>1, <2>2, <2>3, DataSame DEF vsVars
<1>6. ASSUME NEW s \in Servers, TickMove(s) \/ TickMoved(s) PROVE db'[q][k] = 0
  BY <1>1, <1>6 DEF TickMove, TickMoved, vsVars
<1>7. ASSUME NEW s \in Servers, Crash(s) PROVE db'[q][k] = 0
  <2>1. /\ s \in up /\ up' = up \ {s} /\ UNCHANGED vsVars
        /\ \A p \in Servers : p # s => pbview'[p] = pbview[p] /\ db'[p] = db[p]
    BY <1>7, CrashFacts
  <2>2. Partner(q) => Partner(q)'
    BY <1>0, <2>1 DEF Partner, vsVars
  <2>3. db'[q] = db[q] /\ q \in up
    BY <1>0, <2>1
  <2> QED
    BY <2>1, <2>2, <2>3, DataSame DEF vsVars
<1>8. ASSUME VSTick \/ TimePasses \/ UNCHANGED vars PROVE db'[q][k] = 0
  BY <1>1, <1>8 DEF VSTick, Tick, TimePasses, Elapse, vars, vsVars, pbVars
<1> QED
  BY <1>2, <1>3, <1>4, <1>5, <1>6, <1>7, <1>8 DEF FailStopNext

\* So HomeInv is kept.
LEMMA HomeKept ==
    ASSUME PBInv, PBInv', FailStop, HeardInv, RoleInv, ReplicaInv, HomeInv, ReplicaInv', FailStopNext, [Next]_vars
    PROVE  HomeInv'
  BY AtPrimaryKept, OwnedKept, LeftInvKept, DataKept DEF HomeInv

-----------------------------------------------------------------------------
(* The theorem.                                                            *)

\* The invariant of a service that at worst crashes.
RepInv == FailStop => HeardInv /\ AckInv /\ RoleInv /\ ReplicaInv /\ HomeInv

\* No view, no call, empty databases.
LEMMA InitReplicas == Init => RepInv
<1> SUFFICES ASSUME Init PROVE RepInv
  OBVIOUS
<1>1. /\ view = NoView /\ newView = NoView /\ ~ update /\ up = Servers
      /\ \A s \in Servers : pbview[s] = NoView
      /\ \A t \in Threads : stack[t] = <<>> /\ Len(stack[t]) = 0
  BY DEF Init, VSInit
<1>2. \A s \in Servers : Resting(s)
  BY <1>1 DEF Resting, Live, Threads, Owners
<1>3. /\ NoView.Viewnum = 0 /\ NoView.Backup = None /\ NoView.Primary = None /\ None \notin Servers
  BY Constants DEF NoView
<1>4. HeardInv /\ AckInv /\ RoleInv
  BY <1>1, <1>2, <1>3 DEF HeardInv, AckInv, NumberOK, BackupOK, RoleInv, RoleOK
<1>5. ReplicaInv
  <2>1. WroteInv /\ CopiesInv
    BY <1>1 DEF WroteInv, CopiesInv, CopyOK
  <2>2. SyncInv
    BY <1>1, <1>3 DEF SyncInv, SyncOK
  <2> QED
    BY <2>1, <2>2 DEF ReplicaInv
<1>6. HomeInv
  <2>1. AtPrimaryInv /\ PutsOwned
    BY <1>1 DEF AtPrimaryInv, PutsOwned
  <2>2. LeftInv
    BY <1>1 DEF LeftInv, Left, Threads
  <2>3. DataInv
    BY DEF Init, DataInv, Empty
  <2> QED
    BY <2>1, <2>2, <2>3 DEF HomeInv
<1> QED
  BY <1>4, <1>5, <1>6 DEF RepInv

\* So the invariant is kept.
LEMMA NextReplicas == PBInv /\ RepInv /\ [Next]_vars => RepInv'
<1> SUFFICES ASSUME PBInv, RepInv, [Next]_vars, FailStop'
             PROVE  HeardInv' /\ AckInv' /\ RoleInv' /\ ReplicaInv' /\ HomeInv'
  BY DEF RepInv
<1>1. FailStop /\ FailStopNext /\ PBInv'
  BY SameEnv, FailStopSteps, NextInv DEF FailStop
<1>2. HeardInv' /\ AckInv' /\ RoleInv'
  BY <1>1, NextHeard DEF RepInv
<1>3. ReplicaInv'
  BY <1>1, NextReplica DEF RepInv, HomeInv
<1> QED
  BY <1>1, <1>2, <1>3, HomeKept DEF RepInv

\* Once the primary has acknowledged its view and no Put is under way at it, it
\* and its backup hold the same database (README:12), if servers at worst crash.
THEOREM ReplicasInSync == Spec => []ReplicasAgree
<1>1. ASSUME PBInv, RepInv PROVE ReplicasAgree
  <2> SUFFICES ASSUME FailStop, InSync PROVE db[view.Primary] = db[view.Backup]
    BY DEF ReplicasAgree
  <2> DEFINE p == view.Primary
             b == view.Backup
  <2>1. update /\ p \in up /\ b \in up /\ pbview[p] = view /\ ~ locked[p] /\ p \in Servers /\ b \in Servers
    BY <1>1, ServiceData DEF InSync
  <2>2. ~ TransferDue(p)
    BY <1>1, <2>1 DEF RepInv, AckInv, TransferDue
  <2>3. ASSUME NEW k \in Keys PROVE ~ IsPending(p, k)
    BY <1>1, <2>1, CriticalLocked DEF IsPending, Pending
  <2>4. SyncOK(p)
    BY <1>1, <2>1 DEF RepInv, ReplicaInv, SyncInv
  <2>5. \A k \in Keys : db[p][k] = db[b][k]
    BY <2>1, <2>2, <2>3, <2>4 DEF SyncOK
  <2>6. db[p] \in [Keys -> 0 .. env.puts] /\ db[b] \in [Keys -> 0 .. env.puts]
    BY <1>1, <2>1, ServiceData
  <2> QED
    BY <2>5, <2>6
<1>2. Spec => []RepInv
  BY SystemInv, InitReplicas, NextReplicas, PTL DEF Spec
<1> QED
  BY <1>1, <1>2, SystemInv, PTL

-----------------------------------------------------------------------------
(* What clerks see.                                                        *)

Nothing == [does |-> "nothing"]
WriteOf(k, v) == [does |-> "write", key |-> k, val |-> v]
ReadOf(k, n, a) == [does |-> "read", key |-> k, since |-> n, answer |-> a]

\* A clerk's operation begins, ...
StartsWrite(c) ==
    /\ Doing(c) = Nothing /\ puts' = puts + 1 /\ Len(begun') = puts'
    /\ \E k \in Keys :
          /\ Doing(c)' = WriteOf(k, puts')
          /\ begun' = Append(begun, [key |-> k, after |-> acked])
    /\ UNCHANGED <<acked, floor>>
StartsRead(c) ==
    /\ Doing(c) = Nothing
    /\ \E k \in Keys : Doing(c)' = ReadOf(k, floor[k], 0)
    /\ UNCHANGED clerkVars

\* ... a Get has its answer, ...
GetsAnswer(c) ==
    LET t == Live(c)
        k == Top(t).arg[1]
        n == Top(t).arg[2]
    IN  /\ stack[t] # <<>> /\ Len(stack[t]) = 2 /\ stack[t][1].op = "ClerkGet" /\ stack[t][1].arg = Top(t).arg
        /\ GetRead(t) /\ Top(t).op = "Get" /\ Read(t).err = "OK"
        /\ Doing(c) = ReadOf(k, n, 0)
        /\ Doing(c)' = ReadOf(k, n, Read(t).val)
        /\ UNCHANGED clerkVars

\* ... or an operation ends.
Ends(c, op) ==
    /\ stack[Live(c)] # <<>> /\ Len(stack[Live(c)]) = 1
    /\ LET f == stack[Live(c)][1] IN f.op = op /\ f.pc = "ret" /\ f.res.err # "fail"
    /\ Doing(c)' = Nothing
EndsWrite(c) ==
    /\ Ends(c, "ClerkPut")
    /\ LET f == stack[Live(c)][1]
       IN  /\ Doing(c) = WriteOf(f.arg[1], f.arg[2])
           /\ acked' = acked \cup {f.arg[2]} /\ Known(f.arg[1], f.arg[2])
    /\ UNCHANGED <<puts, begun>>
EndsRead(c) ==
    /\ Ends(c, "ClerkGet")
    /\ LET f == stack[Live(c)][1]
       IN  /\ f.res.err = "OK"
           /\ Doing(c) = ReadOf(f.arg[1], f.arg[2], f.res.val)
           /\ Known(f.arg[1], f.res.val)
    /\ UNCHANGED <<puts, begun, acked>>

ClerkSees(c) == StartsWrite(c) \/ StartsRead(c) \/ GetsAnswer(c) \/ EndsWrite(c) \/ EndsRead(c)

\* The other clerks' threads are their own.
LEMMA OtherClerks ==
    ASSUME NEW c \in Clerks, NEW d \in Clerks, d # c, Others(Live(c))
    PROVE  Doing(d)' = Doing(d)
<1>1. Live(d) \in Threads /\ Live(d) # Live(c)
  BY DEF Live, Threads, Owners
<1>2. stack'[Live(d)] = stack[Live(d)]
  BY <1>1 DEF Others
<1> QED
  BY <1>2 DEF Doing

\* A clerk's Put or Get begins.
LEMMA StartsSeen ==
    ASSUME PBInv, NEW c \in Clerks, StartPut(c) \/ StartGet(c)
    PROVE  (StartsWrite(c) \/ StartsRead(c)) /\ \A d \in Clerks : d # c => Doing(d)' = Doing(d)
<1> DEFINE l == Live(c)
<1>1. l \in Threads /\ stack[l] = <<>> /\ stack \in [Threads -> Seq(Frames)]
  BY ServiceData DEF StartPut, StartGet, Live, Threads, Owners
<1>2. Doing(c) = Nothing
  BY <1>1 DEF Doing, Nothing
<1>3. \A op, arg : stack' = [stack EXCEPT ![l] = << Frame(c, op, arg) >>] =>
         /\ stack'[l] # <<>> /\ stack'[l][1].op = op /\ stack'[l][1].arg = arg /\ stack'[l][1].pc = "start"
         /\ Others(l)
  BY <1>1 DEF Frame, Others
<1> HIDE DEF l
<1>4. CASE StartPut(c)
  <2>1. PICK k \in Keys : /\ begun' = Append(begun, [key |-> k, after |-> acked])
                          /\ stack' = [stack EXCEPT ![l] = << Frame(c, "ClerkPut", <<k, puts'>>) >>]
                          /\ puts' = puts + 1 /\ Len(begun') = puts'
    BY <1>4, StartPutBegun DEF l
  <2>2. stack'[l] # <<>> /\ stack'[l][1].op = "ClerkPut" /\ stack'[l][1].arg = <<k, puts'>> /\ Others(l)
    BY <1>3, <2>1
  <2>3. Doing(c)' = WriteOf(k, puts')
    BY <2>2 DEF Doing, WriteOf, l
  <2>4. StartsWrite(c)
    BY <1>2, <1>4, <2>1, <2>3 DEF StartsWrite, StartPut
  <2> QED
    BY <2>2, <2>4, OtherClerks DEF l
<1>5. CASE StartGet(c)
  <2>1. PICK k \in Keys : stack' = [stack EXCEPT ![l] = << Frame(c, "ClerkGet", <<k, floor[k]>>) >>]
    BY <1>5 DEF StartGet, l
  <2>2. /\ stack'[l] # <<>> /\ stack'[l][1].op = "ClerkGet" /\ stack'[l][1].arg = <<k, floor[k]>>
        /\ stack'[l][1].pc = "start" /\ Others(l)
    BY <1>3, <2>1
  <2>3. Doing(c)' = ReadOf(k, floor[k], 0)
    BY <2>2 DEF Doing, ReadOf, l
  <2>4. StartsRead(c)
    BY <1>2, <1>5, <2>3 DEF StartsRead, StartGet
  <2> QED
    BY <2>2, <2>4, OtherClerks DEF l
<1> QED
  BY <1>4, <1>5

\* A Get has its answer.
LEMMA AnswerSeen ==
    ASSUME PBInv, NEW c \in Clerks, Served(c)
    PROVE  GetsAnswer(c) /\ \A d \in Clerks : d # c => Doing(d)' = Doing(d)
<1> DEFINE t == Live(c)
           f == stack[t][1]
           g == stack'[t][1]
<1>1. /\ t \in Threads /\ stack[t] # <<>> /\ Len(stack[t]) = 2 /\ f.op = "ClerkGet"
      /\ GetRead(t) /\ Top(t).op = "Get" /\ Read(t).err = "OK"
      /\ stack'[t] # <<>> /\ g = Answered(t, Read(t)) /\ stack[t][2 - 1] = f
  BY DEF Served, Live, Threads, Owners
<1>2. LinksOK(stack[t]) /\ Top(t) = stack[t][2] /\ 1 \in 1 .. 2 - 1 /\ 1 + 1 = 2 /\ 2 - 1 = 1
  BY <1>1, TopRole
<1>3. f.pc = "wait" /\ Top(t).arg = f.arg
  <2>1. stack[t][1].pc = "wait" /\ Calls(stack[t][1], stack[t][1 + 1].op, stack[t][1 + 1].arg)
    BY <1>1, <1>2 DEF LinksOK
  <2> QED
    BY <1>1, <1>2, <2>1 DEF Calls
<1>4. /\ g.op = "ClerkGet" /\ g.pc = "ret" /\ g.arg = f.arg /\ g.res = Read(t)
  BY <1>1, <1>2 DEF Answered
<1>5. UNCHANGED clerkVars /\ Others(t)
  <2>1. Return(t, Read(t)) /\ UNCHANGED clerkVars
    BY <1>1 DEF GetRead, Read
  <2> QED
    BY <1>1, <2>1 DEF Return, Others
<1> HIDE DEF f, g, t
<1>6. Doing(c) = ReadOf(f.arg[1], f.arg[2], 0)
  BY <1>1, <1>3 DEF Doing, ReadOf, f, t
<1>7. Doing(c)' = ReadOf(f.arg[1], f.arg[2], Read(t).val)
  BY <1>1, <1>4 DEF Doing, ReadOf, g, t
<1>8. GetsAnswer(c)
  BY <1>1, <1>3, <1>5, <1>6, <1>7 DEF GetsAnswer, t, f
<1> QED
  BY <1>5, <1>8, OtherClerks DEF t

\* It ends.
LEMMA EndsSeen ==
    ASSUME PBInv, NEW c \in Clerks, Finishes(c)
    PROVE  (EndsWrite(c) \/ EndsRead(c)) /\ \A d \in Clerks : d # c => Doing(d)' = Doing(d)
<1> DEFINE l == Live(c)
           f == stack[l][1]
<1>1. stack[l] # <<>> /\ Top(l).op \in {"ClerkPut", "ClerkGet"} /\ Top(l).pc = "ret"
  BY DEF Finishes, ClerkPutReturn, ClerkGetReturn, Running, Top
<1>2. l \in Threads /\ Len(stack[l]) = 1
  BY <1>1, ClerkFrame
<1>3. Top(l) = f
  BY <1>1, <1>2, TopRole
<1>4. Return(l, OK)
  BY DEF Finishes, ClerkPutReturn, ClerkGetReturn
<1>5. stack'[l] = <<>> /\ Others(l)
  BY <1>1, <1>2, <1>4, Effects, Constants DEF Ended
<1>6. Doing(c)' = Nothing
  BY <1>5 DEF Doing, Nothing
<1>7. CASE f.op = "ClerkPut"
  <2>1. /\ ClerkPutReturn(c) /\ f.res.err # "fail"
    BY <1>3, <1>7 DEF Finishes
  <2>2. acked' = acked \cup {f.arg[2]} /\ Known(f.arg[1], f.arg[2]) /\ UNCHANGED <<puts, begun>>
    BY <1>3, <2>1 DEF ClerkPutReturn
  <2>3. Doing(c) = WriteOf(f.arg[1], f.arg[2])
    BY <1>1, <1>7 DEF Doing, WriteOf
  <2>4. Ends(c, "ClerkPut")
    BY <1>1, <1>2, <1>3, <1>6, <1>7, <2>1 DEF Ends
  <2> QED
    BY <1>5, <2>2, <2>3, <2>4, OtherClerks DEF EndsWrite
<1>8. CASE f.op = "ClerkGet"
  <2>1. ClerkGetReturn(c) /\ f.res.err = "OK"
    BY <1>3, <1>8 DEF Finishes
  <2>2. Known(f.arg[1], f.res.val) /\ UNCHANGED <<puts, begun, acked>>
    BY <1>3, <2>1 DEF ClerkGetReturn
  <2>3. Doing(c) = ReadOf(f.arg[1], f.arg[2], f.res.val)
    BY <1>1, <1>3, <1>8, <2>1 DEF Doing, ReadOf
  <2>4. Ends(c, "ClerkGet")
    BY <1>1, <1>2, <1>3, <1>6, <1>8, <2>1 DEF Ends
  <2> QED
    BY <1>5, <2>1, <2>2, <2>3, <2>4, OtherClerks DEF EndsRead
<1> QED
  BY <1>1, <1>3, <1>7, <1>8

\* Nothing else is seen.
LEMMA Seen ==
    ASSUME PBInv, PBInv', [Next]_vars
    PROVE  \/ /\ UNCHANGED <<puts, begun, acked, floor>>
              /\ \A c \in Clerks : Doing(c)' = Doing(c)
           \/ \E c \in Clerks : ClerkSees(c) /\ \A d \in Clerks : d # c => Doing(d)' = Doing(d)
<1>1. CASE \E c \in Clerks : StartPut(c) \/ StartGet(c) \/ Served(c) \/ Finishes(c)
  BY <1>1, StartsSeen, AnswerSeen, EndsSeen DEF ClerkSees
<1>2. CASE \A c \in Clerks : ~ (StartPut(c) \/ StartGet(c) \/ Served(c) \/ Finishes(c))
  <2>1. \A c \in Clerks : Doing(c)' = Doing(c)
    BY <1>2, DoingStep
  <2>2. UNCHANGED <<puts, begun, acked, floor>>
    <3>1. ASSUME NEW t \in Threads, Handle(t) PROVE UNCHANGED <<puts, begun, acked, floor>>
      BY <3>1, HandleData DEF Quiet
    <3>2. ASSUME NEW c \in Clerks, ClerkStep(c) PROVE UNCHANGED <<puts, begun, acked, floor>>
      BY <1>2, <3>2 DEF ClerkStep, ClerkCall, ClerkPutReturn, ClerkGetReturn, Finishes, Running, Top, clerkVars
    <3>3. ASSUME NEW s \in Servers, TickPing(s) \/ TickPingFails(s) \/ TickStep(s) \/ Crash(s) \/ Restart(s)
          PROVE  UNCHANGED <<puts, begun, acked, floor>>
      BY <3>3 DEF TickPing, TickPingFails, TickStep, TickView, TickMove, TickMoved, Crash, Restart, clerkVars
    <3>4. ASSUME VSTick \/ TimePasses \/ UNCHANGED vars PROVE UNCHANGED <<puts, begun, acked, floor>>
      BY <3>4 DEF VSTick, TimePasses, vars, clerkVars
    <3> QED
      BY <1>2, <3>1, <3>2, <3>3, <3>4 DEF Next
  <2> QED
    BY <2>1, <2>2
<1> QED
  BY <1>1, <1>2

\* The values that clerks are writing are theirs, and no Put of them has returned.
OwnInv ==
    \A c \in Clerks : Doing(c).does = "write" =>
        /\ Doing(c).val \in (1 .. puts) \ acked
        /\ \A d \in Clerks : d # c /\ Doing(d).does = "write" => Doing(d).val # Doing(c).val

\* A Put has a number of its own, and returns once.
LEMMA OwnKept ==
    ASSUME PBInv, PBInv', [Next]_vars, OwnInv
    PROVE  OwnInv'
<1>1. puts \in Nat /\ acked \subseteq 1 .. puts /\ 1 .. puts \subseteq 1 .. puts + 1 /\ puts + 1 \notin 1 .. puts
      /\ puts + 1 \in 1 .. puts + 1
  <2>1. puts \in Nat /\ acked \subseteq 1 .. puts
    BY ServiceData DEF PBInv, DataOK
  <2> QED
    BY <2>1
<1>2. /\ Nothing.does = "nothing"
      /\ \A k, v : WriteOf(k, v).does = "write" /\ WriteOf(k, v).val = v
      /\ \A k, n, a : ReadOf(k, n, a).does = "read"
  BY DEF Nothing, WriteOf, ReadOf
<1>3. CASE UNCHANGED <<puts, begun, acked, floor>> /\ \A c \in Clerks : Doing(c)' = Doing(c)
  BY <1>3 DEF OwnInv
<1>4. ASSUME NEW c \in Clerks, ClerkSees(c), \A d \in Clerks : d # c => Doing(d)' = Doing(d)
      PROVE  OwnInv'
  <2>1. CASE StartsWrite(c)
    <3>1. Doing(c).does = "nothing" /\ puts' = puts + 1 /\ acked' = acked
      BY <1>2, <2>1 DEF StartsWrite
    <3>2. (Doing(c).does)' = "write" /\ (Doing(c).val)' = puts + 1
      BY <1>2, <2>1, <3>1 DEF StartsWrite
    <3> QED
      BY <1>1, <1>4, <3>1, <3>2 DEF OwnInv
  <2>2. CASE StartsRead(c) \/ GetsAnswer(c)
    <3>1. (Doing(c).does)' # "write" /\ UNCHANGED <<puts, acked>>
      BY <1>2, <2>2 DEF StartsRead, GetsAnswer, clerkVars
    <3> QED
      BY <1>4, <3>1 DEF OwnInv
  <2>3. CASE EndsWrite(c)
    <3> DEFINE v == stack[Live(c)][1].arg[2]
    <3>1. (Doing(c).does)' # "write" /\ puts' = puts /\ acked' = acked \cup {v}
      BY <1>2, <2>3 DEF EndsWrite, Ends
    <3>2. Doing(c).does = "write" /\ Doing(c).val = v
      BY <1>2, <2>3 DEF EndsWrite
    <3> HIDE DEF v
    <3> QED
      BY <1>4, <3>1, <3>2 DEF OwnInv
  <2>4. CASE EndsRead(c)
    <3>1. (Doing(c).does)' # "write" /\ UNCHANGED <<puts, acked>>
      BY <1>2, <2>4 DEF EndsRead, Ends
    <3> QED
      BY <1>4, <3>1 DEF OwnInv
  <2> QED
    BY <1>4, <2>1, <2>2, <2>3, <2>4 DEF ClerkSees
<1> QED
  BY <1>3, <1>4, Seen

-----------------------------------------------------------------------------
(* Values belong to keys.                                                  *)

\* Value v was Put at k, or is none.
ValueOf(k, v) == v = 0 \/ (v \in 1 .. puts /\ begun[v].key = k)

\* Frames carry values that belong to their keys, and a Get that has an answer
\* has a value.
FrameValues(f) ==
    /\ f.op \in PutOps => ValueOf(f.arg[1], f.arg[2]) /\ f.arg[2] # 0
    /\ f.op \in GetOps => ValueOf(f.arg[1], f.arg[2])
    /\ f.op = "MoveDB" => \A k \in Keys : ValueOf(k, f.arg[k])
    /\ f.op = "ClerkGet" /\ f.pc = "ret" /\ f.res.err = "OK" =>
          ValueOf(f.arg[1], f.res.val) /\ f.res.val # 0

\* So do servers and clerks; and a Put knows only of earlier ones that have returned.
KeyInv ==
    /\ \A t \in Threads : \A i \in 1 .. Len(stack[t]) : FrameValues(stack[t][i])
    /\ \A s \in Servers, k \in Keys : ValueOf(k, db[s][k])
    /\ \A k \in Keys : ValueOf(k, floor[k])
    /\ \A v \in 1 .. puts : begun[v].after \subseteq acked /\ v \notin begun[v].after

\* Puts that have begun stay what they are.
LEMMA BegunKept ==
    ASSUME PBInv, PBInv', [Next]_vars
    PROVE  /\ puts \in Nat /\ puts' \in Nat /\ puts <= puts' /\ 1 .. puts \subseteq 1 .. puts'
           /\ \A v \in 1 .. puts : begun'[v] = begun[v]
           /\ acked \subseteq acked' /\ acked \subseteq 1 .. puts
           /\ \A v \in 1 .. puts' : v \in 1 .. puts \/ (begun'[v].after = acked /\ v \notin 1 .. puts)
<1>1. puts \in Nat /\ acked \subseteq 1 .. puts
  BY ServiceData DEF PBInv, DataOK
<1>2. ASSUME NEW c \in Clerks, StartPut(c)
      PROVE  /\ puts' = puts + 1 /\ acked' = acked /\ \A v \in 1 .. puts : begun'[v] = begun[v]
             /\ begun'[puts'].after = acked /\ puts' \notin 1 .. puts
  <2>1. PICK k \in Keys : begun'[puts'] = [key |-> k, after |-> acked]
    BY <1>2, StartPutBegun
  <2>2. begun'[puts'].after = acked
    BY <2>1
  <2> QED
    BY <1>2, <2>2, StartPutBegun DEF StartPut
<1>3. CASE \E c \in Clerks : StartPut(c)
  <2>1. /\ puts' = puts + 1 /\ acked' = acked /\ \A v \in 1 .. puts : begun'[v] = begun[v]
        /\ begun'[puts'].after = acked /\ puts' \notin 1 .. puts
    BY <1>2, <1>3
  <2>2. \A v \in 1 .. puts + 1 : v \in 1 .. puts \/ v = puts + 1
    BY <1>1
  <2>3. puts + 1 \in Nat /\ puts <= puts + 1 /\ 1 .. puts \subseteq 1 .. puts + 1
    BY <1>1
  <2>4. \A v \in 1 .. puts' : v \in 1 .. puts \/ (begun'[v].after = acked /\ v \notin 1 .. puts)
    BY <2>1, <2>2
  <2> QED
    BY <1>1, <2>1, <2>3, <2>4
<1>4. CASE puts' = puts /\ begun' = begun /\ acked \subseteq acked'
  <2>1. puts <= puts /\ 1 .. puts \subseteq 1 .. puts
    BY <1>1
  <2> QED
    BY <1>1, <1>4, <2>1
<1>5. CASE \A c \in Clerks : ~ StartPut(c)
  <2>1. \A t \in Threads : Handle(t) => UNCHANGED <<puts, begun, acked>>
    BY HandleData DEF Quiet
  <2>2. ASSUME NEW c \in Clerks, StartGet(c) \/ ClerkStep(c)
        PROVE  puts' = puts /\ begun' = begun /\ acked \subseteq acked'
    BY <2>2 DEF StartGet, ClerkStep, ClerkCall, ClerkPutReturn, ClerkGetReturn, clerkVars
  <2>3. ASSUME NEW s \in Servers, TickPing(s) \/ TickPingFails(s) \/ TickStep(s) \/ Crash(s) \/ Restart(s)
        PROVE  UNCHANGED <<puts, begun, acked>>
    BY <2>3 DEF TickPing, TickPingFails, TickStep, TickView, TickMove, TickMoved, Crash, Restart, clerkVars
  <2>4. ASSUME VSTick \/ TimePasses \/ UNCHANGED vars PROVE UNCHANGED <<puts, begun, acked>>
    BY <2>4 DEF VSTick, TimePasses, vars, clerkVars
  <2> QED
    BY <1>4, <1>5, <2>1, <2>2, <2>3, <2>4 DEF Next
<1> QED
  BY <1>3, <1>5

\* So values keep their keys.
LEMMA ValuesKept ==
    ASSUME PBInv, PBInv', [Next]_vars, NEW k, NEW v, ValueOf(k, v)
    PROVE  ValueOf(k, v)'
  BY BegunKept DEF ValueOf

\* A frame that goes on, or is answered, carries what it carried; a new one what
\* is there.
LEMMA FramesCarry ==
    ASSUME PBInv, PBInv', [Next]_vars, KeyInv, NEW t \in Threads, NEW i \in 1 .. Len(stack'[t])
    PROVE  LET g == stack'[t][i] IN
           \/ FrameValues(g)
           \/ g.op = "ClerkPut" /\ g.arg[2] \in 1 .. puts' /\ begun'[g.arg[2]].key = g.arg[1]
<1> DEFINE g == stack'[t][i]
<1>1. \A u \in Threads : \A j \in 1 .. Len(stack[u]) : FrameValues(stack[u][j])
  BY DEF KeyInv
<1>2. CASE HasSource(t, g)
  <2>1. PICK u \in Threads : \E j \in 1 .. Len(stack[u]) :
           Continues(g, stack[u][j]) \/ PassedOn(g, stack[u][j])
    BY <1>2 DEF HasSource
  <2>2. PICK j \in 1 .. Len(stack[u]) : Continues(g, stack[u][j]) \/ PassedOn(g, stack[u][j])
    BY <2>1
  <2> DEFINE f == stack[u][j]
  <2>3. FrameValues(f)
    BY <1>1
  <2> HIDE DEF f, g
  <2>4. CASE Continues(g, f)
    <3>1. g.op = f.op /\ g.arg = f.arg /\ (g.pc = "ret" => g = f \/ g.res.err # "OK")
      BY <2>4 DEF Continues, Fail
    <3> QED
      BY <2>3, <3>1 DEF FrameValues, g
  <2>5. CASE PassedOn(g, f)
    BY <2>3, <2>5 DEF PassedOn, FrameValues, PutOps, GetOps, g
  <2> QED
    BY <2>2, <2>4, <2>5 DEF f
<1>3. CASE IsAnswer(t, g)
  <2> DEFINE n == Len(stack[t])
             h == stack[t][n - 1]
  <2>1. PICK r \in Res : AnswersWith(t, r) /\ g = Answered(t, r)
    BY <1>3 DEF IsAnswer
  <2>2. /\ stack[t] # <<>> /\ n - 1 \in 1 .. n /\ n # 1 /\ Top(t) = stack[t][n] /\ n \in 1 .. n /\ n \in Nat \ {0}
        /\ LinksOK(stack[t])
    BY <1>3, <2>1, TopRole DEF IsAnswer
  <2>3. FrameValues(h) /\ FrameValues(Top(t))
    BY <1>1, <2>2
  <2>4. g.op = h.op /\ g.arg = h.arg /\ g.pc = "ret" /\ g.res = r
    BY <2>1 DEF Answered
  <2>5. Calls(h, Top(t).op, Top(t).arg)
    <3>1. n - 1 \in 1 .. n - 1 /\ (n - 1) + 1 = n
      BY <2>2
    <3> QED
      BY <2>2, <3>1 DEF LinksOK
  <2>6. ASSUME h.op = "ClerkGet", r.err = "OK" PROVE ValueOf(h.arg[1], r.val) /\ r.val # 0
    <3>1. Top(t).op = "Get" /\ Top(t).arg = h.arg
      BY <2>5, <2>6 DEF Calls
    <3>2. r = Read(t)
      BY <2>1, <2>6, <3>1 DEF AnswersWith, WrongServer, Copies
    <3>3. Top(t).at \in Servers /\ Top(t).arg[1] \in Keys
      BY <2>2, <3>1, TopFacts DEF GetOps
    <3>4. r.val = db[Top(t).at][Top(t).arg[1]] /\ r.val # 0
      BY <2>6, <3>2 DEF Read, NoKey
    <3> QED
      BY <3>1, <3>3, <3>4 DEF KeyInv
  <2> HIDE DEF g, h
  <2> QED
    BY <2>3, <2>4, <2>6 DEF FrameValues, g
<1>4. CASE IsStart(t, g)
  <2>1. PICK c \in Clerks, k \in Keys :
          /\ t = Live(c)
          /\ \/ StartPut(c) /\ g = Frame(c, "ClerkPut", <<k, puts'>>)
             \/ StartGet(c) /\ g = Frame(c, "ClerkGet", <<k, floor[k]>>)
    BY <1>4 DEF IsStart
  <2>2. CASE StartPut(c)
    <3>1. PICK m \in Keys : /\ begun'[puts'] = [key |-> m, after |-> acked]
                            /\ stack' = [stack EXCEPT ![t] = << Frame(c, "ClerkPut", <<m, puts'>>) >>]
      BY <2>1, <2>2, StartPutBegun
    <3>2. stack'[t] = << Frame(c, "ClerkPut", <<m, puts'>>) >>
      BY <3>1, ServiceData
    <3>3. g = Frame(c, "ClerkPut", <<m, puts'>>)
      BY <3>2
    <3>4. puts' \in 1 .. puts'
      <4>1. puts' = puts + 1 /\ puts \in Nat
        BY <2>2, StartPutBegun, ServiceData
      <4> QED
        BY <4>1
    <3> QED
      BY <3>1, <3>3, <3>4 DEF Frame
  <2>3. CASE g = Frame(c, "ClerkGet", <<k, floor[k]>>)
    <3>1. g.op = "ClerkGet" /\ g.arg = <<k, floor[k]>> /\ g.pc = "start"
      BY <2>3 DEF Frame
    <3>2. ValueOf(k, floor[k])
      BY DEF KeyInv
    <3> HIDE DEF g
    <3> QED
      BY <3>1, <3>2 DEF FrameValues, PutOps, g
  <2> QED
    BY <2>1, <2>2, <2>3
<1>5. CASE IsTick(t, g)
  <2>1. ASSUME NEW s \in Servers, g = Frame(pbview[s].Backup, "MoveDB", db[s]) PROVE FrameValues(g)
    <3>1. g.op = "MoveDB" /\ g.arg = db[s]
      BY <2>1 DEF Frame
    <3> HIDE DEF g
    <3> QED
      BY <3>1 DEF FrameValues, KeyInv, PutOps, GetOps
  <2>2. ASSUME NEW s, g = Frame(s, "Tick", view') PROVE FrameValues(g)
    <3>1. g.op = "Tick"
      BY <2>2 DEF Frame
    <3> HIDE DEF g
    <3> QED
      BY <3>1 DEF FrameValues, PutOps, GetOps
  <2> QED
    BY <1>5, <2>1, <2>2 DEF IsTick
<1> QED
  BY <1>2, <1>3, <1>4, <1>5, FrameFlow

\* What a step may change of a key.
LEMMA DataStep ==
    ASSUME PBInv, [Next]_vars, NEW s \in Servers, NEW k \in Keys
    PROVE  \/ db'[s][k] \in {db[s][k], 0}
           \/ \E t \in Threads :
                 /\ stack[t] # <<>>
                 /\ \/ Top(t).op \in PutOps /\ Top(t).arg[1] = k /\ db'[s][k] = Top(t).arg[2]
                    \/ Top(t).op = "MoveDB" /\ db'[s][k] = Top(t).arg[k]
<1>1. db \in [Servers -> [Keys -> 0 .. env.puts]]
  BY ServiceData
<1>2. ASSUME NEW t \in Threads, Handle(t)
      PROVE  \/ db'[s][k] = db[s][k]
             \/ /\ stack[t] # <<>>
                /\ \/ Top(t).op \in PutOps /\ Top(t).arg[1] = k /\ db'[s][k] = Top(t).arg[2]
                   \/ Top(t).op = "MoveDB" /\ db'[s][k] = Top(t).arg[k]
  <2> DEFINE a == Top(t).at
             f == Top(t)
  <2>1. stack[t] # <<>>
    BY <1>2, HandleKinds
  <2>2. \/ db' = db
        \/ f.op \in PutOps /\ db' = [db EXCEPT ![a][f.arg[1]] = f.arg[2]]
        \/ f.op = "MoveDB" /\ db' = [db EXCEPT ![a] = f.arg]
    BY <1>2 DEF Handle, GetEnter, GetRead, PutEnter, PutStore, PutForward, PutForwarded, RelayCall,
                RelayReturn, ForwardPut, MoveDB, Running, Top, PutOps, pbVars, Written
  <2> HIDE DEF a, f
  <2>3. CASE f.op \in PutOps /\ db' = [db EXCEPT ![a][f.arg[1]] = f.arg[2]]
    <3>1. db'[s][k] = db[s][k] \/ (f.arg[1] = k /\ db'[s][k] = f.arg[2])
      BY <1>1, <2>3
    <3> QED
      BY <2>1, <2>3, <3>1 DEF f
  <2>4. CASE f.op = "MoveDB" /\ db' = [db EXCEPT ![a] = f.arg]
    <3>1. db'[s][k] = db[s][k] \/ db'[s][k] = f.arg[k]
      BY <1>1, <2>4
    <3> QED
      BY <2>1, <2>4, <3>1 DEF f
  <2> QED
    BY <2>2, <2>3, <2>4
<1>3. ASSUME NEW q \in Servers, Crash(q) PROVE db'[s][k] \in {db[s][k], 0}
  BY <1>1, <1>3 DEF Crash, Empty
<1>4. ASSUME NEW c \in Clerks, StartPut(c) \/ StartGet(c) \/ ClerkStep(c) PROVE db' = db
  BY <1>4 DEF StartPut, StartGet, ClerkStep, ClerkCall, ClerkPutReturn, ClerkGetReturn, pbVars
<1>5. ASSUME NEW q \in Servers, TickPing(q) \/ TickPingFails(q) \/ TickStep(q) \/ Restart(q) PROVE db' = db
  BY <1>5 DEF TickPing, TickPingFails, TickStep, TickView, TickMove, TickMoved, Restart, pbVars
<1>6. VSTick \/ TimePasses \/ UNCHANGED vars => db' = db
  BY DEF VSTick, TimePasses, vars, pbVars
<1> QED
  BY <1>2, <1>3, <1>4, <1>5, <1>6 DEF Next

\* Servers have what Puts and transfers bring.
LEMMA DataCarry ==
    ASSUME PBInv, KeyInv, [Next]_vars, NEW s \in Servers, NEW k \in Keys
    PROVE  ValueOf(k, db'[s][k])
<1>1. ValueOf(k, db[s][k]) /\ ValueOf(k, 0)
  BY DEF KeyInv, ValueOf
<1>2. ASSUME NEW t \in Threads, stack[t] # <<>> PROVE FrameValues(Top(t))
  <2>1. Top(t) = stack[t][Len(stack[t])] /\ Len(stack[t]) \in 1 .. Len(stack[t])
    BY <1>2, TopRole
  <2> QED
    BY <2>1 DEF KeyInv
<1> QED
  BY <1>1, <1>2, DataStep DEF FrameValues

\* A clerk learns what it wrote, or was answered.
LEMMA FloorCarry ==
    ASSUME PBInv, PBInv', KeyInv, [Next]_vars, NEW k \in Keys
    PROVE  ValueOf(k, floor'[k])
<1>1. floor \in [Keys -> 0 .. env.puts] /\ ValueOf(k, floor[k])
  BY DEF PBInv, DataOK, KeyInv
<1>2. ASSUME NEW j, NEW v, ValueOf(j, v), Known(j, v) PROVE ValueOf(k, floor'[k])
  <2>1. floor'[k] = floor[k] \/ (j = k /\ floor'[k] = v)
    BY <1>1, <1>2 DEF Known
  <2> QED
    BY <1>1, <1>2, <2>1
<1>3. CASE floor' = floor
  BY <1>1, <1>3
<1>4. ASSUME NEW c \in Clerks, EndsWrite(c) \/ EndsRead(c) PROVE ValueOf(k, floor'[k])
  <2> DEFINE f == stack[Live(c)][1]
  <2>1. Live(c) \in Threads /\ 1 \in 1 .. Len(stack[Live(c)])
    BY <1>4 DEF EndsWrite, EndsRead, Ends, Live, Threads, Owners
  <2>2. FrameValues(f)
    BY <2>1 DEF KeyInv
  <2>3. CASE EndsWrite(c)
    <3>1. f.op = "ClerkPut" /\ Known(f.arg[1], f.arg[2])
      BY <2>3 DEF EndsWrite, Ends
    <3> HIDE DEF f
    <3>2. ValueOf(f.arg[1], f.arg[2])
      BY <2>2, <3>1 DEF FrameValues, PutOps
    <3> QED
      BY <1>2, <3>1, <3>2
  <2>4. CASE EndsRead(c)
    <3>1. f.op = "ClerkGet" /\ f.pc = "ret" /\ f.res.err = "OK" /\ Known(f.arg[1], f.res.val)
      BY <2>4 DEF EndsRead, Ends
    <3> HIDE DEF f
    <3>2. ValueOf(f.arg[1], f.res.val)
      BY <2>2, <3>1 DEF FrameValues
    <3> QED
      BY <1>2, <3>1, <3>2
  <2> QED
    BY <1>4, <2>3, <2>4
<1>5. ASSUME NEW c \in Clerks, ClerkSees(c) PROVE ValueOf(k, floor'[k])
  BY <1>3, <1>4, <1>5 DEF ClerkSees, StartsWrite, StartsRead, GetsAnswer, clerkVars
<1> QED
  BY <1>3, <1>5, Seen

\* So values keep belonging to their keys.
LEMMA KeysKept ==
    ASSUME PBInv, PBInv', KeyInv, [Next]_vars
    PROVE  KeyInv'
<1>1. ASSUME NEW k, NEW v, ValueOf(k, v) PROVE v = 0 \/ (v \in 1 .. puts' /\ begun'[v].key = k)
  BY <1>1, BegunKept DEF ValueOf
<1>2. ASSUME NEW t \in Threads, NEW i \in 1 .. Len(stack'[t])
      PROVE  FrameValues(stack[t][i])'
  <2> DEFINE g == stack'[t][i]
  <2>1. FrameValues(g) \/ (g.op = "ClerkPut" /\ g.arg[2] \in 1 .. puts' /\ begun'[g.arg[2]].key = g.arg[1])
    BY <1>2, FramesCarry
  <2>2. CASE FrameValues(g)
    <3> SUFFICES /\ g.op \in PutOps => (g.arg[2] = 0 \/ (g.arg[2] \in 1 .. puts' /\ begun'[g.arg[2]].key = g.arg[1])) /\ g.arg[2] # 0
                 /\ g.op \in GetOps => (g.arg[2] = 0 \/ (g.arg[2] \in 1 .. puts' /\ begun'[g.arg[2]].key = g.arg[1]))
                 /\ g.op = "MoveDB" => \A k \in Keys : g.arg[k] = 0 \/ (g.arg[k] \in 1 .. puts' /\ begun'[g.arg[k]].key = k)
                 /\ g.op = "ClerkGet" /\ g.pc = "ret" /\ g.res.err = "OK" =>
                       (g.res.val = 0 \/ (g.res.val \in 1 .. puts' /\ begun'[g.res.val].key = g.arg[1])) /\ g.res.val # 0
      BY DEF FrameValues, ValueOf
    <3> HIDE DEF g
    <3> QED
      BY <1>1, <2>2 DEF FrameValues
  <2>3. CASE g.op = "ClerkPut" /\ g.arg[2] \in 1 .. puts' /\ begun'[g.arg[2]].key = g.arg[1]
    <3>1. g.arg[2] # 0
      <4>1. \A v \in 1 .. puts' : v # 0
        BY BegunKept
      <4> QED
        BY <2>3, <4>1
    <3> QED
      BY <2>3, <3>1 DEF FrameValues, ValueOf, GetOps
  <2> QED
    BY <2>1, <2>2, <2>3
<1>3. ASSUME NEW s \in Servers, NEW k \in Keys PROVE ValueOf(k, db[s][k])'
  BY <1>1, <1>3, DataCarry DEF ValueOf
<1>4. ASSUME NEW k \in Keys PROVE ValueOf(k, floor[k])'
  BY <1>1, <1>4, FloorCarry DEF ValueOf
<1>5. ASSUME NEW v \in 1 .. puts' PROVE begun'[v].after \subseteq acked' /\ v \notin begun'[v].after
  <2>1. CASE v \in 1 .. puts
    BY <2>1, BegunKept DEF KeyInv
  <2>2. CASE v \notin 1 .. puts
    BY <1>5, <2>2, BegunKept
  <2> QED
    BY <2>1, <2>2
<1> QED
  BY <1>2, <1>3, <1>4, <1>5 DEF KeyInv

-----------------------------------------------------------------------------
(* What was overwritten for all to see is gone, if servers at worst crash. *)

\* Frame f shows that w is at key k, or was overwritten there.
Shows(f, k, w) ==
    /\ f.op \in PutOps \cup GetOps /\ f.arg[1] = k
    /\ \/ f.op \in GetOps /\ f.arg[2] = w
       \/ f.op \in PutOps /\ f.pc = "ret" /\ f.res # Fail /\ f.arg[2] = w
       \/ f.op = "ClerkGet" /\ f.pc = "ret" /\ f.res.err = "OK" /\ f.res.val = w

Shown(k, w) ==
    \/ floor[k] = w
    \/ \E t \in Threads : \E i \in 1 .. Len(stack[t]) : Shows(stack[t][i], k, w)

\* No Put that had returned before that of w began is at k, nor on its way there.
Moving(t) == stack[t] # <<>> /\ Top(t).op = "MoveDB"
Past(k, w) ==
    /\ \A s \in up : db[s][k] \notin begun[w].after
    /\ \A t \in Threads : Moving(t) => Top(t).arg[k] \notin begun[w].after

PastInv == \A k \in Keys : \A w \in 1 .. puts : Shown(k, w) => Past(k, w)

\* The top frame is the last one.
TopPlace ==
    \A t \in Threads : stack[t] # <<>> =>
        Top(t) = stack[t][Len(stack[t])] /\ Len(stack[t]) \in 1 .. Len(stack[t])

\* It follows from the invariant of the stacks.
LEMMA TopPlaces == PBInv => TopPlace
  BY TopRole DEF TopPlace

\* A transfer that is under way was before, or starts from what its primary has.
LEMMA TransferStep ==
    ASSUME PBInv, PBInv', [Next]_vars, NEW t \in Threads, Moving(t)'
    PROVE  \/ \E u \in Threads : Moving(u) /\ Top(t)'.arg = Top(u).arg
           \/ \E s \in Servers : TickMove(s) /\ Top(t)'.arg = db[s]
<1> DEFINE n == Len(stack'[t])
           g == stack'[t][n]
<1>1. Top(t)' = g /\ n \in 1 .. n /\ stack'[t] # <<>> /\ g.op = "MoveDB"
  <2>1. TopPlace'
    BY TopPlaces, PTL
  <2> QED
    BY <2>1 DEF Moving, TopPlace
<1> HIDE DEF n
<1>2. HasSource(t, g) \/ IsAnswer(t, g) \/ IsStart(t, g) \/ IsTick(t, g)
  BY <1>1, FrameFlow DEF n
<1>3. CASE HasSource(t, g)
  <2>1. PICK u \in Threads : \E j \in 1 .. Len(stack[u]) :
           Continues(g, stack[u][j]) \/ PassedOn(g, stack[u][j])
    BY <1>3 DEF HasSource
  <2>2. PICK j \in 1 .. Len(stack[u]) : Continues(g, stack[u][j]) \/ PassedOn(g, stack[u][j])
    BY <2>1
  <2>3. stack[u][j].op = "MoveDB" /\ g.arg = stack[u][j].arg
    BY <1>1, <2>2 DEF Continues, PassedOn
  <2>4. j = Len(stack[u]) /\ stack[u] # <<>>
    BY <2>3, FramePlaces DEF Copies
  <2>5. Top(u) = stack[u][j]
    BY <2>4, TopRole
  <2> QED
    BY <1>1, <2>3, <2>4, <2>5 DEF Moving
<1>4. CASE IsAnswer(t, g)
  <2> DEFINE m == Len(stack[t])
  <2>1. m - 1 \in 1 .. m /\ stack[t] # <<>> /\ \E r \in Res : g = Answered(t, r)
    BY <1>4 DEF IsAnswer
  <2>2. stack[t][m - 1].op = "MoveDB"
    BY <1>1, <2>1 DEF Answered
  <2>3. m - 1 = m /\ m \in Nat
    BY <2>1, <2>2, FramePlaces, TopRole DEF Copies
  <2> QED
    BY <2>3
<1>5. ~ IsStart(t, g)
  BY <1>1, NewOps
<1>6. CASE IsTick(t, g)
  <2>1. PICK s \in Servers : \/ g = Frame(s, "Tick", view')
                             \/ TickMove(s) /\ g = Frame(pbview[s].Backup, "MoveDB", db[s])
    BY <1>6 DEF IsTick
  <2>2. TickMove(s) /\ g.arg = db[s]
    BY <1>1, <2>1 DEF Frame
  <2> QED
    BY <1>1, <2>2
<1> QED
  BY <1>2, <1>3, <1>4, <1>5, <1>6

\* What is past stays past.
LEMMA PastStays ==
    ASSUME PBInv, PBInv', FailStop, PutsOwned, OwnInv, KeyInv, [Next]_vars,
           NEW k \in Keys, NEW w \in 1 .. puts, Past(k, w)
    PROVE  Past(k, w)'
<1> DEFINE A == begun[w].after
<1>1. begun'[w].after = A /\ A \subseteq acked /\ 0 \notin A
  <2>1. begun'[w] = begun[w] /\ A \subseteq acked /\ acked \subseteq 1 .. puts /\ 0 \notin 1 .. puts
    BY BegunKept DEF KeyInv
  <2> QED
    BY <2>1
<1>2. up' \subseteq up /\ up \subseteq Servers
  <2>1. \A t \in Threads : Handle(t) => up' = up
    BY HandleData DEF Quiet
  <2>2. \A c \in Clerks : StartPut(c) \/ StartGet(c) \/ ClerkStep(c) => up' = up
    BY ClerkEffect DEF pbVars
  <2>3. FailStopNext
    BY FailStopSteps
  <2> QED
    BY <2>1, <2>2, <2>3, ServiceData
       DEF FailStopNext, TickPing, TickView, TickMove, TickMoved, Crash, VSTick, TimePasses, vars, pbVars
<1>3. (\A s \in up : db[s][k] \notin A) /\ (\A t \in Threads : Moving(t) => Top(t).arg[k] \notin A)
  BY DEF Past
<1>4. ASSUME NEW t \in Threads, stack[t] # <<>>, Top(t).op \in PutOps PROVE Top(t).arg[2] \notin A
  <2>1. Top(t) = stack[t][Len(stack[t])] /\ Len(stack[t]) \in 1 .. Len(stack[t])
    BY <1>4, TopRole
  <2>2. t[1] \in Clerks /\ Doing(t[1]) = Writing(Top(t))
    BY <1>4, <2>1 DEF PutsOwned
  <2>3. Doing(t[1]).does = "write" /\ Doing(t[1]).val = Top(t).arg[2]
    BY <2>2 DEF Writing
  <2>4. Top(t).arg[2] \notin acked
    BY <2>2, <2>3 DEF OwnInv
  <2> QED
    BY <1>1, <2>4
<1> HIDE DEF A
<1>5. ASSUME NEW s \in up' PROVE db'[s][k] \notin A
  <2>1. s \in up /\ s \in Servers
    BY <1>2
  <2> QED
    BY <1>1, <1>3, <1>4, <2>1, DataStep DEF Moving
<1>6. ASSUME NEW t \in Threads, Moving(t)' PROVE Top(t)'.arg[k] \notin A
  <2>1. ASSUME NEW s \in Servers, TickMove(s) PROVE s \in up
    <3>1. ~ Resting(s)
      BY <2>1, TickMoveStep
    <3> QED
      BY <3>1, TickTops
  <2> QED
    BY <1>3, <1>6, <2>1, TransferStep
<1> QED
  BY <1>1, <1>5, <1>6 DEF Past

\* While the primary is up, a transfer has its mutex, ...
LEMMA TransferHolds ==
    ASSUME PBInv, FailStop, CopiesInv, view.Primary \in up, NEW t \in Threads, Moving(t)
    PROVE  /\ locked[view.Primary]
           /\ \E i \in Nat : Keeps(stack[t], view.Primary, i) /\ stack[t][i].op = "Tick"
<1> DEFINE i == Len(stack[t]) - 1
<1>1. stack[t] # <<>> /\ Top(t).op = "MoveDB" /\ Top(t).op \in Copies
  BY DEF Moving, Copies
<1>2. Len(stack[t]) # 1
  BY <1>1 DEF CopiesInv, CopyOK, Orphaned
<1>3. /\ i \in Nat /\ Keeps(stack[t], stack[t][i].at, i) /\ locked[stack[t][i].at]
      /\ stack[t][i].at = view.Primary /\ stack[t][i].op = "Tick"
  BY <1>1, <1>2, Caller
<1> HIDE DEF i
<1> QED
  BY <1>3

\* ... so that no Put has.
LEMMA PutExcludes ==
    ASSUME PBInv, FailStop, CopiesInv, NEW t \in Threads, NEW j \in 1 .. Len(stack[t]), Critical(stack[t][j]),
           stack[t][j].at = view.Primary
    PROVE  view.Primary \in up /\ view.Primary \in Servers /\ \A u \in Threads : ~ Moving(u)
<1>1. /\ view.Primary \in up /\ view.Primary \in Servers
      /\ j \in Nat /\ Keeps(stack[t], view.Primary, j) /\ stack[t][j].op = "Put"
  BY CriticalLocked DEF Critical
<1>2. ASSUME NEW u \in Threads, Moving(u) PROVE FALSE
  <2>1. PICK i \in Nat : Keeps(stack[u], view.Primary, i) /\ stack[u][i].op = "Tick"
    BY <1>1, <1>2, TransferHolds
  <2>2. u = t /\ i = j
    BY <1>1, <2>1 DEF PBInv, Core, MutexInv, MutexOK
  <2> QED
    BY <1>1, <2>1, <2>2
<1> QED
  BY <1>1, <1>2

\* A Get reads at the primary while no copy is on its way.
LEMMA ReadPast ==
    ASSUME PBInv, FailStop, KeyInv, ReplicaInv, AtPrimaryInv, DataInv,
           NEW t \in Threads, stack[t] # <<>>, GetRead(t), NEW k \in Keys, NEW w \in 1 .. puts,
           Top(t).arg[1] = k, Read(t) = [err |-> "OK", val |-> w]
    PROVE  Past(k, w)
<1> DEFINE s == Top(t).at
<1>1. Top(t).op = "Get" /\ ~ locked[s]
  BY DEF GetRead, Running, Top
<1>2. s = view.Primary /\ s \in up /\ s \in Servers
  <2>1. Top(t) = stack[t][Len(stack[t])] /\ Len(stack[t]) \in 1 .. Len(stack[t])
    BY TopRole
  <2> QED
    BY <1>1, <2>1, FramePlaces DEF AtPrimaryInv
<1>3. db[s][k] = w
  <2>1. Read(t).val = w /\ Read(t).err = "OK"
    OBVIOUS
  <2> QED
    BY <2>1 DEF Read, NoKey
<1> HIDE DEF s
<1>4. ~ locked[view.Primary] /\ view.Primary \in up /\ CopiesInv /\ SyncInv
  BY <1>1, <1>2 DEF s, ReplicaInv
<1>5. \A u \in Threads : ~ Moving(u)
  BY <1>4, TransferHolds
<1>6. ASSUME NEW q \in up PROVE db[q][k] \in {0, w}
  <2>1. CASE q = s
    BY <1>3, <2>1
  <2>2. CASE q # s /\ ~ Partner(q)
    BY <1>2, <2>2 DEF DataInv
  <2>3. CASE q # s /\ Partner(q)
    <3>1. pbview[s].Primary = s /\ pbview[s].Backup = q /\ SyncOK(s)
      BY <1>2, <1>4, <2>3 DEF Partner, SyncInv
    <3>2. ~ IsPending(s, k)
      BY <1>2, <1>4, CriticalLocked DEF IsPending, Pending
    <3> QED
      BY <1>3, <3>1, <3>2 DEF SyncOK
  <2> QED
    BY <2>1, <2>2, <2>3
<1>7. w \notin begun[w].after /\ 0 \notin begun[w].after
  <2>1. begun[w].after \subseteq acked /\ w \notin begun[w].after /\ acked \subseteq 1 .. puts
    BY DEF KeyInv, PBInv, DataOK
  <2> QED
    BY <2>1
<1> QED
  BY <1>5, <1>6, <1>7 DEF Past

\* A primary alone has what it wrote, and no one else has anything.
LEMMA AlonePast ==
    ASSUME PBInv, FailStop, KeyInv, ReplicaInv, AtPrimaryInv, DataInv,
           NEW t \in Threads, stack[t] # <<>>, Top(t).op = "Put", Top(t).pc = "forward",
           pbview[Top(t).at].Backup = None, NEW k \in Keys, NEW w \in 1 .. puts, Top(t).arg[1] = k, Top(t).arg[2] = w
    PROVE  Past(k, w)
<1> DEFINE s == Top(t).at
<1>1. Top(t) = stack[t][Len(stack[t])] /\ Len(stack[t]) \in 1 .. Len(stack[t]) /\ CopiesInv /\ WroteInv
  BY TopRole DEF ReplicaInv
<1>2. s = view.Primary /\ Critical(Top(t))
  BY <1>1 DEF AtPrimaryInv, Critical, HoldsLock
<1>3. s \in up /\ s \in Servers /\ \A u \in Threads : ~ Moving(u)
  BY <1>1, <1>2, PutExcludes
<1>4. db[s][k] = w
  BY <1>1, <1>2 DEF WroteInv
<1> HIDE DEF s
<1>5. ASSUME NEW q \in up PROVE db[q][k] \in {0, w}
  <2>1. CASE q # s
    <3>1. ~ Partner(q)
      <4>1. q \in Servers /\ None \notin Servers
        BY HeardViews
      <4> QED
        BY <1>2, <1>3, <4>1 DEF Partner, s
    <3> QED
      BY <1>2, <2>1, <3>1 DEF DataInv
  <2> QED
    BY <1>4, <2>1
<1>6. w \notin begun[w].after /\ 0 \notin begun[w].after
  <2>1. begun[w].after \subseteq acked /\ w \notin begun[w].after /\ acked \subseteq 1 .. puts
    BY DEF KeyInv, PBInv, DataOK
  <2> QED
    BY <2>1
<1> QED
  BY <1>3, <1>5, <1>6 DEF Past

\* When the backup has stored a value it has what the primary has.
LEMMA CopiedPast ==
    ASSUME PBInv, FailStop, KeyInv, RoleInv, ReplicaInv, AtPrimaryInv, LeftInv, DataInv, [Next]_vars,
           NEW t \in Threads, ForwardPut(t), stack[t] # <<>>, Len(stack[t]) # 1,
           NEW k \in Keys, NEW w \in 1 .. puts, Top(t).arg[1] = k, Top(t).arg[2] = w
    PROVE  Past(k, w)'
<1> DEFINE n == Len(stack[t])
           h == stack[t][n - 1]
           b == Top(t).at
           s == h.at
<1>0. db \in [Servers -> [Keys -> 0 .. env.puts]] /\ stack \in [Threads -> Seq(Frames)]
  BY ServiceData
<1>1. /\ Top(t).op = "ForwardPut" /\ Top(t).op \in Copies /\ Return(t, OK) /\ Written(t)
      /\ up' = up /\ begun' = begun
  BY DEF ForwardPut, Running, Top, Copies, clerkVars
<1>2. CopiesInv /\ WroteInv
  BY DEF ReplicaInv
<1>3. /\ n - 1 \in 1 .. n /\ h.op = "Put" /\ h.pc = "wait" /\ h.arg = Top(t).arg
      /\ s = view.Primary /\ s \in up /\ s \in Servers /\ b # s
  BY <1>1, Caller
<1>4. Critical(h)
  BY <1>3 DEF Critical, HoldsLock
<1>5. \A u \in Threads : ~ Moving(u)
  BY <1>2, <1>3, <1>4, PutExcludes
<1>6. db[s][k] = w
  BY <1>2, <1>3, <1>4 DEF WroteInv
<1>7. b = view.Backup
  BY <1>1, <1>2, CopyTarget
<1>8. ASSUME NEW u \in Threads PROVE ~ Moving(u)'
  <2>1. Ended(stack'[t], stack[t], OK) /\ Others(t)
    BY <1>1, Effects, Constants
  <2>2. CASE u # t
    <3>1. stack'[u] = stack[u]
      BY <2>1, <2>2 DEF Others
    <3>2. Moving(u)' <=> Moving(u)
      BY <3>1 DEF Moving, Top
    <3> QED
      BY <1>5, <3>2
  <2>3. CASE u = t
    <3>1. CutAt(stack'[t], stack[t], n - 1, OK)
      BY <2>1 DEF Ended
    <3> HIDE DEF n
    <3>2. Len(stack'[t]) = n - 1 /\ stack'[t][n - 1].op = h.op /\ stack'[t] \in Seq(Frames) /\ n - 1 # 0
      BY <1>3, <3>1 DEF CutAt, Like
    <3>3. stack'[t] # <<>> => Last(stack'[t]) = stack'[t][n - 1]
      BY <3>2 DEF Last
    <3>4. stack'[t] # <<>> => Top(t)'.op = "Put"
      BY <1>3, <3>2, <3>3 DEF Top
    <3> QED
      BY <2>3, <3>4 DEF Moving
  <2> QED
    BY <2>2, <2>3
<1>9. ASSUME NEW q \in up PROVE db'[q][k] \in {0, w}
  <2>0. q \in Servers /\ db' = [db EXCEPT ![b][k] = w]
    BY <1>1, ServiceData DEF Written
  <2>1. CASE q = b
    BY <1>0, <2>0, <2>1
  <2>2. CASE q # b
    <3>1. db'[q] = db[q]
      BY <1>0, <2>0, <2>2
    <3>2. q # s => db[q][k] = 0
      BY <1>3, <1>7, <2>2 DEF DataInv, Partner
    <3> QED
      BY <1>6, <3>1, <3>2
  <2> QED
    BY <2>1, <2>2
<1>10. w \notin begun[w].after /\ 0 \notin begun[w].after
  <2>1. begun[w].after \subseteq acked /\ w \notin begun[w].after /\ acked \subseteq 1 .. puts
    BY DEF KeyInv, PBInv, DataOK
  <2> QED
    BY <2>1
<1> HIDE DEF b, s, h, n
<1> QED
  BY <1>1, <1>8, <1>9, <1>10 DEF Past

\* What is shown was begun.
LEMMA ShownBegun ==
    ASSUME PBInv, KeyInv, NEW f, FrameValues(f), NEW k, NEW w, w # 0, Shows(f, k, w)
    PROVE  w \in 1 .. puts
  BY DEF Shows, FrameValues, ValueOf, GetOps, PutOps

\* A clerk learns what it was shown.
LEMMA FloorShown ==
    ASSUME PBInv, PBInv', [Next]_vars, NEW k \in Keys
    PROVE  Shown(k, floor'[k])
<1>1. floor \in [Keys -> 0 .. env.puts]
  BY DEF PBInv, DataOK
<1>2. ASSUME NEW j, NEW v, Known(j, v) PROVE floor'[k] = floor[k] \/ (j = k /\ floor'[k] = v)
  BY <1>1, <1>2 DEF Known
<1>3. CASE floor' = floor
  BY <1>3 DEF Shown
<1>4. ASSUME NEW c \in Clerks, EndsWrite(c) \/ EndsRead(c) PROVE Shown(k, floor'[k])
  <2> DEFINE f == stack[Live(c)][1]
  <2>1. Live(c) \in Threads /\ 1 \in 1 .. Len(stack[Live(c)])
    BY <1>4 DEF EndsWrite, EndsRead, Ends, Live, Threads, Owners
  <2>2. CASE EndsWrite(c)
    <3>1. f.op = "ClerkPut" /\ f.pc = "ret" /\ f.res.err # "fail" /\ Known(f.arg[1], f.arg[2])
      BY <2>2 DEF EndsWrite, Ends
    <3>2. floor'[k] = floor[k] \/ (f.arg[1] = k /\ floor'[k] = f.arg[2])
      BY <1>2, <3>1
    <3>3. f.arg[1] = k /\ floor'[k] = f.arg[2] => Shows(f, k, floor'[k])
      BY <3>1 DEF Shows, PutOps, Fail
    <3> QED
      BY <2>1, <3>2, <3>3 DEF Shown
  <2>3. CASE EndsRead(c)
    <3>1. f.op = "ClerkGet" /\ f.pc = "ret" /\ f.res.err = "OK" /\ Known(f.arg[1], f.res.val)
      BY <2>3 DEF EndsRead, Ends
    <3>2. floor'[k] = floor[k] \/ (f.arg[1] = k /\ floor'[k] = f.res.val)
      BY <1>2, <3>1
    <3>3. f.arg[1] = k /\ floor'[k] = f.res.val => Shows(f, k, floor'[k])
      BY <3>1 DEF Shows, GetOps
    <3> QED
      BY <2>1, <3>2, <3>3 DEF Shown
  <2> QED
    BY <1>4, <2>2, <2>3
<1>5. ASSUME NEW c \in Clerks, ClerkSees(c) PROVE Shown(k, floor'[k])
  BY <1>3, <1>4, <1>5 DEF ClerkSees, StartsWrite, StartsRead, GetsAnswer, clerkVars
<1> QED
  BY <1>3, <1>5, Seen

\* An answer shows what was shown, what a primary read that no copy is on its way
\* from, or what it and its backup have.
LEMMA AnswerShown ==
    ASSUME PBInv, FailStop, KeyInv, RoleInv, ReplicaInv, AtPrimaryInv, LeftInv, DataInv, [Next]_vars,
           NEW t \in Threads, NEW g, IsAnswer(t, g), NEW k \in Keys, NEW w, w # 0, Shows(g, k, w)
    PROVE  w \in 1 .. puts /\ (Shown(k, w) \/ Past(k, w) \/ Past(k, w)')
<1> DEFINE n == Len(stack[t])
           h == stack[t][n - 1]
           f == Top(t)
<1>1. PICK r \in Res : AnswersWith(t, r) /\ g = Answered(t, r)
  BY DEF IsAnswer
<1>2. /\ Handle(t) /\ stack[t] # <<>> /\ n - 1 \in 1 .. n /\ n # 1 /\ f = stack[t][n] /\ n \in 1 .. n
      /\ n \in Nat \ {0} /\ LinksOK(stack[t])
  BY <1>1, TopRole DEF IsAnswer
<1>3. g.op = h.op /\ g.arg = h.arg /\ g.pc = "ret" /\ g.res = r
  BY <1>1 DEF Answered
<1>4. Calls(h, f.op, f.arg)
  <2>1. n - 1 \in 1 .. n - 1 /\ (n - 1) + 1 = n
    BY <1>2
  <2> QED
    BY <1>2, <2>1 DEF LinksOK
<1>5. FrameValues(h) /\ FrameValues(f)
  BY <1>2 DEF KeyInv
<1>6. ASSUME NEW i \in 1 .. n, Shows(stack[t][i], k, w) PROVE w \in 1 .. puts /\ Shown(k, w)
  BY <1>6, ShownBegun DEF KeyInv, Shown
<1> HIDE DEF n, h
<1>7. CASE h.op \in GetOps /\ h.arg[2] = w
  <2>1. Shows(h, k, w)
    BY <1>3, <1>7 DEF Shows
  <2> QED
    BY <1>2, <1>6, <2>1 DEF h
<1>8. CASE h.op = "ClerkGet" /\ r.err = "OK" /\ r.val = w
  <2>1. f.op = "Get" /\ f.arg = h.arg
    BY <1>4, <1>8 DEF Calls
  <2>2. GetRead(t) /\ r = Read(t)
    BY <1>1, <1>8, <2>1 DEF AnswersWith, WrongServer, Copies
  <2>3. f.arg[1] = k
    BY <1>3, <2>1 DEF Shows
  <2>4. Read(t) = [err |-> "OK", val |-> w]
    BY <1>8, <2>2 DEF Read, NoKey
  <2>5. w \in 1 .. puts
    <3>1. ValueOf(f.arg[1], Read(t).val)
      <4>1. f.at \in Servers
        BY <1>2, <2>1, TopFacts
      <4>2. Read(t).val = db[f.at][k]
        BY <1>8, <2>2, <2>3 DEF Read, NoKey
      <4> QED
        BY <2>3, <4>1, <4>2 DEF KeyInv
    <3> QED
      BY <1>8, <2>2, <3>1 DEF ValueOf
  <2> QED
    BY <1>2, <2>2, <2>3, <2>4, <2>5, ReadPast
<1>9. CASE h.op \in PutOps /\ r # Fail /\ h.arg[2] = w
  <2>1. f.op \in PutOps /\ f.arg = h.arg /\ (h.op = "Put" <=> f.op = "ForwardPut")
    BY <1>4, <1>9 DEF Calls, PutOps
  <2>2. f.arg[1] = k /\ f.arg[2] = w /\ w \in 1 .. puts
    <3>1. h.arg[1] = k
      BY <1>3 DEF Shows
    <3>2. ValueOf(f.arg[1], f.arg[2])
      BY <1>5, <2>1 DEF FrameValues
    <3> QED
      BY <1>9, <2>1, <3>1, <3>2 DEF ValueOf
  <2>3. CASE f.op = "ForwardPut"
    <3>1. ForwardPut(t)
      BY <1>2, <2>3 DEF Handle, GetEnter, GetRead, PutEnter, PutStore, PutForward, PutForwarded,
                        RelayCall, RelayReturn, MoveDB, Running, Top
    <3> QED
      BY <1>2, <2>2, <3>1, CopiedPast DEF n
  <2>4. CASE f.op = "Put" /\ ~ connected[f.at]
    <3>1. f.at \in Servers
      BY <1>2, <2>4, TopFacts
    <3> QED
      BY <2>4, <3>1 DEF PBInv, ConnectedInv, FailStop
  <2>5. CASE f.op = "Put" /\ f.pc = "forward" /\ pbview[f.at].Backup = None
    BY <1>2, <2>2, <2>5, AlonePast
  <2>6. CASE f.op \in {"Put", "Relay"} /\ f.pc = "ret" /\ f.res # Fail
    <3>1. Shows(f, k, w)
      BY <2>1, <2>2, <2>6 DEF Shows
    <3> QED
      BY <1>2, <1>6, <3>1
  <2>7. f.op # "Get" /\ f.op # "MoveDB"
    BY <2>1 DEF PutOps
  <2> QED
    BY <1>1, <2>3, <2>4, <2>5, <2>6, <2>7 DEF AnswersWith, Copies
<1> QED
  BY <1>3, <1>7, <1>8, <1>9 DEF Shows

\* So what is shown was shown before, or is past when it first is.
LEMMA ShownFrom ==
    ASSUME PBInv, PBInv', FailStop, KeyInv, RoleInv, ReplicaInv, AtPrimaryInv, LeftInv, DataInv, [Next]_vars,
           NEW k \in Keys, NEW w, w # 0, Shown(k, w)'
    PROVE  w \in 1 .. puts /\ (Shown(k, w) \/ Past(k, w) \/ Past(k, w)')
<1>1. ASSUME NEW t \in Threads, NEW i \in 1 .. Len(stack[t]), Shows(stack[t][i], k, w)
      PROVE  w \in 1 .. puts /\ Shown(k, w)
  BY <1>1, ShownBegun DEF KeyInv, Shown
<1>2. ASSUME Shown(k, w) PROVE w \in 1 .. puts
  <2>1. CASE floor[k] = w
    BY <2>1 DEF KeyInv, ValueOf
  <2> QED
    BY <1>1, <1>2, <2>1 DEF Shown
<1>3. CASE floor'[k] = w
  BY <1>2, <1>3, FloorShown
<1>4. ASSUME NEW t \in Threads, NEW i \in 1 .. Len(stack'[t]), Shows(stack'[t][i], k, w)
      PROVE  w \in 1 .. puts /\ (Shown(k, w) \/ Past(k, w) \/ Past(k, w)')
  <2> DEFINE g == stack'[t][i]
  <2>1. Shows(g, k, w)
    BY <1>4
  <2>2. HasSource(t, g) \/ IsAnswer(t, g) \/ IsStart(t, g) \/ IsTick(t, g)
    BY FrameFlow
  <2> HIDE DEF g
  <2>3. CASE HasSource(t, g)
    <3>1. PICK u \in Threads : \E j \in 1 .. Len(stack[u]) :
             Continues(g, stack[u][j]) \/ PassedOn(g, stack[u][j])
      BY <2>3 DEF HasSource
    <3>2. PICK j \in 1 .. Len(stack[u]) : Continues(g, stack[u][j]) \/ PassedOn(g, stack[u][j])
      BY <3>1
    <3>3. Shows(stack[u][j], k, w)
      <4>1. CASE Continues(g, stack[u][j])
        BY <2>1, <4>1 DEF Continues, Shows, Fail
      <4>2. CASE PassedOn(g, stack[u][j])
        BY <2>1, <4>2 DEF PassedOn, Shows, GetOps, PutOps
      <4> QED
        BY <3>2, <4>1, <4>2
    <3> QED
      BY <1>1, <3>3
  <2>4. CASE IsAnswer(t, g)
    BY <2>1, <2>4, AnswerShown
  <2>5. CASE IsStart(t, g)
    <3>1. PICK c \in Clerks, j \in Keys :
             \/ g = Frame(c, "ClerkPut", <<j, puts'>>)
             \/ g = Frame(c, "ClerkGet", <<j, floor[j]>>)
      BY <2>5 DEF IsStart
    <3>2. CASE g = Frame(c, "ClerkPut", <<j, puts'>>)
      <4>1. g.op = "ClerkPut" /\ g.pc = "start"
        BY <3>2 DEF Frame
      <4> QED
        BY <2>1, <4>1 DEF Shows, GetOps
    <3>3. CASE g = Frame(c, "ClerkGet", <<j, floor[j]>>)
      <4>1. g.op = "ClerkGet" /\ g.pc = "start" /\ g.arg[1] = j /\ g.arg[2] = floor[j]
        BY <3>3 DEF Frame
      <4>2. floor[k] = w
        BY <2>1, <4>1 DEF Shows, PutOps
      <4> QED
        BY <1>2, <4>2 DEF Shown
    <3> QED
      BY <3>1, <3>2, <3>3
  <2>6. ~ IsTick(t, g)
    <3>1. g.op \in PutOps \cup GetOps
      BY <2>1 DEF Shows
    <3> QED
      BY <3>1, NewOps DEF PutOps, GetOps
  <2> QED
    BY <2>2, <2>3, <2>4, <2>5, <2>6
<1> QED
  BY <1>3, <1>4 DEF Shown

\* So it stays past.
LEMMA PastKept ==
    ASSUME PBInv, PBInv', FailStop, OwnInv, KeyInv, PastInv, RoleInv, ReplicaInv, HomeInv, [Next]_vars
    PROVE  PastInv'
<1> SUFFICES ASSUME NEW k \in Keys, NEW w \in 1 .. puts', Shown(k, w)' PROVE Past(k, w)'
  BY DEF PastInv
<1>1. w # 0
  BY BegunKept
<1>2. w \in 1 .. puts /\ (Shown(k, w) \/ Past(k, w) \/ Past(k, w)')
  BY <1>1, ShownFrom DEF HomeInv
<1>3. Shown(k, w) => Past(k, w)
  BY <1>2 DEF PastInv
<1> QED
  BY <1>2, <1>3, PastStays DEF HomeInv

-----------------------------------------------------------------------------
(* The register.                                                           *)

\* The invariant of what clerks see.
RegInv == OwnInv /\ KeyInv /\ (FailStop => PastInv)

\* Nothing is Put, nothing is there.
LEMMA InitRegister == Init => RegInv
<1> SUFFICES ASSUME Init PROVE RegInv
  OBVIOUS
<1>1. /\ \A t \in Threads : stack[t] = <<>> /\ Len(stack[t]) = 0
      /\ \A s \in Servers, k \in Keys : db[s][k] = 0
      /\ \A k \in Keys : floor[k] = 0
      /\ puts = 0 /\ 1 .. puts = {}
  BY DEF Init, Empty
<1>2. OwnInv
  <2>1. ASSUME NEW c \in Clerks PROVE Doing(c) = [does |-> "nothing"]
    BY <1>1 DEF Doing, Live, Threads, Owners
  <2>2. \A c \in Clerks : Doing(c).does # "write"
    BY <2>1
  <2> QED
    BY <2>2 DEF OwnInv
<1>3. KeyInv
  BY <1>1 DEF KeyInv, ValueOf
<1>4. PastInv
  BY <1>1 DEF PastInv
<1> QED
  BY <1>2, <1>3, <1>4 DEF RegInv

\* Every step keeps it.
LEMMA NextRegister == PBInv /\ PBInv' /\ RepInv /\ RegInv /\ [Next]_vars => RegInv'
<1> SUFFICES ASSUME PBInv, PBInv', RepInv, RegInv, [Next]_vars PROVE RegInv'
  OBVIOUS
<1>1. FailStop' => FailStop
  BY SameEnv DEF FailStop
<1>2. FailStop => PastInv'
  BY PastKept DEF RegInv, RepInv
<1> QED
  BY <1>1, <1>2, OwnKept, KeysKept DEF RegInv

\* The clerks' operations, as a function.
DoingAll == [c \in Clerks |-> Doing(c)]

\* One clerk's operation changes.
LEMMA OneDoing ==
    ASSUME NEW c \in Clerks, \A d \in Clerks : d # c => Doing(d)' = Doing(d), NEW x, Doing(c)' = x
    PROVE  DoingAll' = [DoingAll EXCEPT ![c] = x]
  BY DEF DoingAll

\* A Get is answered with a value that was Put there, and that is not past.
LEMMA AnswerGood ==
    ASSUME PBInv, RepInv, RegInv, NEW c \in Clerks, GetsAnswer(c)
    PROVE  LET k == Top(Live(c)).arg[1]
               n == Top(Live(c)).arg[2]
               v == Read(Live(c)).val
           IN  /\ v \in 1 .. puts /\ begun[v].key = k
               /\ FailStop /\ n # 0 => v \notin begun[n].after
<1> DEFINE t == Live(c)
           k == Top(t).arg[1]
           n == Top(t).arg[2]
           v == Read(t).val
           s == Top(t).at
<1>1. /\ t \in Threads /\ stack[t] # <<>> /\ Len(stack[t]) = 2 /\ stack[t][1].op = "ClerkGet"
      /\ stack[t][1].arg = Top(t).arg /\ Top(t).op = "Get" /\ Read(t).err = "OK"
  BY DEF GetsAnswer, Live, Threads, Owners
<1>2. 1 \in 1 .. Len(stack[t]) /\ 2 \in 1 .. Len(stack[t]) /\ Top(t) = stack[t][2]
  BY <1>1, TopRole
<1>3. s \in Servers /\ s \in up /\ k \in Keys
  <2>1. s \in Servers /\ k \in Keys
    BY <1>1, TopFacts DEF GetOps
  <2> QED
    BY <1>1, <1>2, <2>1, FramePlaces
<1>4. v = db[s][k] /\ v # 0
  BY <1>1 DEF Read, NoKey
<1>5. ValueOf(k, v) /\ ValueOf(k, n)
  <2>1. FrameValues(Top(t)) /\ ValueOf(k, db[s][k])
    BY <1>1, <1>2, <1>3 DEF RegInv, KeyInv
  <2> QED
    BY <1>1, <1>4, <2>1 DEF FrameValues, GetOps
<1>6. ASSUME FailStop, n # 0 PROVE v \notin begun[n].after
  <2>1. Shows(stack[t][1], k, n)
    BY <1>1 DEF Shows, GetOps
  <2>2. Shown(k, n)
    BY <1>1, <1>2, <2>1 DEF Shown
  <2>3. n \in 1 .. puts
    BY <1>5, <1>6 DEF ValueOf
  <2>4. Past(k, n)
    BY <1>3, <1>6, <2>2, <2>3 DEF RegInv, PastInv
  <2> QED
    BY <1>3, <1>4, <2>4 DEF Past
<1> QED
  BY <1>4, <1>5, <1>6 DEF ValueOf

\* As many Puts are noted as have begun.
LEMMA BegunLength == PBInv => Len(begun) = puts
<1> SUFFICES ASSUME PBInv PROVE Len(begun) = puts
  OBVIOUS
<1> DEFINE Put == [key : Keys, after : SUBSET (1 .. puts)]
<1>1. puts \in 0 .. env.puts /\ env.puts \in Nat /\ begun \in [1 .. puts -> Put]
  BY EnvironmentsAssumption DEF PBInv, DataOK, Environment
<1> HIDE DEF Put
<1> QED
  BY <1>1

\* What a clerk sees is a step of the register.
LEMMA SeenIsRegister ==
    ASSUME PBInv, RepInv, RegInv, FailStop' = FailStop, NEW c \in Clerks, ClerkSees(c),
           \A d \in Clerks : d # c => Doing(d)' = Doing(d)
    PROVE  R!Next
<1> DEFINE op == DoingAll
<1>0. op[c] = Doing(c) /\ op'[c] = Doing(c)' /\ c \in Clerks
      /\ \A x : Doing(c)' = x => op' = [op EXCEPT ![c] = x]
  BY OneDoing DEF DoingAll
<1>1. /\ Nothing.does = "nothing"
      /\ \A k, v : WriteOf(k, v).does = "write" /\ WriteOf(k, v).val = v /\ WriteOf(k, v).key = k
      /\ \A k, n, a : ReadOf(k, n, a).does = "read" /\ ReadOf(k, n, a).answer = a
                      /\ ReadOf(k, n, a).key = k /\ ReadOf(k, n, a).since = n
      /\ \A k, n, a, b : [ReadOf(k, n, a) EXCEPT !.answer = b] = ReadOf(k, n, b)
  BY DEF Nothing, WriteOf, ReadOf
<1>2. CASE StartsWrite(c)
  <2>1. PICK k \in Keys : /\ Doing(c)' = WriteOf(k, puts')
                          /\ begun' = Append(begun, [key |-> k, after |-> acked])
    BY <1>2 DEF StartsWrite
  <2>2. Doing(c) = Nothing /\ Len(begun') = puts' /\ UNCHANGED <<acked, floor>>
    BY <1>2 DEF StartsWrite
  <2>3. op' = [op EXCEPT ![c] = WriteOf(k, Len(begun'))] /\ op'[c] # op[c]
    BY <1>0, <1>1, <2>1, <2>2
  <2>4. R!StartWrite(c)
    BY <1>0, <2>1, <2>2, <2>3 DEF R!StartWrite, R!Idle, R!Write, Nothing, WriteOf, DoingAll
  <2> QED
    BY <2>3, <2>4 DEF R!Next, DoingAll
<1>3. CASE StartsRead(c)
  <2>1. PICK k \in Keys : Doing(c)' = ReadOf(k, floor[k], 0)
    BY <1>3 DEF StartsRead
  <2>2. Doing(c) = Nothing /\ UNCHANGED <<begun, acked, floor>>
    BY <1>3 DEF StartsRead, clerkVars
  <2>3. op' = [op EXCEPT ![c] = ReadOf(k, floor[k], 0)] /\ op'[c] # op[c]
    BY <1>0, <1>1, <2>1, <2>2
  <2>4. R!StartRead(c)
    BY <1>0, <2>1, <2>2, <2>3 DEF R!StartRead, R!Idle, R!Read, Nothing, ReadOf, DoingAll
  <2> QED
    BY <2>3, <2>4 DEF R!Next, DoingAll
<1>4. CASE GetsAnswer(c)
  <2> DEFINE k == Top(Live(c)).arg[1]
             n == Top(Live(c)).arg[2]
             v == Read(Live(c)).val
  <2>1. /\ Doing(c) = ReadOf(k, n, 0) /\ Doing(c)' = ReadOf(k, n, v) /\ UNCHANGED <<begun, acked, floor>>
    BY <1>4 DEF GetsAnswer, clerkVars
  <2>2. v \in 1 .. Len(begun) /\ begun[v].key = k /\ (FailStop => ~ (n # 0 /\ v \in begun[n].after))
    BY <1>4, AnswerGood, BegunLength
  <2>3. v # 0
    <3>1. \A m \in Nat : 0 \notin 1 .. m
      OBVIOUS
    <3>2. puts \in Nat
      BY ServiceData
    <3> QED
      BY <2>2, <3>1, <3>2, BegunLength
  <2> HIDE DEF k, n, v
  <2>4. op[c].does = "read" /\ op[c].answer = 0 /\ op[c].key = k /\ op[c].since = n
    BY <1>0, <1>1, <2>1
  <2>5. op' = [op EXCEPT ![c].answer = v] /\ op'[c] # op[c]
    <3>1. op' = [op EXCEPT ![c] = ReadOf(k, n, v)] /\ op[c] = ReadOf(k, n, 0)
      BY <1>0, <2>1
    <3>2. [op[c] EXCEPT !.answer = v] = ReadOf(k, n, v)
      BY <1>1, <3>1
    <3>3. op'[c] # op[c]
      BY <1>0, <1>1, <2>1, <2>3
    <3> QED
      BY <3>1, <3>2, <3>3
  <2>6. R!Answer(c)
    BY <2>1, <2>2, <2>4, <2>5 DEF R!Answer, R!Overwritten, DoingAll
  <2> QED
    BY <2>5, <2>6 DEF R!Next, DoingAll
<1>5. CASE EndsWrite(c)
  <2> DEFINE f == stack[Live(c)][1]
             k == f.arg[1]
             v == f.arg[2]
  <2>1. /\ Doing(c) = WriteOf(k, v) /\ Doing(c)' = Nothing /\ acked' = acked \cup {v} /\ Known(k, v)
        /\ begun' = begun
    BY <1>5 DEF EndsWrite, Ends
  <2> HIDE DEF f, k, v
  <2>2. op[c].does = "write" /\ op[c].key = k /\ op[c].val = v
    BY <1>0, <1>1, <2>1
  <2>3. op' = [op EXCEPT ![c] = Nothing] /\ op'[c] # op[c]
    BY <1>0, <1>1, <2>1
  <2>4. R!EndWrite(c)
    BY <2>1, <2>2, <2>3 DEF R!EndWrite, R!Shown, R!Idle, Nothing, Known, DoingAll
  <2> QED
    BY <2>3, <2>4 DEF R!Next, DoingAll
<1>6. CASE EndsRead(c)
  <2> DEFINE f == stack[Live(c)][1]
             k == f.arg[1]
             n == f.arg[2]
             v == f.res.val
  <2>1. /\ Doing(c) = ReadOf(k, n, v) /\ Doing(c)' = Nothing /\ Known(k, v) /\ begun' = begun /\ acked' = acked
    BY <1>6 DEF EndsRead, Ends
  <2>2. v # 0
    <3>1. f.op = "ClerkGet" /\ f.pc = "ret" /\ f.res.err = "OK" /\ stack[Live(c)] # <<>> /\ Len(stack[Live(c)]) = 1
      BY <1>6 DEF EndsRead, Ends
    <3>2. Live(c) \in Threads /\ 1 \in 1 .. Len(stack[Live(c)])
      BY <3>1 DEF Live, Threads, Owners
    <3>3. FrameValues(f)
      BY <3>2 DEF RegInv, KeyInv
    <3> QED
      BY <3>1, <3>3 DEF FrameValues
  <2> HIDE DEF f, k, n, v
  <2>3. op[c].does = "read" /\ op[c].key = k /\ op[c].answer = v
    BY <1>0, <1>1, <2>1
  <2>4. op' = [op EXCEPT ![c] = Nothing] /\ op'[c] # op[c]
    BY <1>0, <1>1, <2>1
  <2>5. R!EndRead(c)
    BY <2>1, <2>2, <2>3, <2>4 DEF R!EndRead, R!Shown, R!Idle, Nothing, Known, DoingAll
  <2> QED
    BY <2>4, <2>5 DEF R!Next, DoingAll
<1> QED
  BY <1>2, <1>3, <1>4, <1>5, <1>6 DEF ClerkSees

\* So is every step, or the register does not change.
LEMMA StepIsRegister ==
    ASSUME PBInv, PBInv', RepInv, RegInv, [Next]_vars
    PROVE  [R!Next]_(R!vars)
<1>1. FailStop' = FailStop
  BY SameEnv DEF FailStop
<1>2. CASE UNCHANGED <<puts, begun, acked, floor>> /\ \A c \in Clerks : Doing(c)' = Doing(c)
  <2>1. DoingAll' = DoingAll
    BY <1>2 DEF DoingAll
  <2> QED
    BY <1>1, <1>2, <2>1 DEF R!vars, DoingAll
<1>3. ASSUME NEW c \in Clerks, ClerkSees(c), \A d \in Clerks : d # c => Doing(d)' = Doing(d) PROVE R!Next
  BY <1>1, <1>3, SeenIsRegister
<1> QED
  BY <1>2, <1>3, Seen

\* The clerks see a register: a Get answers with a value that was Put at its
\* key, and if servers at worst crash with none that was overwritten for all
\* to see when the Get began (test_test.go:707).
THEOREM ImplementsRegister == Spec => IsRegister
<1>1. Init => R!Init
  <2> SUFFICES ASSUME Init PROVE R!Init
    OBVIOUS
  <2>1. \A c \in Clerks : Doing(c) = [does |-> "nothing"]
    BY DEF Init, Doing, Live, Threads, Owners
  <2>2. FailStop \in BOOLEAN
    BY DEF FailStop
  <2> QED
    BY <2>1, <2>2 DEF Init, Empty, R!Init, R!Idle
<1>2. PBInv /\ PBInv' /\ RepInv /\ RegInv /\ [Next]_vars => [R!Next]_(R!vars)
  BY StepIsRegister
<1>3. Spec => []PBInv /\ []RepInv
  BY SystemInv, InitReplicas, NextReplicas, PTL DEF Spec
<1>4. Spec => []RegInv
  BY <1>3, SystemInv, InitRegister, NextRegister, PTL DEF Spec
<1> QED
  BY <1>1, <1>2, <1>3, <1>4, PTL DEF Spec, IsRegister, R!Spec
=============================================================================
