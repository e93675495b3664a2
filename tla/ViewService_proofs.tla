--------------------------- MODULE ViewService_proofs ---------------------------
(***************************************************************************)
(* Theorems about the view service, for any set of servers, any DeadPings, *)
(* any environment, by the lemmas of ViewServer_proofs about the view      *)
(* server's own steps.                                                     *)
(***************************************************************************)
EXTENDS ViewService, ViewServer_proofs

\* The environment names servers of the system.
LEMMA EnvironmentType ==
    ASSUME TypeOK
    PROVE  env.servers \subseteq Servers /\ env.views \in Nat
  BY EnvironmentsAssumption DEF TypeOK, Environment

\* Every state of the system is of its type (ViewServer struct of server.go,
\* pb.view of the p/b servers, the calls between them).
THEOREM TypeCorrect == Spec => []TypeOK
<1> USE DEF TypeOK
<1>1. Init => TypeOK
  BY StartType, EnvironmentsAssumption DEF Init, NoView, View, Environment
<1>2. ASSUME TypeOK, Next PROVE TypeOK'
  <2> USE <1>2
  <2>1. ASSUME NEW s \in Servers, PingCall(s) PROVE TypeOK'
    <3>1. VSTypeOK'
      BY <2>1, PingType DEF PingCall, View
    <3>2. lost' \subseteq Servers
      BY <2>1 DEF PingCall, NoteLost, Silent
    <3> QED
      BY <2>1, <3>1, <3>2 DEF PingCall, VSTypeOK
  <2>2. ASSUME NEW s \in Servers, PingRefused(s) PROVE TypeOK'
    <3>1. VSTypeOK'
      BY <2>2, PingType DEF PingRefused, View
    <3> QED
      BY <2>2, <3>1 DEF PingRefused, pbVars
  <2>3. ASSUME NEW s \in Servers, PingReturn(s) PROVE TypeOK'
    <3>1. VSTypeOK'
      BY <2>3 DEF PingReturn, vsVars, VSTypeOK
    <3>2. reply[s] \in View
      BY <2>3 DEF PingReturn
    <3>3. entered' \subseteq Nat
      BY <2>3, <3>2 DEF PingReturn, View
    <3> QED
      BY <2>3, <3>1, <3>2, <3>3 DEF PingReturn
  <2>4. ASSUME NEW s \in Servers, ReplyLost(s) PROVE TypeOK'
    BY <2>4 DEF ReplyLost, vsVars, VSTypeOK
  <2>5. ASSUME NEW s \in Servers, NEW n \in 0 .. env.views, StrayPing(s, n) PROVE TypeOK'
    <3>1. VSTypeOK'
      BY <2>5, PingType, EnvironmentType DEF StrayPing
    <3>2. lost' \subseteq Servers
      BY <2>5 DEF StrayPing, NoteLost, Silent
    <3> QED
      BY <2>5, <3>1, <3>2 DEF StrayPing
  <2>6. ASSUME NEW s \in Servers, Crash(s) PROVE TypeOK'
    <3>1. VSTypeOK'
      BY <2>6 DEF Crash, vsVars, VSTypeOK
    <3>2. NoView \in View
      BY DEF NoView, View
    <3>3. strays' \subseteq Servers \X Nat
      BY <2>6 DEF Crash, View
    <3> QED
      BY <2>6, <3>1, <3>2, <3>3 DEF Crash
  <2>7. ASSUME NEW s \in Servers, Restart(s) PROVE TypeOK'
    BY <2>7 DEF Restart, vsVars, VSTypeOK
  <2>8. CASE VSRestart
    BY <2>8, StartType DEF VSRestart
  <2>9. CASE VSTick
    BY <2>9, TickType DEF VSTick, pbVars
  <2>10. CASE TimePasses
    <3>1. lost' \subseteq Servers
      BY <2>10 DEF TimePasses, Silent
    <3> QED
      BY <2>10, <3>1, ElapseType DEF TimePasses, pbVars
  <2> QED
    BY <2>1, <2>2, <2>3, <2>4, <2>5, <2>6, <2>7, <2>8, <2>9, <2>10 DEF Next
<1>3. ASSUME TypeOK, UNCHANGED vars PROVE TypeOK'
  BY <1>3 DEF vars, vsVars, pbVars, VSTypeOK
<1> QED
  BY <1>1, <1>2, <1>3, PTL DEF Spec

\* The invariant holds in every reachable state.
LEMMA SystemInv == Spec => []VSInv
<1>1. Init => VSInv
  BY StartInv DEF Init
<1>2. ASSUME TypeOK, VSInv, Next PROVE VSInv'
  <2> USE <1>2
  <2>1. ASSUME NEW s \in Servers, PingCall(s) \/ PingRefused(s) PROVE VSInv'
    BY <2>1, PingInv DEF PingCall, PingRefused, TypeOK, View
  <2>2. ASSUME NEW s \in Servers, NEW n \in 0 .. env.views, StrayPing(s, n) PROVE VSInv'
    BY <2>2, PingInv, EnvironmentType DEF StrayPing, TypeOK
  <2>3. ASSUME NEW s \in Servers, PingReturn(s) \/ ReplyLost(s) \/ Crash(s) \/ Restart(s)
        PROVE  VSInv'
    BY <2>3, SameInv DEF PingReturn, ReplyLost, Crash, Restart, vsVars
  <2>4. CASE VSRestart
    BY <2>4, StartInv DEF VSRestart
  <2>5. CASE VSTick
    BY <2>5, TickInv DEF VSTick, TypeOK
  <2>6. CASE TimePasses
    BY <2>6, SameInv DEF TimePasses, Elapse
  <2> QED
    BY <2>1, <2>2, <2>3, <2>4, <2>5, <2>6 DEF Next
<1>3. ASSUME VSInv, UNCHANGED vars PROVE VSInv'
  BY <1>3, SameInv DEF vars, vsVars
<1> QED
  BY <1>1, <1>2, <1>3, TypeCorrect, PTL DEF Spec

\* No server ever holds both roles of a view (server.go:64-91, tick).
THEOREM RolesStayDistinct == Spec => []RolesDistinct
<1>1. VSInv => RolesDistinct
  BY DEF VSInv
<1> QED
  BY <1>1, SystemInv, PTL

\* Any reassignment in the next view raises its number, so that the condition
\* of line 96 will see it.
THEOREM NoChangeForgotten == Spec => []PendingChangeNumbered
<1>1. VSInv => PendingChangeNumbered
  BY DEF VSInv
<1> QED
  BY <1>1, SystemInv, PTL

-----------------------------------------------------------------------------
(* Acknowledgements.  While the view server has not restarted, a server    *)
(* that pings with the current number, or whose left-over request does,    *)
(* has operated in that view; this is what update then stands for.         *)

\* Nobody is ahead, and a view heard of is the view of its number.
AgreeInv ==
    \A s \in Servers : \A v \in Heard(s) :
        /\ v.Viewnum <= view.Viewnum
        /\ v.Viewnum = view.Viewnum => v = view
        /\ v.Viewnum = 0 => v = NoView
        /\ \A t \in Servers : \A w \in Heard(t) : v.Viewnum = w.Viewnum => v = w

\* A server that operates in a view as its primary has entered it.
OperatingEntered ==
    \A s \in Servers :
        pbview[s].Viewnum > 0 /\ pbview[s].Primary = s => pbview[s].Viewnum \in entered

\* A left-over request that would acknowledge the view comes from a process
\* that had entered it.
StraysEntered ==
    \A s \in Servers, n \in Nat : <<s, n>> \in strays =>
        /\ n <= view.Viewnum
        /\ n > 0 /\ n = view.Viewnum /\ view.Primary = s => n \in entered

\* An acknowledged view has been entered by its primary.
AckEntered == update => view.Viewnum \in entered

HistInv ==
    vsRestarts = 0 => AgreeInv /\ OperatingEntered /\ StraysEntered /\ AckEntered

\* A ping leaves the view or moves to the next number, never back to none.
LEMMA PingMovesOn ==
    ASSUME VSTypeOK, VSInv, NEW me \in Servers, NEW n \in Nat, PingAccepted(me, n)
    PROVE  /\ view'.Viewnum > 0
           /\ view' = view \/ view'.Viewnum = view.Viewnum + 1
<1>1. view.Viewnum \in Nat
  BY DEF VSTypeOK, View
<1>2. CASE PingFirst(me, n)
  <2>1. newView.Viewnum = 0
    BY <1>2 DEF PingFirst, VSInv, FreshView, NoView
  <2> QED
    BY <1>2, <2>1 DEF PingFirst
<1>3. CASE PingAdopt(me, n)
  BY <1>1, <1>3 DEF PingAdopt, Renumbered
<1>4. CASE PingKeep(me, n)
  BY <1>1, <1>4 DEF PingKeep
<1> QED
  BY <1>2, <1>3, <1>4 DEF PingAccepted

\* Whoever acknowledges the view has entered it, so a flag set or a view
\* adopted by a ping is backed by the primary itself.
LEMMA AckLemma ==
    ASSUME TypeOK, HistInv, vsRestarts = 0, NEW me \in Servers, NEW n \in Nat,
           n = pbview[me].Viewnum \/ <<me, n>> \in strays,
           Acked(me, n), view.Viewnum # 0
    PROVE  view.Viewnum \in entered
<1>1. CASE update
  BY <1>1 DEF HistInv, AckEntered
<1>2. CASE view.Primary = me /\ view.Viewnum = n
  <2>1. CASE <<me, n>> \in strays
    BY <1>2, <2>1 DEF HistInv, StraysEntered
  <2>2. CASE n = pbview[me].Viewnum
    <3>1. pbview[me] \in Heard(me)
      BY NoReplyAssumption DEF Heard, TypeOK
    <3>2. pbview[me] = view
      BY <1>2, <2>2, <3>1 DEF HistInv, AgreeInv
    <3> QED
      BY <1>2, <2>2, <3>2 DEF HistInv, OperatingEntered
  <2> QED
    BY <2>1, <2>2
<1> QED
  BY <1>1, <1>2 DEF Acked

\* One served ping, of a live server or left over.
LEMMA PingHist ==
    ASSUME TypeOK, VSInv, HistInv, vsRestarts = 0, NEW me \in Servers, NEW n \in Nat,
           n = pbview[me].Viewnum \/ <<me, n>> \in strays,
           PingAccepted(me, n), UNCHANGED <<pbview, entered>>, strays' \subseteq strays,
           \A s \in Servers : reply'[s] \in {reply[s], view'}
    PROVE  AgreeInv' /\ OperatingEntered' /\ StraysEntered' /\ AckEntered'
<1>1. /\ view'.Viewnum > 0
      /\ view' = view \/ view'.Viewnum = view.Viewnum + 1
      /\ view.Viewnum \in Nat
  BY PingMovesOn DEF TypeOK, VSTypeOK, View
<1>2. \A s \in Servers : \A v \in Heard(s)' : v \in Heard(s) \/ v = view'
  BY DEF Heard
<1>3. AgreeInv
  BY DEF HistInv
<1>4. AgreeInv'
  <2>1. \A s \in Servers : \A v \in Heard(s) : v.Viewnum \in Nat
    BY DEF Heard, TypeOK, View
  <2>2. \A s \in Servers : \A v \in Heard(s) :
           v.Viewnum <= view'.Viewnum /\ (v.Viewnum = view'.Viewnum => v = view')
    BY <1>1, <1>3, <2>1 DEF AgreeInv
  <2> QED
    BY <1>1, <1>2, <1>3, <2>2 DEF AgreeInv
<1>5. OperatingEntered'
  BY DEF HistInv, OperatingEntered
<1>6. StraysEntered'
  BY <1>1 DEF HistInv, StraysEntered
<1>7. AckEntered'
  <2>1. CASE PingFirst(me, n)
    <3>1. ~ update
      BY <2>1 DEF PingFirst, VSInv, FreshView, EmptyUnacked, NoView
    <3> QED
      BY <2>1, <3>1 DEF PingFirst, AckEntered
  <2>2. CASE PingAdopt(me, n)
    BY <2>2 DEF PingAdopt, AckEntered
  <2>3. CASE PingKeep(me, n)
    BY <2>3, AckLemma DEF PingKeep, AckEntered
  <2> QED
    BY <2>1, <2>2, <2>3 DEF PingAccepted
<1> QED
  BY <1>4, <1>5, <1>6, <1>7

\* A step that leaves the view server's state alone, or only prepares.
LEMMA QuietHist ==
    ASSUME TypeOK, VSInv, HistInv, vsRestarts = 0, UNCHANGED <<view, update>>,
           entered \subseteq entered', StraysEntered', OperatingEntered',
           \A s \in Servers : Heard(s)' \subseteq Heard(s) \cup {NoView}
    PROVE  AgreeInv' /\ OperatingEntered' /\ StraysEntered' /\ AckEntered'
<1>1. AgreeInv'
  <2>1. \A s \in Servers : \A v \in Heard(s) :
           /\ v.Viewnum = 0 => v = NoView
           /\ v.Viewnum \in Nat
    BY DEF HistInv, AgreeInv, Heard, TypeOK, View
  <2>2. NoView.Viewnum = 0 /\ view.Viewnum \in Nat
    BY DEF NoView, TypeOK, VSTypeOK, View
  <2>3. view.Viewnum = 0 => view = NoView
    BY DEF VSInv, FreshView
  <2> QED
    BY <2>1, <2>2, <2>3 DEF HistInv, AgreeInv
<1>2. AckEntered'
  BY DEF HistInv, AckEntered
<1> QED
  BY <1>1, <1>2

\* The history invariant holds throughout.
LEMMA SystemHist == Spec => []HistInv
<1>1. Init => HistInv
  BY NoReplyAssumption DEF Init, VSInit, HistInv, AgreeInv, OperatingEntered, StraysEntered, AckEntered,
     Heard, NoView
<1>2. ASSUME TypeOK, TypeOK', VSInv, HistInv, Next PROVE HistInv'
  <2> USE <1>2
  <2>0. SUFFICES ASSUME vsRestarts' = 0
                 PROVE  AgreeInv' /\ OperatingEntered' /\ StraysEntered' /\ AckEntered'
    BY DEF HistInv
  <2> DEFINE Goal == AgreeInv' /\ OperatingEntered' /\ StraysEntered' /\ AckEntered'
  <2>a. ~ VSRestart
    BY <2>0 DEF VSRestart, TypeOK
  <2>b. vsRestarts = 0
    BY <2>0, <2>a DEF Next, PingCall, PingRefused, PingReturn, ReplyLost, StrayPing, Crash, Restart,
       VSTick, TimePasses, pbVars
  <2>c. AgreeInv /\ OperatingEntered /\ StraysEntered /\ AckEntered
    BY <2>b DEF HistInv
  <2>1. ASSUME NEW s \in Servers, PingCall(s) PROVE Goal
    <3>1. pbview[s].Viewnum \in Nat
      BY DEF TypeOK, View
    <3>2. \A t \in Servers : reply'[t] \in {reply[t], view'}
      BY <2>1 DEF PingCall, TypeOK
    <3> QED
      BY <2>1, <2>b, <3>1, <3>2, PingHist DEF PingCall
  <2>2. ASSUME NEW s \in Servers, NEW n \in 0 .. env.views, StrayPing(s, n) PROVE Goal
    <3>1. n \in Nat /\ n <= view.Viewnum
      BY <2>2, <2>c, EnvironmentType DEF StrayPing, StraysEntered
    <3>2. PingAccepted(s, n)
      BY <2>2, <3>1 DEF StrayPing, PingRejected, TypeOK, VSTypeOK, View
    <3> QED
      BY <2>2, <2>b, <3>1, <3>2, PingHist DEF StrayPing
  <2>3. ASSUME NEW s \in Servers, PingReturn(s) PROVE Goal
    <3>1. reply[s] \in View
      BY <2>3 DEF PingReturn, TypeOK
    <3>2. pbview' = [pbview EXCEPT ![s] = reply[s]]
      BY <2>3 DEF PingReturn
    <3>3. entered \subseteq entered'
      BY <2>3 DEF PingReturn
    <3>4. reply[s].Primary = s => reply[s].Viewnum \in entered'
      BY <2>3 DEF PingReturn
    <3>5. OperatingEntered'
      BY <2>c, <3>2, <3>3, <3>4 DEF OperatingEntered, TypeOK
    <3>6. StraysEntered'
      BY <2>3, <2>c, <3>3 DEF PingReturn, vsVars, StraysEntered
    <3>7. \A t \in Servers : Heard(t)' \subseteq Heard(t)
      BY <2>3 DEF PingReturn, Heard, TypeOK
    <3> QED
      BY <2>3, <2>b, <3>3, <3>5, <3>6, <3>7, QuietHist DEF PingReturn, vsVars
  <2>4. ASSUME NEW s \in Servers, ReplyLost(s) PROVE Goal
    <3>1. \A t \in Servers : Heard(t)' \subseteq Heard(t)
      BY <2>4 DEF ReplyLost, Heard, TypeOK
    <3>2. OperatingEntered' /\ StraysEntered'
      BY <2>4, <2>c DEF ReplyLost, vsVars, OperatingEntered, StraysEntered
    <3> QED
      BY <2>4, <2>b, <3>1, <3>2, QuietHist DEF ReplyLost, vsVars
  <2>5. ASSUME NEW s \in Servers, Crash(s) PROVE Goal
    <3>1. pbview' = [pbview EXCEPT ![s] = NoView]
      BY <2>5 DEF Crash
    <3>2. \A t \in Servers : Heard(t)' \subseteq Heard(t) \cup {NoView}
      BY <2>5 DEF Crash, Heard, TypeOK
    <3>3. OperatingEntered'
      BY <2>5, <2>c, <3>1 DEF Crash, OperatingEntered, NoView, TypeOK
    <3>4. pbview[s] \in Heard(s)
      BY NoReplyAssumption DEF Heard, TypeOK
    <3>5. /\ pbview[s].Viewnum <= view.Viewnum
          /\ pbview[s].Viewnum = view.Viewnum => pbview[s] = view
      BY <2>c, <3>4 DEF AgreeInv
    <3>6. strays' \subseteq strays \cup {<<s, pbview[s].Viewnum>>}
      BY <2>5 DEF Crash
    <3>7. StraysEntered'
      BY <2>5, <2>c, <3>5, <3>6 DEF Crash, vsVars, StraysEntered, OperatingEntered
    <3> QED
      BY <2>5, <2>b, <3>2, <3>3, <3>7, QuietHist DEF Crash, vsVars
  <2>6. ASSUME NEW s \in Servers, PingRefused(s) \/ Restart(s) PROVE Goal
    <3>1. UNCHANGED <<view, update, pbview, reply, strays, entered>>
      BY <2>6 DEF PingRefused, PingRejected, Restart, vsVars, pbVars
    <3>2. OperatingEntered' /\ StraysEntered' /\ \A t \in Servers : Heard(t)' = Heard(t)
      BY <2>c, <3>1 DEF OperatingEntered, StraysEntered, Heard
    <3> QED
      BY <2>b, <3>1, <3>2, QuietHist
  <2>7. CASE VSTick \/ TimePasses
    <3>1. UNCHANGED <<view, update, pbview, reply, strays, entered>>
      BY <2>7 DEF VSTick, Tick, TimePasses, Elapse, pbVars
    <3>2. OperatingEntered' /\ StraysEntered' /\ \A t \in Servers : Heard(t)' = Heard(t)
      BY <2>c, <3>1 DEF OperatingEntered, StraysEntered, Heard
    <3> QED
      BY <2>b, <3>1, <3>2, QuietHist
  <2> QED
    BY <2>a, <2>1, <2>2, <2>3, <2>4, <2>5, <2>6, <2>7 DEF Next
<1>3. ASSUME HistInv, UNCHANGED vars PROVE HistInv'
  BY <1>3 DEF vars, vsVars, pbVars, HistInv, AgreeInv, OperatingEntered, StraysEntered, AckEntered, Heard
<1> QED
  BY <1>1, <1>2, <1>3, TypeCorrect, SystemInv, PTL DEF Spec

\* A view number names one view, and nobody is ahead of the view server.
THEOREM OneViewPerNumber == Spec => []ViewsAgree
<1>1. ASSUME TypeOK, HistInv PROVE ViewsAgree
  BY <1>1 DEF HistInv, AgreeInv, ViewsAgree
<1> QED
  BY <1>1, SystemHist, TypeCorrect, PTL

\* The view server leaves a view only after its primary has operated in it.
THEOREM AckedBeforeNewView == Spec => NoNewViewBeforeAck
<1> DEFINE A == (view' # view /\ view.Viewnum > 0 /\ vsRestarts' = 0) => view.Viewnum \in entered
<1>1. ASSUME TypeOK, VSInv, HistInv, Next, view' # view, view.Viewnum > 0, vsRestarts' = 0
      PROVE  view.Viewnum \in entered
  <2> USE <1>1
  <2>1. ~ VSRestart
    BY DEF VSRestart, TypeOK
  <2>2. vsRestarts = 0
    BY <2>1 DEF Next, PingCall, PingRefused, PingReturn, ReplyLost, StrayPing, Crash, Restart,
       VSTick, TimePasses, pbVars
  <2>3. ASSUME NEW s \in Servers, NEW n \in Nat, PingAccepted(s, n) \/ PingRejected(s, n),
               n = pbview[s].Viewnum \/ <<s, n>> \in strays
        PROVE  view.Viewnum \in entered
    <3>1. Acked(s, n)
      BY <2>3 DEF PingAccepted, PingRejected, PingFirst, PingAdopt, PingKeep
    <3> QED
      BY <2>2, <2>3, <3>1, AckLemma
  <2>4. ASSUME NEW s \in Servers, PingCall(s) \/ PingRefused(s) PROVE view.Viewnum \in entered
    BY <2>3, <2>4 DEF PingCall, PingRefused, TypeOK, View
  <2>5. ASSUME NEW s \in Servers, NEW n \in 0 .. env.views, StrayPing(s, n)
        PROVE  view.Viewnum \in entered
    BY <2>3, <2>5, EnvironmentType DEF StrayPing
  <2>6. ASSUME NEW s \in Servers, PingReturn(s) \/ ReplyLost(s) \/ Crash(s) \/ Restart(s)
        PROVE  FALSE
    BY <2>6 DEF PingReturn, ReplyLost, Crash, Restart, vsVars
  <2>7. ~ VSTick /\ ~ TimePasses
    BY DEF VSTick, Tick, TimePasses, Elapse
  <2> QED
    BY <2>1, <2>4, <2>5, <2>6, <2>7 DEF Next
<1>2. ASSUME TypeOK, VSInv, HistInv, [Next]_vars PROVE [A]_vars
  BY <1>1, <1>2 DEF vars, vsVars
<1> QED
  BY <1>2, SystemInv, SystemHist, TypeCorrect, PTL DEF Spec, NoNewViewBeforeAck

-----------------------------------------------------------------------------
(* Why a server loses its role.  Lines 65-67 drop a primary that pings with *)
(* 0, and tick one that is silent: each has a cause in lost or strays.      *)

\* What a handler answers is a view, not its absence.
RepliesNumbered == \A s \in Servers : reply[s] # None => reply[s].Viewnum > 0

\* A server that never heard of a view and lost nothing has never pinged, so
\* it has no role and no request under way.
Unheard(s) == s \notin lost /\ pbview[s] = NoView /\ reply[s] = None
UnheardIdle ==
    \A s \in Servers : Unheard(s) =>
        /\ s \notin {view.Primary, view.Backup, newView.Primary, newView.Backup}
        /\ s \notin {x[1] : x \in strays}

\* Silence is noted.
SilentLost == view.Viewnum > 0 => Silent \subseteq lost

\* The next view nv deposes nobody in vain.
Caused(nv) ==
    view.Primary # None =>
        /\ nv.Primary # view.Primary => view.Primary \in Troubled
        /\ view.Backup \notin {nv.Primary, nv.Backup, None}
              => {view.Primary, view.Backup} \cap Troubled # {}

CauseInv == vsRestarts = 0 => RepliesNumbered /\ UnheardIdle /\ SilentLost /\ Caused(newView)

\* Ping n of server me is on its way: of the running process, which sends the
\* number of its view, or left over.
Sends(me, n) ==
    \/ n = pbview[me].Viewnum /\ reply[me] = None
    \/ <<me, n>> \in strays

\* A primary that is dropped by its ping with 0 has lost its memory.
LEMMA RestartedTroubled ==
    ASSUME TypeOK, HistInv, CauseInv, vsRestarts = 0, NEW me \in Servers,
           Sends(me, 0), view.Primary = me
    PROVE  me \in Troubled
<1>1. CASE <<me, 0>> \in strays
  BY <1>1 DEF Troubled
<1>2. CASE 0 = pbview[me].Viewnum /\ reply[me] = None
  <2>1. pbview[me] \in Heard(me)
    BY NoReplyAssumption DEF Heard, TypeOK
  <2>2. pbview[me] = NoView
    BY <1>2, <2>1 DEF HistInv, AgreeInv
  <2>3. ~ Unheard(me)
    BY DEF CauseInv, UnheardIdle
  <2> QED
    BY <1>2, <2>2, <2>3 DEF Unheard, Troubled
<1> QED
  BY <1>1, <1>2 DEF Sends

\* The view prepared by a ping (lines 64-91) gives roles only to the holders
\* of roles and to the caller, and deposes nobody in vain.
LEMMA PreparedCaused ==
    ASSUME TypeOK, HistInv, CauseInv, vsRestarts = 0, NEW me \in Servers, NEW n \in Nat,
           Sends(me, n)
    PROVE  /\ Caused(Prepared(me, n))
           /\ {Prepared(me, n).Primary, Prepared(me, n).Backup}
                  \subseteq {newView.Primary, newView.Backup, me, None}
<1> DEFINE w == WithoutRestarted(me, n)
           c == CanPromote(me, n)
           p == Prepared(me, n)
<1>1. /\ w \in View
      /\ w.Primary \in {newView.Primary, None}
      /\ w.Backup = newView.Backup
  BY DEF WithoutRestarted, TypeOK, VSTypeOK, View
<1>2. Caused(w)
  <2>1. Caused(newView)
    BY DEF CauseInv
  <2>2. CASE w = newView
    BY <2>1, <2>2
  <2>3. CASE w # newView
    <3>1. view.Primary = me /\ n = 0
      BY <2>3 DEF WithoutRestarted
    <3>2. me \in Troubled
      BY <3>1, RestartedTroubled
    <3> QED
      BY <3>1, <3>2 DEF Caused
  <2> QED
    BY <2>2, <2>3
<1>3. p = Reassign(w, c, me)
  BY DEF Prepared
<1> HIDE DEF w, c, p
<1>4. CASE w.Primary = None /\ w.Backup = None
  <2>1. p = [Viewnum |-> w.Viewnum + 1, Primary |-> me, Backup |-> None]
    BY <1>3, <1>4 DEF Reassign
  <2> QED
    BY <1>1, <1>2, <1>4, <2>1 DEF Caused, p
<1>5. CASE w.Primary = None /\ w.Backup # None /\ c
  <2>1. p = [Viewnum |-> w.Viewnum + 1, Primary |-> w.Backup,
             Backup |-> IF w.Backup = me THEN None ELSE me]
    BY <1>3, <1>5 DEF Reassign
  <2> QED
    BY <1>1, <1>2, <1>5, <2>1 DEF Caused, p
<1>6. CASE w.Primary # None /\ w.Backup = None /\ w.Primary # me
  <2>1. p = [Viewnum |-> w.Viewnum + 1, Primary |-> w.Primary, Backup |-> me]
    BY <1>3, <1>6 DEF Reassign
  <2> QED
    BY <1>1, <1>2, <1>6, <2>1 DEF Caused, p
<1>7. CASE /\ ~ (w.Primary = None /\ w.Backup = None)
           /\ ~ (w.Primary = None /\ w.Backup # None /\ c)
           /\ ~ (w.Primary # None /\ w.Backup = None /\ w.Primary # me)
  <2>1. p = w
    BY <1>3, <1>7 DEF Reassign
  <2> QED
    BY <1>1, <1>2, <2>1 DEF p
<1> QED
  BY <1>4, <1>5, <1>6, <1>7

\* While the view stays, whatever has a cause keeps it.
LEMMA CausedStays ==
    ASSUME NEW nv, Caused(nv), UNCHANGED view, newView' = nv, Troubled \subseteq Troubled'
    PROVE  Caused(newView)'
  BY DEF Caused

\* One served ping keeps CauseInv: of the running process, which gets the
\* reply, or left over, which makes its sender one that is known to be lost.
LEMMA PingCause ==
    ASSUME TypeOK, TypeOK', VSInv, HistInv, CauseInv, vsRestarts = 0,
           NEW me \in Servers, NEW n \in Nat,
           Sends(me, n), PingAccepted(me, n), UNCHANGED pbview,
           \/ /\ reply' = [reply EXCEPT ![me] = view']
              /\ strays' = strays
              /\ NoteLost({})
           \/ /\ reply' = reply
              /\ <<me, n>> \in strays
              /\ strays' = strays \ {<<me, n>>}
              /\ NoteLost({me})
    PROVE  RepliesNumbered' /\ UnheardIdle' /\ SilentLost' /\ Caused(newView)'
<1>1. /\ view'.Viewnum > 0
      /\ view' = view \/ view'.Viewnum = view.Viewnum + 1
      /\ view.Viewnum \in Nat
  BY PingMovesOn DEF TypeOK, VSTypeOK, View
<1>2. RepliesNumbered /\ UnheardIdle /\ SilentLost /\ Caused(newView)
  BY DEF CauseInv
<1>3. \A s \in Servers : reply'[s] = reply[s] \/ (s = me /\ reply'[s] = view')
  BY DEF TypeOK
<1>4. RepliesNumbered'
  BY <1>1, <1>2, <1>3 DEF RepliesNumbered
<1>5. /\ \A s \in Servers : pbview[s] = NoView /\ s \in lost => s \in lost'
      /\ view' = view => lost \subseteq lost'
  BY DEF NoteLost
<1>6. {view'.Primary, view'.Backup, newView'.Primary, newView'.Backup}
          \subseteq {view.Primary, view.Backup, newView.Primary, newView.Backup, me, None}
  <2>1. CASE PingFirst(me, n)
    BY <2>1 DEF PingFirst
  <2>2. CASE PingAdopt(me, n)
    BY <2>2, PreparedCaused DEF PingAdopt, Renumbered
  <2>3. CASE PingKeep(me, n)
    BY <2>3, PreparedCaused DEF PingKeep
  <2> QED
    BY <2>1, <2>2, <2>3 DEF PingAccepted
<1>7. ~ Unheard(me)'
  <2>1. CASE reply' = [reply EXCEPT ![me] = view']
    <3>1. reply'[me] = view' /\ view' \in View
      BY <2>1 DEF TypeOK, VSTypeOK
    <3> QED
      BY <3>1, NoReplyAssumption DEF Unheard
  <2>2. CASE reply' = reply /\ <<me, n>> \in strays
    <3>1. me \in {x[1] : x \in strays}
      BY <2>2
    <3>2. ~ Unheard(me)
      BY <1>2, <3>1 DEF UnheardIdle
    <3> QED
      BY <1>5, <2>2, <3>2 DEF Unheard
  <2> QED
    BY <2>1, <2>2
<1>8. UnheardIdle'
  <2> SUFFICES ASSUME NEW s \in Servers, Unheard(s)'
               PROVE  /\ s \notin {view'.Primary, view'.Backup, newView'.Primary, newView'.Backup}
                      /\ s \notin {x[1] : x \in strays'}
    BY DEF UnheardIdle
  <2>1. s # me
    BY <1>7
  <2>2. Unheard(s)
    BY <1>3, <1>5, <2>1 DEF Unheard
  <2>3. strays' \subseteq strays /\ s # None
    BY NoneAssumption
  <2> QED
    BY <1>2, <1>6, <2>1, <2>2, <2>3 DEF UnheardIdle
<1>9. Silent' \subseteq Silent
  <2>1. age' = [age EXCEPT ![me] = 0]
    BY DEF PingAccepted, PingFirst, PingAdopt, PingKeep, Touch
  <2> QED
    BY <2>1, DeadPingsAssumption DEF Silent, TypeOK, VSTypeOK
<1>10. SilentLost'
  <2>1. CASE view' # view
    BY <2>1 DEF NoteLost, SilentLost
  <2>2. CASE view' = view
    BY <1>1, <1>2, <1>5, <1>9, <2>2 DEF SilentLost
  <2> QED
    BY <2>1, <2>2
<1>11. Caused(newView)'
  <2>1. CASE PingFirst(me, n) \/ PingAdopt(me, n)
    BY <2>1 DEF PingFirst, PingAdopt, Caused
  <2>2. CASE PingKeep(me, n)
    <3>1. newView' = Prepared(me, n) /\ view' = view
      BY <2>2 DEF PingKeep
    <3>2. Troubled \subseteq Troubled'
      <4>1. view' = view => (NoteLost({me}) => me \in lost')
        BY DEF NoteLost
      <4> QED
        BY <1>5, <3>1, <4>1 DEF Troubled
    <3> QED
      BY <3>1, <3>2, PreparedCaused, CausedStays
  <2> QED
    BY <2>1, <2>2 DEF PingAccepted
<1> QED
  BY <1>4, <1>8, <1>10, <1>11

\* A step that serves no ping keeps CauseInv, if what it takes from a server
\* is noted.
LEMMA QuietCause ==
    ASSUME CauseInv, vsRestarts = 0, UNCHANGED <<view, newView>>,
           lost \subseteq lost', strays \subseteq strays', RepliesNumbered', SilentLost',
           \A s \in Servers : Unheard(s)' =>
               Unheard(s) /\ (s \in {x[1] : x \in strays'} => s \in {x[1] : x \in strays})
    PROVE  RepliesNumbered' /\ UnheardIdle' /\ SilentLost' /\ Caused(newView)'
<1>1. RepliesNumbered /\ UnheardIdle /\ SilentLost /\ Caused(newView)
  BY DEF CauseInv
<1>2. UnheardIdle'
  BY <1>1 DEF UnheardIdle
<1>3. Troubled \subseteq Troubled'
  BY DEF Troubled
<1> QED
  BY <1>1, <1>2, <1>3, CausedStays

\* What tick vacates (server.go:124-139) was held by a silent server.
LEMMA TickCause ==
    ASSUME TypeOK, VSInv, CauseInv, vsRestarts = 0, Tick, UNCHANGED <<pbVars, lost>>
    PROVE  RepliesNumbered' /\ UnheardIdle' /\ SilentLost' /\ Caused(newView)'
<1>1. RepliesNumbered /\ UnheardIdle /\ SilentLost /\ Caused(newView)
  BY DEF CauseInv
<1>2. /\ newView'.Primary = IF Expired(newView.Primary) THEN None ELSE newView.Primary
      /\ newView'.Backup = IF Expired(newView.Backup) THEN None ELSE newView.Backup
      /\ UNCHANGED <<view, age, reply, pbview, strays, lost>>
  BY DEF Tick, pbVars
<1>3. RepliesNumbered' /\ SilentLost'
  BY <1>1, <1>2 DEF RepliesNumbered, SilentLost, Silent
<1>4. UnheardIdle'
  <2>1. \A s \in Servers : Unheard(s)' <=> Unheard(s)
    BY <1>2 DEF Unheard
  <2>2. newView'.Primary \in {newView.Primary, None} /\ newView'.Backup \in {newView.Backup, None}
    BY <1>2
  <2> QED
    BY <1>1, <1>2, <2>1, <2>2, NoneAssumption DEF UnheardIdle
<1>5. Caused(newView)'
  <2> SUFFICES ASSUME view.Primary # None
               PROVE  /\ newView'.Primary # view.Primary => view.Primary \in Troubled
                      /\ view.Backup \notin {newView'.Primary, newView'.Backup, None}
                            => {view.Primary, view.Backup} \cap Troubled # {}
    BY <1>2 DEF Caused, Troubled
  <2>1. view.Viewnum > 0
    BY DEF VSInv, FreshView, NoView, TypeOK, VSTypeOK, View
  <2>2. \A s \in Servers : Expired(s) => s \in Troubled
    BY <1>1, <2>1 DEF Expired, SilentLost, Silent, Troubled
  <2>3. view.Primary \in Servers /\ view.Backup \in Servers \cup {None}
    BY DEF TypeOK, VSTypeOK, View
  <2> QED
    BY <1>1, <1>2, <2>2, <2>3 DEF Caused
<1> QED
  BY <1>3, <1>4, <1>5

\* Every loss of a role has a cause, throughout.
LEMMA SystemCause == Spec => []CauseInv
<1>1. Init => CauseInv
  BY NoneAssumption DEF Init, VSInit, CauseInv, RepliesNumbered, UnheardIdle, SilentLost, Caused, NoView
<1>2. ASSUME TypeOK, TypeOK', VSInv, HistInv, CauseInv, Next PROVE CauseInv'
  <2> USE <1>2
  <2> DEFINE Goal == RepliesNumbered' /\ UnheardIdle' /\ SilentLost' /\ Caused(newView)'
  <2>0. SUFFICES ASSUME vsRestarts' = 0 PROVE Goal
    BY DEF CauseInv
  <2>a. ~ VSRestart
    BY <2>0 DEF VSRestart, TypeOK
  <2>b. vsRestarts = 0
    BY <2>0, <2>a DEF Next, PingCall, PingRefused, PingReturn, ReplyLost, StrayPing, Crash, Restart,
       VSTick, TimePasses, pbVars
  <2>c. RepliesNumbered /\ UnheardIdle /\ SilentLost
    BY <2>b DEF CauseInv
  <2>1. ASSUME NEW s \in Servers, PingCall(s) PROVE Goal
    <3>1. pbview[s].Viewnum \in Nat /\ Sends(s, pbview[s].Viewnum)
      BY <2>1 DEF TypeOK, View, PingCall, Sends
    <3> QED
      BY <2>1, <2>b, <3>1, PingCause DEF PingCall
  <2>2. ASSUME NEW s \in Servers, NEW n \in 0 .. env.views, StrayPing(s, n) PROVE Goal
    <3>1. n \in Nat /\ n <= view.Viewnum
      BY <2>2, <2>b, EnvironmentType DEF StrayPing, StraysEntered, HistInv
    <3>2. PingAccepted(s, n) /\ Sends(s, n)
      BY <2>2, <3>1 DEF StrayPing, PingRejected, TypeOK, VSTypeOK, View, Sends
    <3> QED
      BY <2>2, <2>b, <3>1, <3>2, PingCause DEF StrayPing
  <2>3. ASSUME NEW s \in Servers, PingReturn(s) PROVE Goal
    <3>1. /\ pbview' = [pbview EXCEPT ![s] = reply[s]]
          /\ reply' = [reply EXCEPT ![s] = None]
          /\ reply[s] # None
          /\ UNCHANGED <<view, newView, age, strays, lost>>
      BY <2>3 DEF PingReturn, vsVars
    <3>2. pbview'[s] # NoView
      BY <2>c, <3>1 DEF RepliesNumbered, NoView, TypeOK
    <3>3. \A t \in Servers : Unheard(t)' => Unheard(t)
      BY <3>1, <3>2 DEF Unheard, TypeOK
    <3>4. RepliesNumbered' /\ SilentLost'
      BY <2>c, <3>1 DEF RepliesNumbered, SilentLost, Silent, TypeOK
    <3> QED
      BY <2>b, <3>1, <3>3, <3>4, QuietCause
  <2>4. ASSUME NEW s \in Servers, ReplyLost(s) \/ Crash(s) PROVE Goal
    <3>1. /\ reply' = [reply EXCEPT ![s] = None]
          /\ \A t \in Servers \ {s} : pbview'[t] = pbview[t]
          /\ lost' = lost \cup {s}
          /\ strays \subseteq strays'
          /\ \A x \in strays' : x \in strays \/ x[1] = s
          /\ UNCHANGED <<view, newView, age>>
      BY <2>4 DEF ReplyLost, Crash, vsVars, TypeOK
    <3>2. \A t \in Servers : Unheard(t)' =>
             Unheard(t) /\ (t \in {x[1] : x \in strays'} => t \in {x[1] : x \in strays})
      BY <3>1 DEF Unheard, TypeOK
    <3>3. RepliesNumbered' /\ SilentLost'
      BY <2>c, <3>1 DEF RepliesNumbered, SilentLost, Silent, TypeOK
    <3> QED
      BY <2>b, <3>1, <3>2, <3>3, QuietCause
  <2>5. ASSUME NEW s \in Servers, PingRefused(s) \/ Restart(s) PROVE Goal
    <3>1. UNCHANGED <<view, newView, pbview, reply, strays, lost>>
      BY <2>5 DEF PingRefused, PingRejected, Restart, vsVars, pbVars
    <3>2. Silent' \subseteq Silent
      <4>1. age' = age \/ age' = [age EXCEPT ![s] = 0]
        BY <2>5 DEF PingRefused, PingRejected, Touch, Restart, vsVars
      <4> QED
        BY <4>1, DeadPingsAssumption DEF Silent, TypeOK, VSTypeOK
    <3>3. RepliesNumbered' /\ SilentLost' /\ \A t \in Servers : Unheard(t)' <=> Unheard(t)
      BY <2>c, <3>1, <3>2 DEF RepliesNumbered, SilentLost, Unheard
    <3> QED
      BY <2>b, <3>1, <3>3, QuietCause
  <2>6. CASE VSTick
    BY <2>6, <2>b, TickCause DEF VSTick
  <2>7. CASE TimePasses
    <3>1. UNCHANGED <<view, newView, pbview, reply, strays>> /\ lost' = lost \cup Silent'
      BY <2>7 DEF TimePasses, Elapse, pbVars
    <3>2. RepliesNumbered' /\ SilentLost' /\ \A t \in Servers : Unheard(t)' => Unheard(t)
      BY <2>c, <3>1 DEF RepliesNumbered, SilentLost, Unheard
    <3> QED
      BY <2>b, <3>1, <3>2, QuietCause
  <2> QED
    BY <2>a, <2>1, <2>2, <2>3, <2>4, <2>5, <2>6, <2>7 DEF Next
<1>3. ASSUME CauseInv, UNCHANGED vars PROVE CauseInv'
  BY <1>3 DEF vars, vsVars, pbVars, CauseInv, RepliesNumbered, UnheardIdle, Unheard, SilentLost, Silent,
     Caused, Troubled
<1> QED
  BY <1>1, <1>2, <1>3, TypeCorrect, SystemInv, SystemHist, PTL DEF Spec

\* A view change takes the primary's role only from a server that crashed, was
\* silent, missed a reply or has a request of a dead process under way, and
\* the backup's only if it or the primary is one.
THEOREM DeposedForACause == Spec => NobodyDeposedInVain
<1> DEFINE D == /\ view'.Primary # view.Primary => view.Primary \in Troubled
                /\ view.Backup \notin {view'.Primary, view'.Backup, None}
                      => {view.Primary, view.Backup} \cap Troubled # {}
           A == (view' # view /\ view.Viewnum > 0 /\ vsRestarts' = 0) => D
<1>1. ASSUME TypeOK, VSInv, HistInv, CauseInv, Next, view' # view, view.Viewnum > 0, vsRestarts' = 0
      PROVE  D
  <2> USE <1>1
  <2>1. ~ VSRestart
    BY DEF VSRestart, TypeOK
  <2>2. vsRestarts = 0
    BY <2>1 DEF Next, PingCall, PingRefused, PingReturn, ReplyLost, StrayPing, Crash, Restart,
       VSTick, TimePasses, pbVars
  <2>3. ASSUME NEW s \in Servers, NEW n \in Nat, PingAccepted(s, n) \/ PingRejected(s, n), Sends(s, n)
        PROVE  D
    <3>1. PingAdopt(s, n)
      BY <2>3 DEF PingAccepted, PingRejected, PingFirst, PingKeep
    <3>2. view'.Primary = Prepared(s, n).Primary /\ view'.Backup = Prepared(s, n).Backup
      BY <3>1 DEF PingAdopt, Renumbered
    <3>3. view.Primary # None
      BY <3>1, NoneAssumption DEF PingAdopt, Acked, VSInv, EmptyUnacked
    <3>4. Caused(Prepared(s, n))
      BY <2>2, <2>3, PreparedCaused
    <3> QED
      BY <3>2, <3>3, <3>4 DEF Caused
  <2>4. ASSUME NEW s \in Servers, PingCall(s) \/ PingRefused(s) PROVE D
    <3>1. pbview[s].Viewnum \in Nat /\ Sends(s, pbview[s].Viewnum)
      BY <2>4 DEF PingCall, PingRefused, Sends, TypeOK, View
    <3> QED
      BY <2>3, <2>4, <3>1 DEF PingCall, PingRefused
  <2>5. ASSUME NEW s \in Servers, NEW n \in 0 .. env.views, StrayPing(s, n) PROVE D
    BY <2>3, <2>5, EnvironmentType DEF StrayPing, Sends
  <2>6. ASSUME NEW s \in Servers, PingReturn(s) \/ ReplyLost(s) \/ Crash(s) \/ Restart(s)
        PROVE  FALSE
    BY <2>6 DEF PingReturn, ReplyLost, Crash, Restart, vsVars
  <2>7. ~ VSTick /\ ~ TimePasses
    BY DEF VSTick, Tick, TimePasses, Elapse
  <2> QED
    BY <2>1, <2>4, <2>5, <2>6, <2>7 DEF Next
<1>2. ASSUME TypeOK, VSInv, HistInv, CauseInv, [Next]_vars PROVE [A]_vars
  BY <1>1, <1>2 DEF vars, vsVars
<1> QED
  BY <1>2, SystemInv, SystemHist, SystemCause, TypeCorrect, PTL DEF Spec, NobodyDeposedInVain
=============================================================================
