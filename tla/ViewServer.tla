------------------------------ MODULE ViewServer ------------------------------
(***************************************************************************)
(* The view server of lab4/pbservice/src/viewservice: its state and its    *)
(* handlers.  Ping, tick and the start of the server are one action each;  *)
(* the Go string "" is None.  The wall clock enters only through           *)
(* time.Since-style comparisons, so it is kept as age[s], the number of    *)
(* whole PingIntervals since s last pinged, saturated at DeadPings + 1: an *)
(* absent map entry (the zero time) is such a saturated age.               *)
(*                                                                         *)
(* Line numbers are those of server.go.  A few operators, each right       *)
(* before the one it varies, are that operator with a plausible bug        *)
(* (ReassignSelfBackup, Acked..., Renumbered..., ExpiredEarly, Tick...);   *)
(* nothing uses them but the runs that confirm that a property notices.    *)
(***************************************************************************)
EXTENDS Integers

CONSTANTS
    Servers,    \* the p/b servers, by "host:port"
    None,       \* the empty string: no server holds the role
    DeadPings   \* missed pings after which a server is declared dead

ASSUME NoneAssumption == None \notin Servers
ASSUME DeadPingsAssumption == DeadPings \in Nat

VARIABLES
    view,       \* the current view
    newView,    \* the next view, in preparation
    update,     \* the current primary has acknowledged: view may be replaced
    promote,    \* the backup may be promoted to primary
    age         \* lastPing, as intervals since the last ping of each server

vsVars == <<view, newView, update, promote, age>>

View == [Viewnum : Nat, Primary : Servers \cup {None}, Backup : Servers \cup {None}]

NoView == [Viewnum |-> 0, Primary |-> None, Backup |-> None]

VSTypeOK ==
    /\ view \in View
    /\ newView \in View
    /\ update \in BOOLEAN
    /\ promote \in BOOLEAN
    /\ age \in [Servers -> 0 .. DeadPings + 1]

VSInit ==
    /\ view = NoView
    /\ newView = NoView
    /\ update = FALSE
    /\ promote = FALSE
    /\ age = [s \in Servers |-> DeadPings + 1]

\* A new process of the view server: nothing is persisted.
VSStart ==
    /\ view' = NoView
    /\ newView' = NoView
    /\ update' = FALSE
    /\ promote' = FALSE
    /\ age' = [s \in Servers |-> DeadPings + 1]

-----------------------------------------------------------------------------
(* The Ping handler: me pings with n, the latest view number it knows.     *)

\* The time of the next ping due instead of the time of this one.
TouchAhead(me) == age' = [age EXCEPT ![me] = -1]

Touch(me) == age' = [age EXCEPT ![me] = 0]

\* Lines 60-62: the backup's own ping says whether it knows the view.
CanPromote(me, n) == IF view.Backup = me THEN n = view.Viewnum ELSE promote

\* Lines 65-67: a primary that pings with 0 has restarted, and is dropped.
WithoutRestarted(me, n) ==
    IF view.Primary = me /\ n = 0 THEN [newView EXCEPT !.Primary = None] ELSE newView

ReassignSelfBackup(nv, canPromote, me) ==
    CASE nv.Primary = None /\ nv.Backup = None ->
           [Viewnum |-> nv.Viewnum + 1, Primary |-> me, Backup |-> None]
      [] nv.Primary = None /\ nv.Backup # None /\ canPromote ->
           [Viewnum |-> nv.Viewnum + 1, Primary |-> nv.Backup, Backup |-> me]
      [] nv.Primary # None /\ nv.Backup = None /\ nv.Primary # me ->
           [Viewnum |-> nv.Viewnum + 1, Primary |-> nv.Primary, Backup |-> me]
      [] OTHER -> nv

\* Lines 70-91: fill the vacant roles of the next view.
Reassign(nv, canPromote, me) ==
    CASE nv.Primary = None /\ nv.Backup = None ->
           [Viewnum |-> nv.Viewnum + 1, Primary |-> me, Backup |-> None]
      [] nv.Primary = None /\ nv.Backup # None /\ canPromote ->
           [Viewnum |-> nv.Viewnum + 1,
            Primary |-> nv.Backup,
            Backup |-> IF nv.Backup = me THEN None ELSE me]
      [] nv.Primary # None /\ nv.Backup = None /\ nv.Primary # me ->
           [Viewnum |-> nv.Viewnum + 1, Primary |-> nv.Primary, Backup |-> me]
      [] OTHER -> nv

Prepared(me, n) == Reassign(WithoutRestarted(me, n), CanPromote(me, n), me)

RenumberedSame(nv, num) == [Viewnum |-> num - 1, Primary |-> nv.Primary, Backup |-> nv.Backup]

\* Line 97: the new view follows the current one, whatever number nv reached.
Renumbered(nv, num) == [Viewnum |-> num, Primary |-> nv.Primary, Backup |-> nv.Backup]

AckedByAnyNumber(me, n) == update \/ view.Primary = me

\* Line 94: the primary of the current view acknowledges it.
Acked(me, n) == update \/ (view.Primary = me /\ view.Viewnum = n)

\* Lines 46-48: a caller that is ahead of the server gets an error.
PingRejected(me, n) ==
    /\ view.Viewnum < n
    /\ Touch(me)
    /\ UNCHANGED <<view, newView, update, promote>>

\* Lines 51-57: the first server that pings becomes the primary of view 1.
PingFirst(me, n) ==
    /\ n = 0 /\ view.Viewnum = 0
    /\ Touch(me)
    /\ newView' = [Viewnum |-> newView.Viewnum + 1, Primary |-> me, Backup |-> newView.Backup]
    /\ view' = newView'
    /\ UNCHANGED <<update, promote>>

\* Lines 96-100, condition true: the prepared view becomes the current one.
PingAdopt(me, n) ==
    /\ n <= view.Viewnum /\ view.Viewnum # 0
    /\ Acked(me, n)
    /\ Prepared(me, n).Viewnum # view.Viewnum
    /\ Touch(me)
    /\ promote' = CanPromote(me, n)
    /\ newView' = Renumbered(Prepared(me, n), view.Viewnum + 1)
    /\ view' = newView'
    /\ update' = FALSE

\* Lines 96-100, condition false.
PingKeep(me, n) ==
    /\ n <= view.Viewnum /\ view.Viewnum # 0
    /\ ~ (Acked(me, n) /\ Prepared(me, n).Viewnum # view.Viewnum)
    /\ Touch(me)
    /\ promote' = CanPromote(me, n)
    /\ newView' = Prepared(me, n)
    /\ update' = Acked(me, n)
    /\ UNCHANGED view

PingAccepted(me, n) == PingFirst(me, n) \/ PingAdopt(me, n) \/ PingKeep(me, n)

-----------------------------------------------------------------------------
(* tick, and the clock it reads.                                           *)

ExpiredEarly(s) == s # None /\ age[s] >= DeadPings

Expired(s) == s # None /\ age[s] > DeadPings

TickUnnumbered ==
    /\ newView' = [newView EXCEPT
          !.Primary = IF Expired(@) THEN None ELSE @,
          !.Backup = IF Expired(@) THEN None ELSE @]
    /\ UNCHANGED <<view, update, promote, age>>

TickPrimaryOnly ==
    /\ newView' = IF Expired(newView.Primary)
                  THEN [newView EXCEPT !.Viewnum = @ + 1, !.Primary = None]
                  ELSE newView
    /\ UNCHANGED <<view, update, promote, age>>

\* A role of the next view whose holder is dead is vacated.
Tick ==
    /\ newView' = [
          Viewnum |-> newView.Viewnum + (IF Expired(newView.Primary) THEN 1 ELSE 0)
                                      + (IF Expired(newView.Backup) THEN 1 ELSE 0),
          Primary |-> IF Expired(newView.Primary) THEN None ELSE newView.Primary,
          Backup |-> IF Expired(newView.Backup) THEN None ELSE newView.Backup]
    /\ UNCHANGED <<view, update, promote, age>>

\* One PingInterval of wall-clock time goes by.
Elapse ==
    /\ age' = [s \in Servers |-> IF age[s] > DeadPings THEN DeadPings + 1 ELSE age[s] + 1]
    /\ UNCHANGED <<view, newView, update, promote>>

-----------------------------------------------------------------------------
(* Safety, in whatever system the view server is.                          *)

\* No server is primary and backup at once, neither in the view the servers
\* see nor in the one in preparation: the promotions, refills and expiries of
\* server.go:64-91 and tick compose to that.
DistinctRoles(v) == v.Primary = v.Backup => v.Primary = None
RolesDistinct == DistinctRoles(view) /\ DistinctRoles(newView)

\* A pending change is never forgotten: as long as the next view bears the
\* number of the current one, no role was reassigned in it; at most the
\* restarted primary is dropped, which lines 64-67 do without a new number.
PendingChangeNumbered ==
    /\ view.Viewnum <= newView.Viewnum
    /\ newView.Viewnum = view.Viewnum =>
          /\ newView.Backup = view.Backup
          /\ newView.Primary \in {view.Primary, None}
=============================================================================
