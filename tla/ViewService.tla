------------------------------ MODULE ViewService ------------------------------
(***************************************************************************)
(* The view server together with the p/b servers that ping it (the tick    *)
(* of pbservice/server.go, as far as the view goes).  Each p/b server has  *)
(* one goroutine that pings, so at most one call of it is under way; the   *)
(* server may run other handlers between the one that serves the call and  *)
(* the caller's use of the reply.  P/b servers crash and restart with no   *)
(* memory; a request a dead incarnation sent may still be served later.    *)
(***************************************************************************)
EXTENDS ViewServer

CONSTANT
    Environments    \* what the service may be exposed to: each says which p/b
                    \* servers are run and which faults there are, and bounds
                    \* the number of the view in preparation, the crashes of
                    \* p/b servers and the restarts of the view server

FaultKinds ==
    { "lateping",   \* a live server may fail to ping for DeadPings intervals
      "lostreply",  \* a call may fail after its handler ran
      "straycall",  \* a request may outlive the process that sent it
      "anycrash" }  \* crashes at any time, not only when the view is settled

Environment ==
    [servers : SUBSET Servers, faults : SUBSET FaultKinds,
     views : Nat, crashes : Nat, restarts : Nat]

ASSUME NoReplyAssumption == None \notin View
ASSUME EnvironmentsAssumption == Environments \subseteq Environment

VARIABLES
    env,        \* the environment of this behaviour; it does not change
    up,         \* the p/b servers that are running
    pbview,     \* pbview[s] is the view s operates in (pb.view)
    reply,      \* reply[s] is the view in the reply under way to s, or None
    strays,     \* pings <<s, n>> sent by dead incarnations, not yet served
    crashes,    \* crashes so far
    vsRestarts, \* restarts of the view server so far
    entered,    \* history: view numbers whose primary has learnt of its role
    lost        \* history: servers that crashed, fell silent or missed a reply

pbVars == <<env, up, pbview, reply, strays, crashes, vsRestarts>>
vars == <<vsVars, pbVars, entered, lost>>

TypeOK ==
    /\ VSTypeOK
    /\ env \in Environments
    /\ up \subseteq Servers
    /\ pbview \in [Servers -> View]
    /\ reply \in [Servers -> View \cup {None}]
    /\ strays \subseteq Servers \X Nat
    /\ crashes \in Nat
    /\ vsRestarts \in Nat
    /\ entered \subseteq Nat
    /\ lost \subseteq Servers

Init ==
    /\ VSInit
    /\ env \in Environments
    /\ up = env.servers
    /\ pbview = [s \in Servers |-> NoView]
    /\ reply = [s \in Servers |-> None]
    /\ strays = {}
    /\ crashes = 0
    /\ vsRestarts = 0
    /\ entered = {}
    /\ lost = {}

Bounded == newView'.Viewnum <= env.views

\* Bookkeeping of lost: a new view starts afresh, except for the servers that
\* are silent and those that crashed and have not heard of a view since.
Silent == { s \in Servers : age[s] > DeadPings }
NoteLost(more) ==
    lost' = IF view' # view
            THEN Silent' \cup { s \in lost : pbview[s] = NoView }
            ELSE lost \cup more

-----------------------------------------------------------------------------
(* The ping of p/b server s.                                               *)

\* The view server serves the ping and sends the reply.
PingCall(s) ==
    /\ s \in up
    /\ reply[s] = None
    /\ PingAccepted(s, pbview[s].Viewnum)
    /\ Bounded
    /\ reply' = [reply EXCEPT ![s] = view']
    /\ NoteLost({})
    /\ UNCHANGED <<env, up, pbview, strays, crashes, vsRestarts, entered>>

\* The ping is refused: the caller sees an error and keeps its view.
PingRefused(s) ==
    /\ s \in up
    /\ reply[s] = None
    /\ PingRejected(s, pbview[s].Viewnum)
    /\ UNCHANGED <<pbVars, entered, lost>>

\* The reply arrives: s operates in the view it carries.
PingReturn(s) ==
    /\ reply[s] # None
    /\ pbview' = [pbview EXCEPT ![s] = reply[s]]
    /\ reply' = [reply EXCEPT ![s] = None]
    /\ entered' = IF reply[s].Primary = s THEN entered \cup {reply[s].Viewnum} ELSE entered
    /\ UNCHANGED <<vsVars, env, up, strays, crashes, vsRestarts, lost>>

\* The connection breaks before the reply arrives: an error for s.
ReplyLost(s) ==
    /\ "lostreply" \in env.faults
    /\ reply[s] # None
    /\ reply' = [reply EXCEPT ![s] = None]
    /\ lost' = lost \cup {s}
    /\ UNCHANGED <<vsVars, env, up, pbview, strays, crashes, vsRestarts, entered>>

\* A request of a dead incarnation is served; nobody reads the reply.
StrayPing(s, n) ==
    /\ <<s, n>> \in strays
    /\ PingAccepted(s, n) \/ PingRejected(s, n)
    /\ Bounded
    /\ strays' = strays \ {<<s, n>>}
    /\ NoteLost({s})
    /\ UNCHANGED <<env, up, pbview, reply, crashes, vsRestarts, entered>>

-----------------------------------------------------------------------------
(* Processes that stop and start, and time.                                *)

\* The primary knows the view, and a backup that knows it can take over.
Settled == update /\ promote /\ newView = view

\* Process s ends with all it knew; a request it sent may be on its way.  (kill
\* of the tests lets a ping that is under way go on; this does not.)
Crash(s) ==
    /\ s \in up
    /\ crashes < env.crashes
    /\ "anycrash" \in env.faults \/ Settled
    /\ up' = up \ {s}
    /\ pbview' = [pbview EXCEPT ![s] = NoView]
    /\ reply' = [reply EXCEPT ![s] = None]
    /\ \/ UNCHANGED strays
       \/ /\ "straycall" \in env.faults
          /\ reply[s] = None
          /\ strays' = strays \cup {<<s, pbview[s].Viewnum>>}
    /\ crashes' = crashes + 1
    /\ lost' = lost \cup {s}
    /\ UNCHANGED <<vsVars, env, vsRestarts, entered>>

\* A new process takes the name s; it knows of no view.
Restart(s) ==
    /\ s \in env.servers \ up
    /\ up' = up \cup {s}
    /\ UNCHANGED <<vsVars, env, pbview, reply, strays, crashes, vsRestarts, entered, lost>>

\* The view server dies and a new one starts; replies under way are lost.
VSRestart ==
    /\ vsRestarts < env.restarts
    /\ VSStart
    /\ reply' = [s \in Servers |-> None]
    /\ vsRestarts' = vsRestarts + 1
    /\ lost' = {}
    /\ UNCHANGED <<env, up, pbview, strays, crashes, entered>>

VSTick ==
    /\ Tick
    /\ Bounded
    /\ UNCHANGED <<pbVars, entered, lost>>

\* Time goes by; without "lateping" a live server pings often enough.
TimePasses ==
    /\ "lateping" \in env.faults \/ \A s \in up : age[s] # DeadPings
    /\ Elapse
    /\ lost' = lost \cup Silent'
    /\ UNCHANGED <<pbVars, entered>>

Next ==
    \/ \E s \in Servers :
          \/ PingCall(s)
          \/ PingRefused(s)
          \/ PingReturn(s)
          \/ ReplyLost(s)
          \/ \E n \in 0 .. env.views : StrayPing(s, n)
          \/ Crash(s)
          \/ Restart(s)
    \/ VSRestart
    \/ VSTick
    \/ TimePasses

Spec == Init /\ [][Next]_vars

-----------------------------------------------------------------------------
(* Safety.                                                                 *)

\* A view number names one view: servers that operate in views of one number
\* (or are about to) have the same primary and backup in mind, and nobody is
\* ahead of the view server, so it refuses no ping (server.go:46-48).
Heard(s) == { v \in {pbview[s], reply[s]} : v # None }
ViewsAgree ==
    vsRestarts = 0 =>
        \A s, t \in Servers : \A v \in Heard(s), w \in Heard(t) \cup {view} :
            /\ v.Viewnum <= view.Viewnum
            /\ v.Viewnum = w.Viewnum => v = w

\* The view server leaves a view only after the view's primary has operated
\* in it (common.go:29-33): that server had received the reply with the view,
\* whatever is lost, late or left over from its earlier incarnations.
NoNewViewBeforeAck ==
    [][(view' # view /\ view.Viewnum > 0 /\ vsRestarts' = 0)
          => view.Viewnum \in entered]_vars

\* Nobody is deposed without a cause: the primary changes only if it crashed,
\* fell silent for more than DeadPings intervals, missed a reply or has a
\* request of a dead process under way; the backup only if it or the primary
\* did.
Troubled == lost \cup {x[1] : x \in strays}
NobodyDeposedInVain ==
    [][(view' # view /\ view.Viewnum > 0 /\ vsRestarts' = 0) =>
          /\ view'.Primary # view.Primary => view.Primary \in Troubled
          /\ view.Backup \notin {view'.Primary, view'.Backup, None}
                => {view.Primary, view.Backup} \cap Troubled # {}]_vars

-----------------------------------------------------------------------------
(* What a comment or the README says, and the code does not do.            *)

\* common.go:9-10: "numbered views, each with a primary and (if possible) a
\* backup"; lab4/pbservice/README:8: if the primary dies its backup takes its
\* place, on the condition that it has received the current view.  Even if the
\* backup was never lost and operates in the view, the view that replaces it may
\* have no primary (lines 73-74 leave the role empty until the backup itself
\* has pinged with the number, and line 96 adopts that at anybody's ping).
BackupTakesOver ==
    [][(view' # view /\ vsRestarts' = 0 /\ view.Backup \notin Troubled \cup {None}
          /\ pbview[view.Backup] = view)
          => view'.Primary # None]_vars

\* common.go:14-16: "The primary in a view is always either the primary or the
\* backup of the previous view (in order to ensure that the p/b service's state
\* is preserved)."  Even when only the case is asked in which the previous view
\* had a backup that was never lost, a primary that restarts before it
\* acknowledged the view has that backup dropped (line 66).
PrimaryFromPreviousView ==
    [][(view' # view /\ view.Viewnum > 0 /\ vsRestarts' = 0
          /\ view'.Primary \notin {view.Primary, view.Backup, None})
          => {view.Primary, view.Backup} \subseteq Troubled \cup {None}]_vars
=============================================================================
