---------------------------- MODULE ViewServerRaces ----------------------------
(***************************************************************************)
(* The view server with handlers that interleave.  Ping holds the mutex    *)
(* only for lines 41-43 of server.go; the blocks of its body, each a step  *)
(* here, run between those of other pings and of tick, whose mutex nobody  *)
(* else takes for the views.  net/rpc serves each request in a goroutine   *)
(* of its own, and each p/b server has one ping under way.                 *)
(*                                                                         *)
(* Blocks really interleave at a finer grain still: what happens here can  *)
(* happen in the program, and more can happen there.                       *)
(***************************************************************************)
EXTENDS ViewServer

CONSTANT MaxViewnum     \* bound on the number of the view in preparation

VARIABLES
    pc,         \* of each p/b server's ping: the next block of its handler
    num,        \* args.Viewnum of that ping, the view its sender operates in
    pbview,     \* of each p/b server: the view it operates in
    reply,      \* of each p/b server: reply.View of its ping
    tickPc,     \* the next statement of tick
    entered     \* history: view numbers whose primary has learnt of its role

pingVars == <<pc, num, pbview, reply, entered>>
vars == <<vsVars, pingVars, tickPc>>

Init ==
    /\ VSInit
    /\ pc = [s \in Servers |-> "idle"]
    /\ num = [s \in Servers |-> 0]
    /\ pbview = [s \in Servers |-> NoView]
    /\ reply = [s \in Servers |-> NoView]
    /\ tickPc = "idle"
    /\ entered = {}

Goto(s, label) == pc' = [pc EXCEPT ![s] = label]
Step(s, from, to) ==
    /\ pc[s] = from
    /\ Goto(s, to)
    /\ UNCHANGED <<num, pbview, entered, tickPc>>

-----------------------------------------------------------------------------
(* Ping: lines 41-43, under the mutex, and the blocks of the body.         *)

Begin(s) ==
    /\ pc[s] = "idle"
    /\ tickPc = "idle"
    /\ Touch(s)
    /\ num' = [num EXCEPT ![s] = pbview[s].Viewnum]
    /\ Goto(s, "compare")
    /\ UNCHANGED <<view, newView, update, promote, pbview, reply, entered, tickPc>>

\* Lines 46-51.
Compare(s) ==
    /\ Step(s, "compare", IF view.Viewnum < num[s] THEN "idle"
                          ELSE IF view.Viewnum = 0 THEN "first" ELSE "promote")
    /\ UNCHANGED <<vsVars, reply>>

\* Lines 52-53, 54.
FirstPrepare(s) ==
    /\ Step(s, "first", "firstAdopt")
    /\ newView' = [newView EXCEPT !.Primary = s, !.Viewnum = @ + 1]
    /\ UNCHANGED <<view, update, promote, age, reply>>

FirstAdopt(s) ==
    /\ Step(s, "firstAdopt", "answer")
    /\ view' = newView
    /\ UNCHANGED <<newView, update, promote, age, reply>>

\* Lines 60-62.
Promote(s) ==
    /\ Step(s, "promote", "restarted")
    /\ promote' = CanPromote(s, num[s])
    /\ UNCHANGED <<view, newView, update, age, reply>>

\* Lines 65-67.
DropRestarted(s) ==
    /\ Step(s, "restarted", "reassign")
    /\ newView' = WithoutRestarted(s, num[s])
    /\ UNCHANGED <<view, update, promote, age, reply>>

\* Lines 70-91.
Fill(s) ==
    /\ Step(s, "reassign", "acknowledge")
    /\ newView' = Reassign(newView, promote, s)
    /\ UNCHANGED <<view, update, promote, age, reply>>

\* Line 94.
Acknowledge(s) ==
    /\ Step(s, "acknowledge", "adopt")
    /\ update' = Acked(s, num[s])
    /\ UNCHANGED <<view, newView, promote, age, reply>>

\* Lines 96-100.
Adopt(s) ==
    /\ Step(s, "adopt", "answer")
    /\ IF update /\ newView.Viewnum # view.Viewnum
       THEN /\ newView' = Renumbered(newView, view.Viewnum + 1)
            /\ view' = newView'
            /\ update' = FALSE
       ELSE UNCHANGED <<view, newView, update>>
    /\ UNCHANGED <<promote, age, reply>>

\* Lines 55 and 101.
Answer(s) ==
    /\ Step(s, "answer", "return")
    /\ reply' = [reply EXCEPT ![s] = view]
    /\ UNCHANGED vsVars

\* The reply arrives: s operates in the view it carries.
Return(s) ==
    /\ pc[s] = "return"
    /\ Goto(s, "idle")
    /\ pbview' = [pbview EXCEPT ![s] = reply[s]]
    /\ entered' = IF reply[s].Primary = s THEN entered \cup {reply[s].Viewnum} ELSE entered
    /\ UNCHANGED <<vsVars, num, reply, tickPc>>

Ping(s) ==
    \/ Begin(s) \/ Compare(s) \/ FirstPrepare(s) \/ FirstAdopt(s)
    \/ Promote(s) \/ DropRestarted(s) \/ Fill(s) \/ Acknowledge(s) \/ Adopt(s)
    \/ Answer(s) \/ Return(s)

-----------------------------------------------------------------------------
(* tick, one role at a time, with the mutex that only Begin needs too.     *)

TickPrimary ==
    /\ tickPc = "idle"
    /\ newView' = IF Expired(newView.Primary)
                  THEN [newView EXCEPT !.Primary = None, !.Viewnum = @ + 1] ELSE newView
    /\ tickPc' = "backup"
    /\ UNCHANGED <<view, update, promote, age, pingVars>>

TickBackup ==
    /\ tickPc = "backup"
    /\ newView' = IF Expired(newView.Backup)
                  THEN [newView EXCEPT !.Backup = None, !.Viewnum = @ + 1] ELSE newView
    /\ tickPc' = "idle"
    /\ UNCHANGED <<view, update, promote, age, pingVars>>

TimePasses == Elapse /\ UNCHANGED <<pingVars, tickPc>>

Bounded == newView'.Viewnum <= MaxViewnum

Next ==
    \/ \E s \in Servers : Ping(s) /\ Bounded
    \/ (TickPrimary \/ TickBackup) /\ Bounded
    \/ TimePasses

Spec == Init /\ [][Next]_vars

-----------------------------------------------------------------------------
\* "The view server will not proceed to a new view until the primary from the
\* current view acknowledges that it is operating in the current view"
\* (common.go:29-31): that primary has then received the view.
ProceedsWhenAcknowledged ==
    [][(view' # view /\ view.Viewnum > 0) => view.Viewnum \in entered]_vars
=============================================================================
