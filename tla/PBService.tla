------------------------------ MODULE PBService ------------------------------
(***************************************************************************)
(* The primary/backup key/value service of lab4/pbservice/src/pbservice on *)
(* top of the view server: p/b servers that ping (tick), serve Get, Put,   *)
(* ForwardPut and MoveDB, and clerks that call them.                       *)
(*                                                                         *)
(* Every RPC is synchronous, so a caller and the handlers that work for it *)
(* form a stack of frames, each on a machine of its own; the top frame is  *)
(* the one that runs.  A thread is such a stack: one per clerk, one per    *)
(* server for its tick.  When a connection breaks, the frames above the    *)
(* break run on without anyone to reply to; they become the left-over      *)
(* thread of the same owner.                                               *)
(*                                                                         *)
(* Line numbers are those of pbservice/server.go.  PutEnterRefuses,        *)
(* WrittenSwapped, PutForwardNever, PutForwardNoBreak,                     *)
(* PutForwardedKeepsLock, TickViewAnyRole, TickViewOnly and                *)
(* TickMoveUnlocked are their successors with a plausible bug, used only   *)
(* to see a property notice.                                               *)
(***************************************************************************)
EXTENDS ViewServer, SequencesExt

CONSTANTS
    Clerks,         \* clients of the service
    Keys,           \* keys of the database
    Environments,   \* what the service may be exposed to: each says which
                    \* faults there are, which clerks Put and which Get, and
                    \* bounds the number of the view in preparation, crashes
                    \* and Puts
    MaxDepth        \* bound on the frames below a call that is relayed again

FaultKinds ==
    { "lateping",   \* a live server may fail to ping for DeadPings intervals,
                    \* a left-over call may take as long
      "lostping",   \* a Ping call may fail, before or after its handler ran
      "lostcall",   \* a request to a p/b server may be discarded (unreliable)
      "lostreply",  \* ... or its reply may be, with the request served
      "anycrash",   \* crashes at any time, not only when the view is settled
      "restart" }   \* a crashed server may come back, with an empty database

Environment ==
    [faults : SUBSET FaultKinds, writers : SUBSET Clerks, readers : SUBSET Clerks,
     views : Nat, crashes : Nat, puts : Nat]

ASSUME ClerksAssumption == Clerks \cap Servers = {} /\ None \notin Clerks
ASSUME EnvironmentsAssumption == Environments \subseteq Environment
ASSUME PBBoundsAssumption == MaxDepth \in Nat

VARIABLES
    env,        \* the environment of this behaviour; it does not change
    up,         \* the p/b servers that run
    pbview,     \* pb.view
    connected,  \* pb.connected: the last ping succeeded
    db,         \* pb.db; 0 stands for a key that is absent
    locked,     \* pb.mu is held
    stack,      \* the frames of every thread
    crashes,    \* crashes so far
    puts,       \* Puts started so far; each writes its own number
    begun,      \* history: per Put, its key, and which Puts had returned
    stored,     \* history: values a server has stored as primary
    acked,      \* history: values whose Put has returned to the clerk
    floor       \* history: per key, the latest value a clerk knows to be there

pbVars == <<env, up, pbview, connected, db, locked, crashes>>
clerkVars == <<puts, begun, stored, acked, floor>>
vars == <<vsVars, pbVars, stack, clerkVars>>

Owners == Clerks \cup Servers
Live(o) == <<o, "live">>
Left(o) == <<o, "left">>
Threads == Owners \X {"live", "left"}

NoRes == [err |-> "none", val |-> 0]
Fail == [err |-> "fail", val |-> 0]
OK == [err |-> "OK", val |-> 0]
WrongServer == [err |-> "ErrWrongServer", val |-> 0]
NoKey == [err |-> "ErrNoKey", val |-> 0]

Frame(at, op, arg) == [at |-> at, op |-> op, pc |-> "start", arg |-> arg, res |-> NoRes]

Empty == [k \in Keys |-> 0]

Init ==
    /\ VSInit
    /\ env \in Environments
    /\ up = Servers
    /\ pbview = [s \in Servers |-> NoView]
    /\ connected = [s \in Servers |-> TRUE]
    /\ db = [s \in Servers |-> Empty]
    /\ locked = [s \in Servers |-> FALSE]
    /\ stack = [t \in Threads |-> <<>>]
    /\ crashes = 0
    /\ puts = 0
    /\ begun = <<>>
    /\ stored = {}
    /\ acked = {}
    /\ floor = Empty

-----------------------------------------------------------------------------
(* Frames and calls.                                                       *)

Running(t, op, pc) == stack[t] # <<>> /\ Last(stack[t]).op = op /\ Last(stack[t]).pc = pc
Top(t) == Last(stack[t])

\* The stack with its top frame at pc, with the result of its last call.
At(st, pc, res) == Front(st) \o << [Last(st) EXCEPT !.pc = pc, !.res = res] >>

Goto(t, pc) == stack' = [stack EXCEPT ![t] = At(@, pc, NoRes)]
Become(t, op) == stack' = [stack EXCEPT ![t] = Front(@) \o << Frame(Last(@).at, op, Last(@).arg) >>]

\* The top frame ends; the frame below, if any, has the result.
Popped(st, res) == IF Len(st) = 1 THEN <<>> ELSE At(Front(st), "ret", res)
Return(t, res) == stack' = [stack EXCEPT ![t] = Popped(@, res)]

\* call(): the frame waits for the handler, or has an error at once if the
\* server does not run, or discards the request, or the reply.
Call(t, srv, op, arg) ==
    \/ /\ srv \in up
       /\ stack' = [stack EXCEPT ![t] = At(@, "wait", NoRes) \o << Frame(srv, op, arg) >>]
    \/ /\ srv \notin up \/ "lostcall" \in env.faults
       /\ stack' = [stack EXCEPT ![t] = At(@, "ret", Fail)]
    \/ /\ srv \in up
       /\ "lostreply" \in env.faults
       /\ t[2] = "live"
       /\ stack[Left(t[1])] = <<>>
       /\ stack' = [stack EXCEPT ![t] = At(@, "ret", Fail),
                                 ![Left(t[1])] = << Frame(srv, op, arg) >>]

-----------------------------------------------------------------------------
(* The clerk (client.go).                                                  *)

StartPut(c) ==
    /\ c \in env.writers
    /\ stack[Live(c)] = <<>>
    /\ puts < env.puts
    /\ puts' = puts + 1
    /\ \E k \in Keys :
          /\ begun' = Append(begun, [key |-> k, after |-> acked])
          /\ stack' = [stack EXCEPT ![Live(c)] = << Frame(c, "ClerkPut", <<k, puts'>>) >>]
    /\ UNCHANGED <<vsVars, pbVars, stored, acked, floor>>

\* The value that is there already is remembered with the call.
StartGet(c) ==
    /\ c \in env.readers
    /\ stack[Live(c)] = <<>>
    /\ \E k \in Keys :
          stack' = [stack EXCEPT ![Live(c)] = << Frame(c, "ClerkGet", <<k, floor[k]>>) >>]
    /\ UNCHANGED <<vsVars, pbVars, clerkVars>>

\* Ask the view server for the primary and call it.
ClerkCall(c) ==
    /\ view.Primary # None
    /\ \/ Running(Live(c), "ClerkPut", "start")
          /\ Call(Live(c), view.Primary, "Put", Top(Live(c)).arg)
       \/ Running(Live(c), "ClerkGet", "start")
          /\ Call(Live(c), view.Primary, "Get", Top(Live(c)).arg)
    /\ UNCHANGED <<vsVars, pbVars, clerkVars>>

Known(k, v) == floor' = [floor EXCEPT ![k] = IF v > @ THEN v ELSE @]

\* Put ends as soon as a call went through, whatever error its reply holds.
ClerkPutReturn(c) ==
    /\ Running(Live(c), "ClerkPut", "ret")
    /\ LET f == Top(Live(c)) IN
       IF f.res.err = "fail"
       THEN /\ Goto(Live(c), "start")
            /\ UNCHANGED <<acked, floor>>
       ELSE /\ Return(Live(c), OK)
            /\ acked' = acked \cup {f.arg[2]}
            /\ Known(f.arg[1], f.arg[2])
    /\ UNCHANGED <<vsVars, pbVars, puts, begun, stored>>

\* Get ends only with OK; ErrNoKey and ErrWrongServer are tried again.
ClerkGetReturn(c) ==
    /\ Running(Live(c), "ClerkGet", "ret")
    /\ LET f == Top(Live(c)) IN
       IF f.res.err = "OK"
       THEN Return(Live(c), OK) /\ Known(f.arg[1], f.res.val)
       ELSE Goto(Live(c), "start") /\ UNCHANGED floor
    /\ UNCHANGED <<vsVars, pbVars, puts, begun, stored, acked>>

-----------------------------------------------------------------------------
(* The handlers of a p/b server (server.go:28-107).                        *)

\* Get serves any server that has a connection to the view server.
GetEnter(t) ==
    /\ Running(t, "Get", "start")
    /\ IF connected[Top(t).at] THEN Goto(t, "lock") ELSE Return(t, WrongServer)
    /\ UNCHANGED <<vsVars, pbVars, clerkVars>>

GetRead(t) ==
    /\ Running(t, "Get", "lock")
    /\ LET s == Top(t).at
           v == db[s][Top(t).arg[1]]
       IN  /\ ~ locked[s]
           /\ Return(t, IF v = 0 THEN NoKey ELSE [err |-> "OK", val |-> v])
    /\ UNCHANGED <<vsVars, pbVars, clerkVars>>

PutEnterRefuses(t) ==
    /\ Running(t, "Put", "start")
    /\ LET s == Top(t).at IN
       IF connected[s] /\ pbview[s].Primary = s THEN Goto(t, "lock") ELSE Return(t, WrongServer)
    /\ UNCHANGED <<vsVars, pbVars, clerkVars>>

\* The primary stores and forwards; any other server relays.
PutEnter(t) ==
    /\ Running(t, "Put", "start")
    /\ LET s == Top(t).at IN
       CASE ~ connected[s] -> Return(t, WrongServer)
         [] connected[s] /\ pbview[s].Primary = s -> Goto(t, "lock")
         [] connected[s] /\ pbview[s].Primary # s -> Become(t, "Relay")
    /\ UNCHANGED <<vsVars, pbVars, clerkVars>>

WrittenSwapped(t) == db' = [db EXCEPT ![Top(t).at][Top(t).arg[1]] = Top(t).arg[1]]

Written(t) == db' = [db EXCEPT ![Top(t).at][Top(t).arg[1]] = Top(t).arg[2]]

\* From here the primary's mutex is held until the backup has answered.
PutStore(t) ==
    /\ Running(t, "Put", "lock")
    /\ ~ locked[Top(t).at]
    /\ locked' = [locked EXCEPT ![Top(t).at] = TRUE]
    /\ Written(t)
    /\ stored' = stored \cup {Top(t).arg[2]}
    /\ Goto(t, "forward")
    /\ UNCHANGED <<vsVars, env, up, pbview, connected, crashes, puts, begun, acked, floor>>

Unlock(s) == locked' = [locked EXCEPT ![s] = FALSE]

PutForwardNever(t) ==
    /\ Running(t, "Put", "forward")
    /\ Unlock(Top(t).at)
    /\ Return(t, OK)
    /\ UNCHANGED <<vsVars, env, up, pbview, connected, db, crashes, clerkVars>>

PutForwardNoBreak(t) ==
    /\ Running(t, "Put", "forward")
    /\ Call(t, pbview[Top(t).at].Backup, "ForwardPut", Top(t).arg)
    /\ UNCHANGED <<vsVars, pbVars, clerkVars>>

\* Each turn of the loop reads the backup anew: none ends the loop.
PutForward(t) ==
    /\ Running(t, "Put", "forward")
    /\ LET s == Top(t).at IN
       IF pbview[s].Backup = None
       THEN Unlock(s) /\ Return(t, OK)
       ELSE Call(t, pbview[s].Backup, "ForwardPut", Top(t).arg) /\ UNCHANGED locked
    /\ UNCHANGED <<vsVars, env, up, pbview, connected, db, crashes, clerkVars>>

PutForwardedKeepsLock(t) ==
    /\ Running(t, "Put", "ret")
    /\ IF Top(t).res = Fail THEN Goto(t, "forward") ELSE Return(t, Top(t).res)
    /\ UNCHANGED <<vsVars, pbVars, clerkVars>>

PutForwarded(t) ==
    /\ Running(t, "Put", "ret")
    /\ IF Top(t).res = Fail
       THEN Goto(t, "forward") /\ UNCHANGED locked
       ELSE Unlock(Top(t).at) /\ Return(t, Top(t).res)
    /\ UNCHANGED <<vsVars, env, up, pbview, connected, db, crashes, clerkVars>>

\* A server that is not primary calls the one it believes in, until it answers.
\* Two servers that take each other for the primary pass the Put to and fro
\* until one pings: past the bound it waits for that.
RelayCall(t) ==
    /\ Running(t, "Relay", "start")
    /\ LET p == pbview[Top(t).at].Primary IN
       /\ p # None
       /\ Len(stack[t]) < MaxDepth \/ pbview[p].Primary = p
       /\ Call(t, p, "Put", Top(t).arg)
    /\ UNCHANGED <<vsVars, pbVars, clerkVars>>

RelayReturn(t) ==
    /\ Running(t, "Relay", "ret")
    /\ IF Top(t).res = Fail THEN Goto(t, "start") ELSE Return(t, Top(t).res)
    /\ UNCHANGED <<vsVars, pbVars, clerkVars>>

ForwardPut(t) ==
    /\ Running(t, "ForwardPut", "start")
    /\ ~ locked[Top(t).at]
    /\ Written(t)
    /\ Return(t, OK)
    /\ UNCHANGED <<vsVars, env, up, pbview, connected, locked, crashes, clerkVars>>

MoveDB(t) ==
    /\ Running(t, "MoveDB", "start")
    /\ ~ locked[Top(t).at]
    /\ db' = [db EXCEPT ![Top(t).at] = Top(t).arg]
    /\ Return(t, OK)
    /\ UNCHANGED <<vsVars, env, up, pbview, connected, locked, crashes, clerkVars>>

-----------------------------------------------------------------------------
(* tick (server.go:116-135): ping, adopt the view, fill a new backup.      *)

Bounded == newView'.Viewnum <= env.views

\* The view server serves the ping; the frame holds the view it replied.
TickPing(s) ==
    /\ s \in up
    /\ stack[Live(s)] = <<>>
    /\ PingAccepted(s, pbview[s].Viewnum)
    /\ Bounded
    /\ stack' = [stack EXCEPT ![Live(s)] = << Frame(s, "Tick", view') >>]
    /\ UNCHANGED <<pbVars, clerkVars>>

\* The call fails, before or after the view server ran the handler.
TickPingFails(s) ==
    /\ "lostping" \in env.faults
    /\ s \in up
    /\ stack[Live(s)] = <<>> \/ Running(Live(s), "Tick", "start")
    /\ connected' = [connected EXCEPT ![s] = FALSE]
    /\ stack' = [stack EXCEPT ![Live(s)] = <<>>]
    /\ UNCHANGED <<vsVars, env, up, pbview, db, locked, crashes, clerkVars>>

TickViewAnyRole(s) ==
    /\ Running(Live(s), "Tick", "start")
    /\ LET v == Top(Live(s)).arg IN
       /\ pbview' = [pbview EXCEPT ![s] = v]
       /\ connected' = [connected EXCEPT ![s] = TRUE]
       /\ IF v.Backup \notin {pbview[s].Backup, None}
          THEN Goto(Live(s), "lock")
          ELSE Return(Live(s), OK)
    /\ UNCHANGED <<vsVars, env, up, db, locked, crashes, clerkVars>>

TickViewOnly(s) ==
    /\ Running(Live(s), "Tick", "start")
    /\ pbview' = [pbview EXCEPT ![s] = Top(Live(s)).arg]
    /\ connected' = [connected EXCEPT ![s] = TRUE]
    /\ Return(Live(s), OK)
    /\ UNCHANGED <<vsVars, env, up, db, locked, crashes, clerkVars>>

\* The view is installed without the mutex; a primary with a new backup goes
\* on to send it the database.
TickView(s) ==
    /\ Running(Live(s), "Tick", "start")
    /\ LET v == Top(Live(s)).arg IN
       /\ pbview' = [pbview EXCEPT ![s] = v]
       /\ connected' = [connected EXCEPT ![s] = TRUE]
       /\ IF v.Primary = s /\ v.Backup \notin {pbview[s].Backup, None}
          THEN Goto(Live(s), "lock")
          ELSE Return(Live(s), OK)
    /\ UNCHANGED <<vsVars, env, up, db, locked, crashes, clerkVars>>

TickMoveUnlocked(s) ==
    /\ Running(Live(s), "Tick", "lock")
    /\ Call(Live(s), pbview[s].Backup, "MoveDB", db[s])
    /\ UNCHANGED <<vsVars, pbVars, clerkVars>>

TickMove(s) ==
    /\ Running(Live(s), "Tick", "lock")
    /\ ~ locked[s]
    /\ locked' = [locked EXCEPT ![s] = TRUE]
    /\ Call(Live(s), pbview[s].Backup, "MoveDB", db[s])
    /\ UNCHANGED <<vsVars, env, up, pbview, connected, db, crashes, clerkVars>>

\* Whether the transfer succeeded or not, it is not tried again.
TickMoved(s) ==
    /\ Running(Live(s), "Tick", "ret")
    /\ Unlock(s)
    /\ Return(Live(s), OK)
    /\ UNCHANGED <<vsVars, env, up, pbview, connected, db, crashes, clerkVars>>

-----------------------------------------------------------------------------
(* Crashes, restarts, and time.                                            *)

\* What a crash of s leaves of a thread: the frames below the first one at s,
\* whose call fails, and those above it, which no one waits for.
FirstAt(st, s) == SelectInSeq(st, LAMBDA f : f.at = s)
Below(st, s) ==
    CASE FirstAt(st, s) = 0 -> st
      [] FirstAt(st, s) = 1 -> <<>>
      [] OTHER -> At(SubSeq(st, 1, FirstAt(st, s) - 1), "ret", Fail)
Rest(st, s) ==
    LET above == IF FirstAt(st, s) = 0 THEN <<>> ELSE SubSeq(st, FirstAt(st, s) + 1, Len(st))
        i == SelectInSeq(above, LAMBDA f : f.at # s)
    IN  IF i = 0 THEN <<>> ELSE SubSeq(above, i, Len(above))
Above(st, s) == Below(Rest(st, s), s)

\* Bounds: a crash leaves at most one part, and one thread per owner, behind.
LeavesOnePart(s) ==
    \A o \in Owners :
        /\ Rest(Rest(stack[Live(o)], s), s) = <<>>
        /\ Above(stack[Live(o)], s) # <<>> => stack[Left(o)] = <<>>
        /\ Above(stack[Left(o)], s) = <<>>

Settled == update /\ promote /\ newView = view

\* The process ends, and its handlers and its tick with it.  (kill of the tests
\* only closes the listener and lets them run on.)
Crash(s) ==
    /\ s \in up
    /\ crashes < env.crashes
    /\ "anycrash" \in env.faults \/ Settled
    /\ LeavesOnePart(s)
    /\ stack' = [t \in Threads |->
          IF t[2] = "left" /\ stack[t] = <<>>
          THEN Above(stack[Live(t[1])], s)
          ELSE Below(stack[t], s)]
    /\ up' = up \ {s}
    /\ pbview' = [pbview EXCEPT ![s] = NoView]
    /\ connected' = [connected EXCEPT ![s] = TRUE]
    /\ db' = [db EXCEPT ![s] = Empty]
    /\ Unlock(s)
    /\ crashes' = crashes + 1
    /\ UNCHANGED <<vsVars, env, clerkVars>>

Restart(s) ==
    /\ "restart" \in env.faults
    /\ s \notin up
    /\ up' = up \cup {s}
    /\ UNCHANGED <<vsVars, env, pbview, connected, db, locked, crashes, stack, clerkVars>>

VSTick ==
    /\ Tick
    /\ Bounded
    /\ UNCHANGED <<pbVars, stack, clerkVars>>

\* The retry loop of t calls a server that does not run.
Spins(t) ==
    \/ /\ Running(t, "Put", "forward") \/ Running(t, "Put", "ret")
       /\ pbview[Top(t).at].Backup \notin up \cup {None}
    \/ /\ Running(t, "Relay", "start") \/ Running(t, "Relay", "ret")
       /\ pbview[Top(t).at].Primary \notin up

\* t spins, or the holder of the mutex it needs does.
HeldUp(t) == \E u \in Threads : Spins(u) /\ (u = t \/ (Top(u).at = Top(t).at /\ locked[Top(t).at]))

\* Without "lateping" live servers ping in time, and a left-over call ends in
\* time unless a dead server holds it up.
TimePasses ==
    /\ \/ "lateping" \in env.faults
       \/ /\ \A s \in up : age[s] # DeadPings
          /\ \A o \in Owners : stack[Left(o)] # <<>> => HeldUp(Left(o))
    /\ Elapse
    /\ UNCHANGED <<pbVars, stack, clerkVars>>

ClerkStep(c) == ClerkCall(c) \/ ClerkPutReturn(c) \/ ClerkGetReturn(c)

Handle(t) ==
    \/ GetEnter(t) \/ GetRead(t)
    \/ PutEnter(t) \/ PutStore(t) \/ PutForward(t) \/ PutForwarded(t)
    \/ RelayCall(t) \/ RelayReturn(t)
    \/ ForwardPut(t) \/ MoveDB(t)

TickStep(s) == TickView(s) \/ TickMove(s) \/ TickMoved(s)

Next ==
    \/ \E c \in Clerks : StartPut(c) \/ StartGet(c) \/ ClerkStep(c)
    \/ \E t \in Threads : Handle(t)
    \/ \E s \in Servers : TickPing(s) \/ TickPingFails(s) \/ TickStep(s)
    \/ \E s \in Servers : Crash(s) \/ Restart(s)
    \/ VSTick
    \/ TimePasses

Spec == Init /\ [][Next]_vars

\* Goroutines run on, with the handlers that work for them.
ThreadStep(t) ==
    \/ Handle(t)
    \/ \E c \in Clerks : t = Live(c) /\ ClerkStep(c)
    \/ \E s \in Servers : t = Live(s) /\ (TickPing(s) \/ TickStep(s))

Fairness ==
    /\ \A t \in Threads : WF_vars(ThreadStep(t))
    /\ WF_vars(VSTick)
    /\ WF_vars(TimePasses)

FairSpec == Spec /\ Fairness

-----------------------------------------------------------------------------
(* Properties.                                                             *)

Ops == {"ClerkPut", "ClerkGet", "Put", "Relay", "Get", "ForwardPut", "MoveDB", "Tick"}

TypeOK ==
    /\ VSTypeOK
    /\ env \in Environments
    /\ up \subseteq Servers
    /\ pbview \in [Servers -> View]
    /\ connected \in [Servers -> BOOLEAN]
    /\ db \in [Servers -> [Keys -> 0 .. env.puts]]
    /\ locked \in [Servers -> BOOLEAN]
    /\ \A t \in Threads : \A i \in 1 .. Len(stack[t]) :
          stack[t][i].at \in Owners /\ stack[t][i].op \in Ops
    /\ crashes \in 0 .. env.crashes
    /\ puts \in 0 .. env.puts
    /\ begun \in [1 .. puts -> [key : Keys, after : SUBSET (1 .. puts)]]
    /\ stored \subseteq 1 .. puts
    /\ acked \subseteq 1 .. puts
    /\ floor \in [Keys -> 0 .. env.puts]

\* The frames that run between Lock and Unlock.
HoldsLock(f) ==
    \/ f.op = "Put" /\ f.pc \in {"forward", "wait", "ret"}
    \/ f.op = "Tick" /\ f.pc \in {"wait", "ret"}
Holders(s) == { x \in UNION { {t} \X DOMAIN stack[t] : t \in Threads } :
                  /\ stack[x[1]][x[2]].at = s
                  /\ HoldsLock(stack[x[1]][x[2]]) }

\* A mutex is held exactly while one handler or tick is in its critical
\* section: no path of Put or tick leaves it locked, none enters it twice.
MutexSound ==
    \A s \in Servers :
        /\ locked[s] <=> Holders(s) # {}
        /\ \A x, y \in Holders(s) : x = y

\* Servers crash at worst: they do not come back, and nothing is late or lost.
FailStop == env.faults \subseteq {"anycrash"}

\* No two threads wait for each other's mutex across machines, which a Put
\* that holds its mutex during ForwardPut and a tick that holds it during
\* MoveDB could do (server.go:58-70, 127-129).
Waits(t) == /\ stack[t] # <<>>
            /\ \/ Top(t).pc = "lock"
               \/ Top(t).op \in {"ForwardPut", "MoveDB"}
WaitsFor(t, u) == Waits(t) /\ \E x \in Holders(Top(t).at) : x[1] = u
NoMutexCycle == FailStop => \A t, u \in Threads : ~ (WaitsFor(t, u) /\ WaitsFor(u, t))

\* "backup and primary always stay in sync" (README:12): once the primary has
\* acknowledged a view with a backup and no Put is under way at it, both hold
\* the same database.
InSync ==
    LET p == view.Primary
        b == view.Backup
    IN  /\ update
        /\ {p, b} \subseteq up
        /\ pbview[p] = view
        /\ ~ locked[p]
ReplicasAgree == FailStop /\ InSync => db[view.Primary] = db[view.Backup]

\* The clerks see a register: a Get answers with a value that was Put at its
\* key, and with servers that do nothing worse than crash with none that was
\* overwritten for all to see when the Get began: no Put of it had returned
\* before a Put began that has returned itself or that a Get has read
\* (test_test.go:707).
Doing(c) ==
    IF stack[Live(c)] = <<>> THEN [does |-> "nothing"]
    ELSE LET f == stack[Live(c)][1] IN
         IF f.op = "ClerkPut" THEN [does |-> "write", key |-> f.arg[1], val |-> f.arg[2]]
         ELSE [does |-> "read", key |-> f.arg[1], since |-> f.arg[2],
               answer |-> IF f.pc = "ret" /\ f.res.err = "OK" THEN f.res.val ELSE 0]

R == INSTANCE Register WITH strict <- FailStop, ended <- acked, known <- floor,
                            op <- [c \in Clerks |-> Doing(c)]
IsRegister == R!Spec

\* Clerk.Put "must keep trying until it succeeds" (client.go:84-87): when it
\* returns, a primary has stored the value.
AckedIsStored == acked \subseteq stored

\* That does hold while no ping to the view server fails, so that no server
\* answers ErrWrongServer: through crashes, late pings and discarded calls.
AckedWhileConnected == "lostping" \notin env.faults => AckedIsStored

\* The first failover from a primary to its backup loses nothing: where the
\* primary has the latest value a clerk knows to be stored, because a Put or a
\* Get of it returned, the backup that takes over has one as well, and none whose
\* Put had returned before, even if the primary is only slow and goes on serving
\* (server.go:57-70, 119-129).  A later failover can lose it: a Put that passed
\* the check of line 57 before its server was replaced forwards to the backup
\* of that time only.
FailoverKeepsValues ==
    [][(/\ env.faults \subseteq {"lateping"} /\ env.crashes = 0
        /\ view.Viewnum = 2 /\ view.Backup # None /\ view'.Primary = view.Backup)
          => \A k \in Keys : floor[k] # 0 /\ db[view.Primary][k] = floor[k]
                => db[view.Backup][k] \notin {0} \cup begun[floor[k]].after]_vars

\* Every Put returns.
PutsReturn ==
    \A c \in Clerks :
        (stack[Live(c)] # <<>> /\ stack[Live(c)][1].op = "ClerkPut") ~> (stack[Live(c)] = <<>>)

\* Clerk.Get "must keep trying until [...] the primary replies with the value"
\* (client.go:57-59): a Get of a key that a clerk knows to be there returns,
\* with a server that crashes and comes back without it while the Get runs.
GetsReturn ==
    \A c \in Clerks :
        (Doing(c).does = "read" /\ Doing(c).since > 0) ~> (Doing(c).does = "nothing")

\* After a crash in a settled view the roles end up with the servers that run:
\* the backup takes the place of the primary, a backup that does not come back
\* loses its role and one that does gets it again, and all know the view
\* (README:8), although a Put may hold the primary's mutex until the view
\* changes and tick wait for it to send the database (lines 64-69, 127).
FailoverCompletes ==
    <>[](/\ view.Primary \in up
         /\ view.Backup = None => up = {view.Primary}
         /\ view.Backup # None => view.Backup \in up
         /\ \A s \in up : pbview[s] = view)
=============================================================================
