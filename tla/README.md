# Verification of DS_Lab in TLA+

DS_Lab holds four programs of a distributed-systems course: a reliable data
transfer layer over a lossy link (lab1), a DSDV router (lab2), a MapReduce master
and its workers (lab3), and a primary/backup key/value service with its view
service (lab4). This directory models them in TLA+, checks the models
with TLC, and proves most of their safety properties with TLAPS, for all values of their constants. `PROJECT.json` lists every run, the source lines of
every definition, the mutants that show that a property notices a bug, the
hazards and the findings.

Paths below leave out `src/lab4/pbservice/src/` and `src/lab3/mapreduce/src/`.

## 1. Inventory

| Component | State | Operations | Talks to |
|---|---|---|---|
| View server (`viewservice/server.go`) | current view, next view, `update`, `promote`, last ping of each server | `Ping`, `Get`, `tick`, start | p/b servers (`Ping`), clerks (`Get`) |
| View service clerk (`viewservice/client.go`) | none | `Ping`, `Get`, `Primary`, by RPC | view server |
| P/b server (`pbservice/server.go`) | view, `connected`, database, mutex | `Get`, `Put`, `ForwardPut`, `MoveDB`, `tick`, `kill`, start | view server, the other p/b servers |
| Clerk (`pbservice/client.go`) | none between calls | `Get`, `Put`, both in retry loops | view server, the primary |
| Sender (`lab1/rdt_sender.cc`) | window ring, buffer ring, next sequence number, one timer | message from above, ack from below, timeout | link |
| Receiver (`lab1/rdt_receiver.cc`) | window ring, next number in order, a count | packet from below | link, upper layer |
| Simulator (`lab1/rdt_sim.cc`) | event chain, timer, packets under way | loses, corrupts, delays, reorders | sender, receiver |
| Master (`mapreduce/master.go`, `mapreduce.go`) | `alive`, `worker_ch`, one goroutine per job | `Register`, `RunMaster`, `Run`, `Merge`, `Shutdown` | workers (`DoJob`), files |
| Worker (`mapreduce/worker.go`) | connections left, jobs done | `RunWorker`, `DoJob`, `Shutdown` | master (`Register`), files |
| Split (`mapreduce.go`) | files | splits the input by lines | files |
| Word count (`main/wc.go`) | none | `Map`, `Reduce` | called by the jobs |
| DSDV router (`lab2/dsdv_table.cc`) | routing table, neighbours, own sequence number, a count of rounds | send loop (`run`), `checkFile`, `updateRT` in a receiving thread | neighbours, through the transfer; the configuration file |
| DSDV transfer (`lab2/dsdv_transfer.cc`) | sockets | `send`, `receive` | UDP on the loopback interface |

**What is hard, and what makes each component correct.**

* *View service.* A view may be replaced only after its primary has acknowledged
  it, while servers crash, restart under the same name, or miss pings, and while
  replies are lost and old requests arrive late. `Ping` and `tick` edit the same next
  view independently. Correct means: one view per number, distinct roles, no change
  forgotten, no view left before its primary operated in it, nobody deposed without
  cause, no role left empty while a server is ready for it, and the live servers in the roles in the end.
* *Key/value service.* Views are installed while Puts run; a Put holds its mutex
  across a call to another server; calls fail half-way; a handler may run on after
  its caller gave up. Correct means: a Put that returned is stored, a Get is not
  older than what is known, replicas agree once the view is acknowledged, a failover
  loses nothing, mutexes are neither left locked nor waited for in a circle, and Puts
  return.
* *Transfer layer.* Sequence numbers wrap, packets are late, one timer serves a
  window. Correct means: the upper layers see a FIFO channel that loses nothing.
* *MapReduce.* Workers end in the middle of a job; jobs are repeated; the two phases
  communicate through files; idle workers wait in a bounded channel. Correct means: a
  worker has one job, phases read only complete files, the result is that of the jobs
  run one after the other and counts the words of the input, the run ends.
* *DSDV.* Tables cross each other; a number that a router raises for itself competes with
  one a neighbour raised for it; links break and come back. Correct means: some periods
  after the last change next hops lead to every router in reach, without a loop, and a
  router out of reach has an infinite cost.

## 2. Modules

| Module | Models | Notes |
|---|---|---|
| `ViewServer` | `viewservice/server.go` | state and handlers alone; used by `ViewService`, `ViewServerRaces` and `PBService` |
| `ViewService` | view server, pinging p/b servers, crashes, network | `MCViewService` instantiates it |
| `ViewServer_proofs` | | lemmas about the handlers of `ViewServer` |
| `ViewService_proofs` | | theorems about `ViewService` |
| `ViewServerRaces` | `Ping` and `tick` as blocks that interleave | `MCViewServerRaces` instantiates it |
| `Register` | abstract: a register per key | implemented by `PBService` |
| `PBService` | p/b servers, clerks, view server | `MCPBService` instantiates it; `IsRegister` is its refinement |
| `PBService_proofs` | | theorems about `PBService` |
| `PBReplicas_proofs` | | the theorems about its replicas, and that it implements `Register` |
| `Transport` | abstract: a FIFO channel | implemented by `RDT` |
| `RDT` | sender, receiver, link | `IsTransport` is its refinement |
| `RDT_proofs` | | theorems about `RDT`, and that it implements `Transport` |
| `Checksum` | `checksum` of sender and receiver | |
| `MapReduce` | `Split`, master, registration, workers, word count, files | `MCMapReduce` instantiates it |
| `MapReduce_proofs` | | theorems about `MapReduce` |
| `DSDV` | routers, their files, tables under way | `MCDSDV` instantiates it |
| `DSDV_proofs` | | theorems about `DSDV` |
| `DataLemmas` | | lemmas about bags, least numbers and recursion that the proofs share |

Some modules define variants of an operator with a plausible bug, each right
before the operator. No specification uses them; each is put in the place of the
operator once, and the property named in `PROJECT.json` must then fail.

### ViewServer and ViewService

A handler is one action. `Ping` is split by its branches: `PingRejected` (the caller is
ahead), `PingFirst`, and `PingAdopt`/`PingKeep`, which both run lines 59-101 and differ
in whether the prepared view is adopted at line 96. `Reassign` is the chain of
conditions at lines 70-91. The wall clock is `age[s]`, the number of `PingInterval`s
since the last ping of `s`, saturated one above `DeadPings`; a missing map entry (the
zero time) is a saturated age. `Elapse` lets an interval pass.

In `ViewService` a p/b server's ping has two steps, the handler with its reply
(`PingCall`) and the arrival of the reply (`PingReturn`), so other handlers run between
them. `env`, chosen at the start from
`Environments` and never changed, says which p/b servers there are, what may go wrong
(pings that come late, replies that are lost, requests that outlive their process,
crashes at any time), and the bounds. A process that
restarts has the name and none of the memory of its predecessor (`port(tag, n)` in the
tests). `VSRestart` restarts the view server, which persists nothing.

`entered` and `lost` are history: which views' primaries have learnt of their role, and
which servers gave cause to be deposed: they crashed, fell silent, or missed a reply. The
last is a cause because a server whose first reply is lost pings with 0 again, which
lines 64-67 take for a restart.

*Abstraction.* `Ping` releases its mutex at line 43 and works on the views without it;
in these two modules a handler is atomic.

### ViewServerRaces

The same state, with the operators of `ViewServer`, and a program counter per ping: lines
41-43 under the mutex, then each block of the body as one step (`Compare`,
`FirstPrepare`, `FirstAdopt`, or `Promote`, `DropRestarted`, `Fill`, `Acknowledge`, `Adopt`;
then `Answer`), and `tick` one role at a time. The mutex of `tick` excludes only lines 41-43. The
program interleaves more finely, down to the words of a `View`, so what goes wrong in the
model goes wrong in the program, and not the other way round: the module is there to
refute. Two first pings that overlap make two views.

### PBService

Every RPC is synchronous, so a clerk's call, the handler it waits for, and the call
that handler makes form a *stack of frames*, each at a machine. The stacks are the
threads: one per clerk, one per server for its `tick`. A frame has a program counter:
"start", "lock" (waiting for the mutex), "forward" (Put's loop), "wait" (for the frame
above), "ret" (the call came back). Between two actions of a handler lies each point
where others may run: the mutex, a call, a read of `pb.view` outside the mutex.

A crash is the end of a process. `kill` of the tests is milder: it sets `dead` and closes the listener, and handlers and the
current `tick` run on; that is not modelled. When a server crashes, its frames vanish; the frame below sees a failed call, and the
frames above run on without a reader: they become the *left-over* thread of the owner.
A discarded reply ("lostreply", `server.go:173-181`) makes a left-over thread too.

Values are the numbers of the Puts, and `stored`, `acked` and `floor` are history: what
some primary has stored, which Puts have returned, and per key the latest value a clerk
knows to be there. `begun` has for each Put its key and which Puts had returned before it.

*Abstractions.* Asking the view server and dialling the answer is one step of a clerk;
the called server may lose its role before its first step. A relay to no primary
(`call("")` fails at once, line 75) is a wait until the view names one. Without
"lateping" a left-over handler ends before a server is declared dead, unless a dead server
holds it up (`HeldUp`): a retry loop then spins until the view changes, so time must go on.

`env` is chosen from `Environments` as in `ViewService`, so that one run covers a crash, slow
servers, discarded calls and failing pings, and each property says under which of them it
is stated. `FailStop` stands for environments without anything worse than a crash.

`Register` is what the clerks are promised: an operation starts, is answered, ends; an
answer is a value somebody has begun to write to that key; and, while `strict`, it is none that
was *overwritten for all to see* when the operation began: its write had ended before another one
began, and that one had ended, or a read that returned had answered with it. Writes that have not
ended compete, since a Put is sent until a call of it succeeds: one that was cut off by a crash may be
stored a second time, on top of a later one. The mapping takes `begun` for
the writes begun, `acked` for those that ended, `floor` for what is known, the bottom frame of a clerk for its operation,
and `FailStop` for `strict`. Every step of the servers is a stutter or an answer, so
`IsRegister` says that clerks cannot see crashes, changes of view or transfers of the
database.

### RDT and Transport

One event of the simulator is one action. The link is two bags of packets under way;
each packet passed to it may be lost; `Corrupted` drops one, since a corrupted packet
or ack fails its check and is ignored. That a check passes by accident is left out (see
`Checksum` for what the checksum really covers). The link delivers any packet of the
bag next: reordering. It makes no copies, like the simulator.

`Lifetime` bounds how many packets are delivered while one is under way. It is an assumption about
the simulator: a packet is under way for at most 0.2s (`rdt_sim.cc:293-294`), but those that overtake it may take almost no time, so that the number of
deliveries meanwhile is only very probably below the limit (128 numbers, windows of 10). Without it a very late packet would be taken for one of
the next round of numbers, as in every protocol with bounded sequence numbers. The
assumption is `RDTAssumption`.

Payloads are positions in the stream, so `Transport` can say: the delivered sequence is
1, 2, 3, ... and never runs ahead of what was sent.

A full buffer ends the program with an assertion (`halted`); what was delivered until
then is in order. The runs reach it.

### Checksum

`checksum` as in the code, over bytes of `BYTE` values; the program's 256, 16-bit
shorts and 32-bit masks are a base and its second and fourth power.

### MapReduce

`Split` counts lines and bytes and gives the number of split files it makes; `StartMap`
runs it on any of the input files. A job's goroutine goes through "wait", "dial", "call",
"run", "reply", "putback", "done" (`pc`). `worker_ch` is a sequence of at most `Cap` workers;
`reg` is the goroutine that moves registrations into it, one at a time. A worker accepts
`NRPC` connections and ends (`Close`). Its process may end too and cut jobs off, as in
`main/wc.go`, or its accepted jobs still finish, as in the tests, where workers are
goroutines. A map job without a split ends the process of its worker (`MissesSplit`). Every
file is absent, partial (created and so emptied) or complete; a map job writes `nReduce`
files, two steps each.

`Split` follows the loop of `mapreduce.go:166-177`: `Written(input)[n]` are the files after `n`
lines, `Write` is what one line does to them, `Bytes(input)[n]` is the code's counter `i`. They are recursive
functions, and so are the other loops over data, so that proofs can use them: `OfKeys` keeps the pairs that have one
of some keys (the filter of `DoMap` and the lists of `DoReduce`), `Reduce` adds up values, `AllPairs` reads the map
files of one result. `Merged` says what the loop of `Merge` leaves in its map, the value of the last file that has the key.
`WordsOf`, the words of an input, is only there for the history `text`.

A worker whose `Register` finds nobody listening, before `RunMaster` or after the run, goes on without (`worker.go:52-55`), and
the master never learns of it. `RunEnds` needs a lasting worker that is yet to register.

A line is its words and its number of bytes; `size`, the bytes of the file, has the carriage returns too, which the
scanner strips from the lines (`returns`). A split is the words of its lines; `Map` and
`Reduce` are those of `main/wc.go`; a file of a map job is a sequence of key/value pairs, a
result a function from words to counts. A job creates (and so empties) a file in one
step and fills it in the next, so that a reader could see it empty. `RunSingle` computes
what the sequential run of `mapreduce.go:345` leaves. Splits of an earlier run on the same
file are still there (`Leftovers`), and a map job whose split this run did not make reads
the old one.

### DSDV

`Round` is one turn of the loop in `run`: `checkFile`, the raise by 2 if it changed
anything, the table to every neighbour, the periodic raise afterwards. `Receive` is
`updateRT`: `Followed` (lines 182-190), `Direct` (193-195) and `Better` (197-225), in that
order; the last visits destinations in the order of the map, and those after the sender's
own entry see it as the loop has left it. A file change (`Change`) sets both ends of a link
at once, assumption 3 of `lab2/README`.

A period is 20 seconds and a datagram on the loopback interface takes far less. So in the
model every router has one round per period, in any order; rounds of several may fall
together, before any of their tables arrives; but a table arrives before a later round.
None is lost. Receptions of different routers commute, so the one with the lowest number
goes first. `quiet` counts the periods since the last change.

Costs are natural numbers instead of floats, and no way costs 100 instead of 10000; a sum
above that stays as it is, as in the code.

## 3. Runs

All runs finish within about four minutes with two workers.

| Run | Question | Result |
|---|---|---|
| `vs_faults` | any two of three servers, every fault, a crash, a restart of the view server; or three servers, with late pings up to view 4, with these and a crash up to view 3, with a crash alone up to view 5: roles, pending changes, one view per number, no view left before its primary entered it, nobody deposed in vain | holds |
| `vs_orphaned` | a view has a primary, and a dead one is replaced by the backup that has received the view (`common.go:9-10`, `README:8`): asked when the backup runs | violated |
| `vs_outsider` | the primary was primary or backup of the previous view (`common.go:14-16`) | violated |
| `vs_races` | a view is replaced only once its primary acknowledged it (`common.go:29`), with pings that overlap | violated |
| `pb_safe` | two servers in four environments. Two clerks that put, one that gets, and a crash at any time: replicas agree, no circle of mutexes, the clerks see a register. Slow servers: the first failover keeps known values. Discarded calls and failing pings: mutexes stay sound, what returned is stored while pings go through | holds |
| `pb_live` | a crash in a settled view, with or without a restart: every Put returns, and every Get of a key that is known; the servers that run end up in the roles and know it | holds |
| `pb_lost_put` | Put tries until it succeeds (`client.go:86`) | violated |
| `rdt` | windows of 3 over 7 numbers: FIFO, timer, window before buffer, count, only delivered packets forgotten, everything arrives | holds |
| `rdt_last_byte` | any changed byte is noticed (`rdt_sim.cc:159`) | violated |
| `mr` | three workers of which two end with a job, every small input: no unread split, one job per worker, the result of the sequential run and the count of words, frozen map files, the run ends | holds |
| `dsdv` | a triangle, two changes of links: no lookup misses, next hops lead to what is in reach, what is not has an infinite cost | holds |
| `dsdv_cutoff` | the last question on a line of four whose middle link breaks (`lab2/README:13,18`) | violated |

The violated ones are the findings; each checks one property that quotes the repository.

**Other divergences**, which the models show but no run is spent on:

* A view without a primary, which `vs_orphaned` finds, is never replaced while the view server runs: only its primary
  could acknowledge it (`server.go:94`).
* When both roles have been vacated, whoever pings next is primary (`server.go:70-72`), also a server without the data,
  against `common.go:14-16`. `vs_outsider` asks only for the case in which a role was not lost.
* `promote` (`server.go:60-62`) outlives the backup it was computed for: with late pings a backup that does
  not know its role is promoted, against `README:8`; it is also what promotes the outsider of `vs_outsider`.
* A `MoveDB` whose call is discarded is not repeated (`pbservice/client.go:116`), and a backup that is back
  before it is missed keeps its role with an empty database (`server.go:125`): the replicas differ, against
  `README:12`. `ReplicasAgree` is therefore stated for fail-stop crashes.
* `ForwardPut` is accepted from anyone (`server.go:82`): after a discarded reply a left-over one
  overwrites a newer value at the backup. TLC shows it when `ReplicasAgree` and the strict register are
  asked of the environment with discarded replies and two Puts.
* `Put` repeats its call until one succeeds (`pbservice/client.go:94`), and nothing recognises a repeated one:
  a Put of one clerk whose reply a crash cut off is stored again by the new primary, on top of what another
  clerk has put since. So with several writers the service is not linearizable; `Register` lets writes that
  have not ended compete, and asks only that what was overwritten for all to see does not come back.
* A Get of a key that was never Put does not return (`client.go:68` tries again on `ErrNoKey`), against
  `client.go:57-60`. `GetsReturn` is about keys that are known.
* `Put` looks at its server's role before it takes the mutex and not again (`pbservice/server.go:57-60`), and knows no
  view but its server's. If servers are only slow, a Put can store its value at a server that has been replaced
  meanwhile, against `README:12`. If that server is the backup of its successor by then, it has another value
  than that one, and hands it out after the next failover. If there is a third server, the Put is
  forwarded to the old backup, which is the primary now, and returns, but the new backup never gets it, and the failover to that one
  loses it. TLC shows the second when `FailoverKeepsValues` is asked of every failover, with three servers, four views and
  one Put. The property is therefore about view 2, the first that can have a backup, and allows a value
  whose Put ran at the same time as that of the newest.
* `Get` does not look at the server's role (`pbservice/server.go:28-33`): an old primary answers from its own
  database, which `test_test.go:707` rules out. That reads are current is stated for servers that at worst crash.
* If there are more workers than `worker_ch` holds (ten), a job that gives its worker back at the end of a
  phase blocks before it counts as done (`master.go:57`), and the master waits for ever. `RunEnds` is checked with
  room for all.
* A new backup that dies before its database arrives: a Put holds the primary's mutex and spins on the dead
  backup (`pbservice/server.go:64-69`), and `tick`, which has installed the view, waits for that mutex (line 127). So the
  primary neither pings nor acknowledges, the view is not replaced though the backup expires, and the
  Put never returns, unless the backup comes back under its name. TLC shows it when it is asked, with a
  crash at any time, whether a mutex that is held is released some time. `PutsReturn` does not see it: in `pb_live` crashes are in settled views.
* Few or long lines make fewer splits than `nMap` (`mapreduce.go:167`), and the map job that misses its
  split ends every worker it is given to. `RunEnds` is about runs where no split is missing.
* Split files are never removed: if a run makes fewer splits than an earlier one on the same file, its
  map jobs read old splits (`mapreduce.go:197`) and count their words. `ResultIsWordCount` is about runs that
  make all their splits.
* A worker that registers while the goroutine that takes registrations waits for room in `worker_ch`, or after
  it has ended, waits for ever (`mapreduce.go:94`); the run does not need it.
* Nothing adds to `mr.Workers` (`mapreduce.go:63`), so `KillWorkers` tells no worker to shut down
  (`master.go:12-13` says all).
* DSDV: `lab2/README:18` has routes converge within ten periods, the distance between two periodic raises. They take up to
  `2 * SEQ_PERIOD + 2`: a raise may be a full distance away, its number may arrive by the longer way first, and the next raise puts that right. With
  `SEQ_PERIOD` 3 TLC refutes `RoutesLead` after 3, 4, 5, 6 and 7 periods in the triangle of the run `dsdv`; after 8 it holds.
* DSDV: when the raised number of a router first arrives by a longer way, its cost rises until the next
  table (`dsdv_table.cc:210`; `lab2/README:16` wants it so), so costs are shortest only in between; `RoutesLead`
  asks for next hops that lead there and for no cost below the shortest. The next hop and the cost of one
  entry may belong to different ways, since `new_dst` counts the way to the sender (line 199), which need not
  be the link. Lines 193-195 may lower the number of a neighbour. If two neighbours each add 1 to a number,
  the sum is an even one its owner never gave, against `lab2/README:14`. The loop sleeps 20 seconds
  (line 77) where `lab2/README:19` says 10.
* A router that is started again knows only its neighbours, and `table.find` of another destination is
  `end()` in the routers that go through it (line 185): `LookupFinds` is about routers that do not restart. A
  file that cannot be opened counts as changed (line 123). Numbers are compared without regard to their
  wrap at 65536.

**Bounds.** `DeadPings` is 1 instead of 5: what matters is that a server can be silent and
not yet dead, and dead. Three servers are primary, backup and a spare; with every fault at once
two are what TLC can finish, and the proofs hold for any number. Views up to number 4 let views 1 (no backup), 2 (backup), 3 (failover) and a further change of the next view happen;
three servers with late pings and a crash get 3, and with a crash and timely pings 5, with which a successor may be dropped again (`vs_outsider`);
`pb_live` has 5, more than its one crash can cause, so the bound does not cut a fair
behaviour short. Two Puts of one key let one overwrite the other and be in
flight while the other has returned; a second key adds no interaction, since the server
has one mutex and `MoveDB` moves all. In the environment with crashes two clerks put and one of them gets too, so
that its Gets lie between, and overlap with, the Puts of both. The theorem is about any number. Slow servers get
two Puts up to view 3, which follows the first failover. `MaxDepth` 3 lets a Put be relayed twice before it
reaches the primary. Two servers that take each other for the primary, after a restart, pass it to and
fro until one of them pings; past the bound the model waits for that ping. In `rdt` the eight packets go round the seven numbers, the buffer of three
fills and overflows, and two packets are under way at once in each direction.
`Lifetime` is the largest value the assumption allows. In `mr` three map and two reduce jobs compete for
three workers, of which one serves one connection, one two and one any number, so that jobs fail in both phases; the input
files are all those of up to six lines of one or two bytes, with or without a last newline and with no or one carriage return, and one whose
words come back in several splits and in both partitions, over no or three old splits. In `dsdv` `SEQ_PERIOD`
is 3 instead of 10, and routes are judged after 8 periods, the 2 * `SEQ_PERIOD` + 2 that it takes to raise a
number, have it arrive by the longer way and be corrected (7 are too few); in the triangle the short
side breaks and comes back or a router is cut off, each at any moment, also while tables are under way. Every router there is next to
the one that is cut off, so each loses it by its own `checkFile` and none can count up: `CutOffIsInfinite` after three periods already
holds there. The line of four of `dsdv_cutoff`, where a router behind the broken link is reached only by hearsay, is the hard case.
`dsdv_cutoff` gives the routers three times `SEQ_PERIOD`. Symmetry over
the servers is used in safety runs only.

`CHECK_DEADLOCK FALSE` is set where the system stops: the simulation has sent all its
messages or failed an assertion, the MapReduce run is over, the packet is corrupted, the periods of `DSDV` are up.

**Fairness.** *View service*: its runs ask for safety only, so none is assumed. *Key/value*: weak
fairness of each thread, that is of a clerk or a ticking server together with the handlers that
work for it, and of the view server's `tick` and of time: the goroutines run for ever (`viewservice/server.go:195-201`,
`pbservice/server.go:194-202`). Nothing is assumed of crashes, restarts or failures, and `pb_live`, which is about servers that
ping in time, has no "lateping". Nothing is assumed of the mutex: with boundedly many Puts and views others take it
only so often. *Transfer layer*:
the simulator runs every event and loses each packet with a probability below one, so what
is passed to the link again and again gets through; hence strong fairness of a resend that
passes, of a packet whose ack passes, and of an ack that arrives. *MapReduce*: weak fairness of
the master, of each job's goroutine and of each worker; a waiter at a channel that others serve
themselves from gets its turn because every job ends.

## 4. Proofs

| Module | Theorem | Property | Rests on |
|---|---|---|---|
| `ViewService_proofs` | `TypeCorrect` | `TypeOK` | itself |
| | `RolesStayDistinct`, `NoChangeForgotten` | `RolesDistinct`, `PendingChangeNumbered` | `VSInv` |
| | `OneViewPerNumber`, `AckedBeforeNewView` | `ViewsAgree`, `NoNewViewBeforeAck` | `HistInv` |
| | `DeposedForACause` | `NobodyDeposedInVain` | `HistInv`, `CauseInv` |
| `PBService_proofs` | `TypeCorrect`, `PutsAreStored`, `MutexesSound`, `MutexesAcyclic` | `TypeOK`, `AckedWhileConnected`, `MutexSound`, `NoMutexCycle` | `PBInv` |
| `PBReplicas_proofs` | `ReplicasInSync` | `ReplicasAgree` | `PBInv`, `RepInv` |
| | `ImplementsRegister` | `IsRegister` (the refinement) | `PBInv`, `RepInv`, `RegInv` |
| `RDT_proofs` | `TypeCorrect`, `CountIsRight`, `TimerIsRight`, `WindowBeforeBuffer`, `NothingForgotten` | `TypeOK`, `CountsElements`, `TimerArmed`, `WindowFirst`, `ForgetsOnlyDelivered` | `RDTInv` |
| | `ImplementsTransport` | `IsTransport` (the refinement) | `RDTInv` |
| `MapReduce_proofs` | `NeverTwoJobs` | `OneJobPerWorker` | `ControlInv` |
| | `SequentialResult`, `FilesStayFrozen` | `SameAsSequential`, `MapFilesFrozen` | `MapReduceInv` |
| | `SplitsAreRead` | `EverySplitIsRead` | lemma `SplitFiles` |
| | `TypeCorrect`, `WordsAreCounted` | `TypeOK`, `ResultIsWordCount` | `MapReduceInv`, `ValuesInv` |
| `DSDV_proofs` | `TypeCorrect`, `FindsWhatItLooksUp` | `TypeOK`, `LookupFinds` | `DSDVInv` |

TLC has checked each inductive invariant on the instance of its run before it was proved (`Tally` with a sum in place of
its quantifier over functions, which TLC cannot enumerate). The
assumptions are the named ones of the modules, which TLC evaluates in every run.

### View service

For every set of servers, every `DeadPings` and every set of environments, and so for all faults and bounds.

The first group rests on `VSInv`, which adds to the two invariants that a view
without a primary was never acknowledged (`EmptyUnacked`) and what the next view looks like while it has the current number (`FreshView`). Neither invariant is inductive
alone: that a role is not given twice needs the number of the next view to tell a pending
change from none. `EmptyUnacked` keeps a view without a
primary from being replaced, which `AckedBeforeNewView` and `DeposedForACause` need. `ReassignFacts`
says what lines 70-91 do to *any* next view, so each branch of `Ping` is treated once.

The second group rests on `HistInv`, about a view server that has not restarted: every
view a server operates in, or has in a reply, is not newer than the current one and equal to it
if the numbers are equal (`AgreeInv`); a primary that operates in a view is in the history
(`OperatingEntered`); so is one named by a request left over from a dead process
(`StraysEntered`); and if the current view is acknowledged its primary has entered it (`AckEntered`). The last
needs the first three: an acknowledgement is only a number, sent by a live server from its
own view or by a left-over request, and only agreement on numbers makes it one for *this*
view. This is where a message that outlives its process could have broken the code, and does not.

`DeposedForACause` rests on `CauseInv`, which has the property for the view in preparation already, where it can be broken:
if the next view lacks the primary or the backup, there is a cause (`Caused`). The causes are those of lines 66 and 125-139. Silence is noted
when it begins (`SilentLost`). A ping with 0 of the primary comes from a process that knows no view; that it lost one takes
`UnheardIdle`: a server that never heard of a view and lost nothing has no role. The theorem does not say
who comes next: the outsider of `vs_outsider` follows a primary that did crash.

*Assumptions.* `None` is no server and no view, `DeadPings` is a natural number, and an environment is a
set of servers and one of known faults, with natural numbers for bounds.

### Key/value service

For every set of servers, clerks and keys, and every set of environments.

`PBInv` has two halves. The first, `Core`, is about the stacks. Below its top every frame of a stack waits for the one above,
which is a call that it makes, with its argument if it relays or forwards a Put (`LinksOK`); a result is one that the call may have, and a
Put that went well, or has passed its own store, is in `stored` (`MayGet`, `PcOK`); nothing runs at a server that is down
(`PlacesInv`); and each mutex is locked exactly if one frame is in its critical section (`MutexOK`). A step moves the
top frame on, calls, or returns (`Moved`, `Called`, `Ended`), and starts at most one left-over thread, so each handler is treated by naming which of these it does
(`GotoStep`, `CallStep`, `ReturnStep`). A crash is the exception: it takes all frames of one server out of all threads. `Survivors` shows that
every other frame is in exactly one thread afterwards, from which the rest follows for the frames one by one.
`AckedWhileConnected` needs all of the first part: the answer that a clerk sees may have come through several relays, and the
connection of any of the servers on the way would turn it into `ErrWrongServer`.

The second half says who takes itself for the primary. `MutexSound` holds in every environment, but two servers that hold
their own mutex and wait for the other's are excluded only if there is one primary at a time. `PrimaryInv` has this for servers that at worst
crash: one that is up and primary in its own view, in the one it is about to install, or in the view server's, is so in the view server's next view too,
since it is never late and never pings with 0 again. With it only the view's primary holds its mutex (`OnlyPrimaryHolds`), and
since it calls another server (`CallsInv`) the holder does not wait for itself (`NoSelfWait`). If pings come late both of these fail, and so does `NoMutexCycle`.

`ReplicasAgree` looks only at states in which the view is acknowledged and no Put holds the primary's mutex, and says nothing of
how they are reached. `RepInv` says it of all states, all for servers that at worst crash. The replicas agree on each key unless
a Put of it is under way or a transfer is due (`SyncInv`). A Put that holds the mutex has stored its value at the primary
already (`WroteInv`), so the `ForwardPut` makes the backup equal, and a transfer takes the database of the moment, since the tick holds the
mutex while it runs. A copy under way goes to the backup its sender has now, or its sender has none or is about to transfer
(`CopiesInv`): `tick` takes a new view without the mutex (`pbservice/server.go:122`), so a Put may forward to the old backup in the new view.
A copy whose sender has crashed runs on, and could overwrite something newer if its backup were promoted first;
it is not, because the primary is not yet declared dead (`Orphaned`): that takes `DeadPings` intervals, and the
environment lets none pass while such a call is left over (a call that waits for a dead server is excepted, but no copy does). That the view server installs no view before the
transfer rests on `AckInv`: an acknowledged view is the one its primary has, and not in the tick that
fills its backup. `HeardInv` ties views as servers know them to the view server's: of two with one number there is only one, and a
backup that is up keeps its role or takes over. A crash is again the hard step (`CrashSync`): it makes every
copy of the primary an orphan, and ends every copy to the backup.
TLC has checked `RepInv` on instances with two servers, with three and two crashes, and with five views.

`ImplementsRegister` needs who works for whom and what has been written where. `HomeInv`, a part of `RepInv`, has the first: if servers at worst crash, a
Put or a Get is at the view's primary (`AtPrimaryInv`), whatever works for a Put belongs to a clerk that is
doing this Put now (`PutsOwned`), what a crash leaves over is one copy to the backup (`LeftInv`), and a
server without a role has no data (`DataInv`). `RegInv` has the second: a Put that is under way has a number of its own
and has not returned (`OwnInv`); each value in a database, a frame or `floor` was begun at that key (`KeyInv`); and if `w` has been shown at a key
(it is the floor, what a Get in progress must not fall behind, or a result on its way to a clerk) then no Put that had returned before `w` began is at a live server or in a
transfer (`PastInv`). The last is the heart. A value that has returned has no frame that could store it again (`PutsOwned` and `OwnInv`), so what is past
stays past (`PastStays`). It becomes past when it is first shown, in three ways:
a Get reads it at the primary (`ReadPast`), a Put of it returns from a primary without a backup (`AlonePast`), or from
one whose backup has it (`CopiedPast`), and in each the replicas, by `SyncInv`, hold nothing older. To follow values through calls and returns, `FrameFlow` says once and for all where each frame of a
state comes from: it was there before, is the caller of one that answered, or is the first of an operation or a tick. From it `Seen`
derives the only five things a clerk can see happen, which are the five actions of `Register`. TLC checked `HomeInv` and `RegInv` on the
instance of `pb_safe` before they were proved.

*Assumptions.* Clerks are no servers, `None` is neither, writers are clerks, environments are of the known form. The theorems are about the bounded model: a
server crashes only if that leaves each owner at most one thread that runs on without a reader (`LeavesOnePart`), and relays are at most `MaxDepth` deep, for any `MaxDepth`.

### Transfer layer

For every `MAX_SEQ`, window and buffer size, and every `Lifetime` from a window up to the numbers less a window.

`RDTInv` says everything in terms of the position of a packet in the stream, from which its
number and its places in the two rings follow. Four marks, `Acked <= Handed <= Out <= sent`, divide the stream: acknowledged as far
as the sender knows; handed up; gone out; accepted from above. The sender's ring has the packets from `Acked` to `Out`, its buffer
those from `Out` to `sent`, the receiver's ring some of the `WIN_SIZE` packets after `Handed`. A packet or an ack under way is at most `Lifetime` old
(`DataSound`, `AcksInv`). The heart of the proof is arithmetic on wrapped numbers:
`PacketOffset` shows that the receiver's distance `(seq + SeqMod - expected_ack) % SeqMod` is the true distance of a packet
not yet handed up, and is beyond the window for any other, and `AckOffset` the same for the sender. Both need the
upper limit on `Lifetime`, and no more.

`CountsElements` is the property that is least obvious. `rdt_receiver.cc:111-112` counts a packet also when its place is taken
already, so a copy would make the count too large. It holds because the sender sends again only the oldest packet of its window. So `DataSound` says
that every later one is under way at most once, and then not in the receiver's window too.

`ImplementsTransport` maps `sent` and `delivered` to the channel: a packet that fills the gap hands up the longest
run behind it, which is the next piece of the stream (`Receiver_FromLowerLayer`), and all other steps are stutters or sends.

### MapReduce

For every number of map and reduce jobs, every set of workers, every `Cap`, and all inputs.

`ControlInv` has the places of a worker: idle in `worker_ch` once, with the registration, in
the hands of one job, or nowhere (`PlacesInv`), and which jobs run in which phase (`PhasesInv`). `OneJobPerWorker` alone is
not inductive: a worker that registers for the first time must be nowhere else.

`FilesInv` says, for each state of a job, what its files contain: `MapsInv` which files of a map job are
complete, just created or as an earlier execution of the same job left them, `ReducesInv` that a reduce job has read the first `ops` files of its
partition, and what an answered one has written. A job that was cut off starts again at its first operation, and the files that its first execution had
finished are created, and so emptied, again: this is harmless because nobody reads them before `DoneAll(Maps)`, and afterwards nobody writes them.

`SplitFiles` is an induction along the lines of the input: when a file is begun, the files before it have had more than
their shares `nchunk` of the bytes, and `nMap` shares are more than all bytes, the newline that a bare last line gets included (`SharesSuffice`).

`WordsAreCounted` goes from the words of the input to those of the result. `ValuesInv` says that as often as a word is in the
input it is in all splits together (`TextInv`; `Tally` is that sum, taken split by split, and `SplitTally` the induction along
the lines), that a map job that is done had its split (`ReadInv`), and what the data are (`DataTypes`). The pairs for result `r` then
have a word as often as the splits have it if its hash belongs to `r`, and not at all otherwise (`PartitionCounts`, `AllPairsCounts`);
`Reduced` gives each key the number of its pairs (`ReducedCounts`), and, as every word is in one result file only, `Merged`
takes over all its values (`ResultFile`, `MergedApart`). That no file is read too early or twice is not argued again: it is `SequentialResult`.
Without `made = nMap` the theorem is false, see section 3 on old splits.

*Assumptions.* The numbers of jobs and `Cap` are positive, a hash is a number, a line has words and a number of bytes,
an old split has words, and "end" and `None`, the two values
that `reg` has besides workers, are no workers.

### DSDV

For every network, every period and every modulus.

`LookupFinds` needs that no router ever forgets a destination, that next hops are neighbours which know the destination
(`TablesInv`), and that a table under way has no more destinations than its sender has by now (`FlightInv`).
`updateRT` changes a table while it walks over it, so the lemmas about `Followed`, `Direct` and `Better` say what each pass keeps.

### How

TLAPS 1.4.5 cannot instantiate the library's induction theorems with its provers, so `DataLemmas` has induction in the
forms the proofs need, over sets instead of predicates: a non-empty set of numbers has a least element (`Least`), a set that has 0 and is closed under
successors up to `N` contains `0 .. N` (`UpTo`), and a step function can be iterated (`Recursion`). With these the recursive
functions `AllPairs`, `Written`, `OfKeys` and `WordsOf` are shown to be what their equations say; how often a word is in a sequence
(`Occurrences`) is counted element by element (`AmongStep`), which gives the counts of what is put together (`CountConcat`, `CountAppend`).

### Only model-checked

* Liveness (`FailoverCompletes`, `PutsReturn`, `GetsReturn`, `AllArrives`, `RunEnds`): fairness and ENABLED are out of this
  prover's reach.
* `RoutesLead` and `CutOffIsInfinite`: that routes settle a number of periods after a change is liveness with
  a bound.
* `Checksum`: its properties hold for the sizes checked, or fail.
* `FailoverKeepsValues` of the key/value service: it is about servers that are slow and go on serving beside their successor,
  where none of the invariants for servers that at worst crash holds. Beyond the bounds of `pb_safe` TLC confirms it with two
  clerks that put (two servers, three views: 7.7 million states).

## 5. Not modelled

* Interleavings of `Ping` finer than its blocks, and torn reads of a `View` (a data race).
* `lab2`: the encoding of tables, printing, sockets (`dsdv_transfer.cc:41-54` opens one for each table it
  sends and never closes it), lost datagrams, the two threads inside one turn: the receiving one never
  writes the router's own entry, so the raise outside the mutex (line 94) loses nothing, but the two may
  touch one `std::map` at once.
* Where words of a text end (`strings.FieldsFunc` in `wc.go`), `CleanupFiles`, scanner errors on lines above
  64KB, the exit of a process on any other error than a missing split; `Worker.Shutdown`, which is never
  called.
* The statistics, event chain and command line of the simulator.
* `viewd`, `pbd`, `pbc`, `dsdv.cc`, the scripts: they start the components.
* `unreliable` is a flag for tests; what it does is in `FaultKinds`.

## 6. Plan

What is left, in this order:

1. **Proofs about `PBService`**: `FailoverKeepsValues`, from an invariant about two primaries at a time: in view 2
   the primary's backup gets what the primary stores, and else only values of Puts that have not returned.
2. **`Register` and `DSDV`**: `updateRT` lets the number of no entry fall but a neighbour's.
