------------------------------ MODULE MapReduce ------------------------------
(***************************************************************************)
(* The master and the workers of lab3/mapreduce (master.go, worker.go,     *)
(* mapreduce.go): workers register, the master hands them map jobs, then   *)
(* reduce jobs, over a channel of idle workers, gives a job whose call     *)
(* failed to another worker, and merges the results.  Jobs communicate     *)
(* through files.  Map and Reduce are those of the word count (wc.go).     *)
(*                                                                         *)
(* A line is its words and its bytes, newline included.  A file is what    *)
(* its reader makes of it: a split is its words, a file of a map job its   *)
(* key/value pairs, a result the value of each key.                        *)
(*                                                                         *)
(* ShareRoundedDown, LeftAfterPeek, Redialed, OpsOneMore, LastValue,       *)
(* Reopened and AnsweredAll are successors of definitions below with a     *)
(* plausible bug, used only to see a property notice.                      *)
(***************************************************************************)
EXTENDS Integers, Sequences, FiniteSets

CONSTANTS
    Workers,        \* addresses of workers
    NRPC,           \* per worker, the connections it accepts; -1: no limit
    nMap, nReduce,  \* jobs of each phase
    Cap,            \* capacity of worker_ch (10)
    Words, Hash,    \* the words, and hash(word)
    Inputs,         \* the input files: their lines, whether the last one lacks
                    \* its newline (bare), and the carriage returns at line ends
    Leftovers,      \* splits an earlier run of the same file may have left
    None

ASSUME MapReduceAssumption ==
    /\ NRPC \in [Workers -> Nat \cup {-1}]
    /\ {nMap, nReduce, Cap} \subseteq Nat \ {0}
    /\ Hash \in [Words -> Nat]
    /\ Inputs \subseteq [lines : Seq([words : Seq(Words), bytes : Nat]), bare : BOOLEAN,
                       returns : Nat]
    /\ Leftovers \subseteq Seq(Seq(Words))
    /\ Workers \cap {None, "end"} = {}

Maps == {"Map"} \X (0 .. nMap - 1)
Reduces == {"Reduce"} \X (0 .. nReduce - 1)
Jobs == Maps \cup Reduces

VARIABLES
    phase,      \* where Run is
    splits,     \* the split files there are
    made,       \* the split files this run has made
    text,       \* history: the words of the input
    alive,      \* mr.alive
    reg,        \* the goroutine that takes registrations: the worker it has
                \* received and not passed on, or None, or "end"
    worker_ch,  \* the channel of idle workers
    pc,         \* per job, where its goroutine is
    worker,     \* per job, the worker it has taken from worker_ch
    wstate,     \* per worker, where RunWorker is
    nRPC,       \* per worker, wk.nRPC
    ops,        \* per job, the file operations its execution has done
    kvs,        \* per reduce job, the pairs its execution has read
    mid,        \* the file of a map and a reduce job
    out,        \* the result file of a reduce job
    result      \* the file of the merged results

masterVars == <<phase, splits, made, text, alive, result>>
fileVars == <<mid, out>>
vars == <<masterVars, reg, worker_ch, pc, worker, wstate, nRPC, ops, kvs, fileVars>>

Init ==
    /\ phase = "split"
    /\ splits \in Leftovers
    /\ made = 0
    /\ text = <<>>
    /\ result = None
    /\ alive = TRUE
    /\ reg = None
    /\ worker_ch = <<>>
    /\ pc = [j \in Jobs |-> "none"]
    /\ worker = [j \in Jobs |-> None]
    /\ wstate = [w \in Workers |-> "new"]
    /\ nRPC = NRPC
    /\ ops = [j \in Jobs |-> 0]
    /\ kvs = [j \in Reduces |-> <<>>]
    /\ mid = [f \in (0 .. nMap - 1) \X (0 .. nReduce - 1) |-> None]
    /\ out = [r \in 0 .. nReduce - 1 |-> None]

-----------------------------------------------------------------------------
(* Registration.                                                           *)

\* RunWorker listens and calls the master's Register.  A master that has shut
\* its registration down, or does not listen yet, does not answer, and the
\* worker goes on without.
StartWorker(w) ==
    /\ wstate[w] = "new"
    /\ \/ /\ alive
          /\ wstate' = [wstate EXCEPT ![w] = "registering"]
       \/ /\ ~ alive \/ phase = "split"
          /\ wstate' = [wstate EXCEPT ![w] = "accepting"]
    /\ UNCHANGED <<masterVars, reg, worker_ch, pc, worker, nRPC, ops, kvs, fileVars>>

\* The rendezvous of Register with the goroutine of RunMaster.
RegisterReceive(w) ==
    /\ phase # "split"
    /\ reg = None
    /\ wstate[w] = "registering"
    /\ reg' = w
    /\ wstate' = [wstate EXCEPT ![w] = "accepting"]
    /\ UNCHANGED <<masterVars, worker_ch, pc, worker, nRPC, ops, kvs, fileVars>>

RegisterSend ==
    /\ reg \in Workers
    /\ Len(worker_ch) < Cap
    /\ worker_ch' = Append(worker_ch, reg)
    /\ reg' = IF alive THEN None ELSE "end"
    /\ UNCHANGED <<masterVars, pc, worker, wstate, nRPC, ops, kvs, fileVars>>

-----------------------------------------------------------------------------
(* The goroutine of a job in RunMaster.                                    *)

LeftAfterPeek == worker_ch
Left == Tail(worker_ch)

Take(j) ==
    /\ pc[j] = "wait"
    /\ worker_ch # <<>>
    /\ worker' = [worker EXCEPT ![j] = Head(worker_ch)]
    /\ worker_ch' = Left
    /\ pc' = [pc EXCEPT ![j] = "dial"]
    /\ UNCHANGED <<masterVars, reg, wstate, nRPC, ops, kvs, fileVars>>

Listening(w) == wstate[w] \in {"registering", "accepting"}

Redialed(js) == pc' = [j \in Jobs |-> IF j \in js THEN "dial" ELSE pc[j]]

\* A job whose call failed waits for another worker; this one is forgotten.
Failed(js) == pc' = [j \in Jobs |-> IF j \in js THEN "wait" ELSE pc[j]]

\* call(): the connection waits to be accepted, or is refused.
Dial(j) ==
    /\ pc[j] = "dial"
    /\ IF Listening(worker[j]) THEN pc' = [pc EXCEPT ![j] = "call"] ELSE Failed({j})
    /\ UNCHANGED <<masterVars, reg, worker_ch, worker, wstate, nRPC, ops, kvs, fileVars>>

\* The reply arrives.
Reply(j) ==
    /\ pc[j] = "reply"
    /\ pc' = [pc EXCEPT ![j] = "putback"]
    /\ UNCHANGED <<masterVars, reg, worker_ch, worker, wstate, nRPC, ops, kvs, fileVars>>

\* The worker is idle again; only then the job counts as done (wg.Done).
PutBack(j) ==
    /\ pc[j] = "putback"
    /\ Len(worker_ch) < Cap
    /\ worker_ch' = Append(worker_ch, worker[j])
    /\ pc' = [pc EXCEPT ![j] = "done"]
    /\ UNCHANGED <<masterVars, reg, worker, wstate, nRPC, ops, kvs, fileVars>>

-----------------------------------------------------------------------------
(* The worker.                                                             *)

\* RunWorker's loop accepts the connection of job j.
Accept(w, j) ==
    /\ wstate[w] = "accepting"
    /\ nRPC[w] # 0
    /\ pc[j] = "call" /\ worker[j] = w
    /\ nRPC' = [nRPC EXCEPT ![w] = IF @ = -1 THEN -1 ELSE @ - 1]
    /\ pc' = [pc EXCEPT ![j] = "run"]
    /\ ops' = [ops EXCEPT ![j] = 0]
    /\ kvs' = [i \in Reduces |-> IF i = j THEN <<>> ELSE kvs[i]]
    /\ UNCHANGED <<masterVars, reg, worker_ch, worker, wstate, fileVars>>

\* The worker listens no more; the calls to it that are at one of pcs break.
Ended(w, pcs) ==
    /\ wstate' = [wstate EXCEPT ![w] = "closed"]
    /\ Failed({j \in Jobs : worker[j] = w /\ pc[j] \in pcs})

\* The loop ends: connections nobody accepted break, and those whose job is
\* being done or answered if the process ends with RunWorker (main/wc.go).
Close(w) ==
    /\ wstate[w] = "accepting"
    /\ nRPC[w] = 0
    /\ Ended(w, {"call"}) \/ Ended(w, {"call", "run", "reply"})
    /\ UNCHANGED <<masterVars, reg, worker_ch, worker, nRPC, ops, kvs, fileVars>>

\* The file operations of a job.
OpsOneMore(j) == IF j \in Maps THEN 2 * (nReduce + 1) ELSE nMap + 2
Ops(j) == IF j \in Maps THEN 2 * nReduce ELSE nMap + 2

\* wc.go: each word counts 1 ...
Map(value) == [i \in DOMAIN value |-> [key |-> value[i], value |-> 1]]

\* ... and the values of a key are summed up.
LastValue(key, values) == values[Len(values)]
Reduce(key, values) ==
    LET count[n \in 0 .. Len(values)] == IF n = 0 THEN 0 ELSE count[n - 1] + values[n]
    IN  count[Len(values)]

\* The pairs that have one of the keys, in their order.
OfKeys(pairs, keys) ==
    LET kept[n \in 0 .. Len(pairs)] ==
          IF n = 0 THEN <<>>
          ELSE IF pairs[n].key \in keys THEN Append(kept[n - 1], pairs[n]) ELSE kept[n - 1]
    IN  kept[Len(pairs)]

Partition(value, r) == OfKeys(Map(value), {w \in Words : Hash[w] % nReduce = r})

Reduced(pairs) ==
    [k \in {pairs[i].key : i \in DOMAIN pairs} |->
        LET list == OfKeys(pairs, {k})
        IN  Reduce(k, [i \in DOMAIN list |-> list[i].value])]

\* A map job whose split is not there takes its process down (log.Fatal).
MissesSplit(j) ==
    /\ j \in Maps
    /\ pc[j] = "run"
    /\ j[2] >= Len(splits)
    /\ Ended(worker[j], {"call", "run", "reply"})
    /\ UNCHANGED <<masterVars, reg, worker_ch, worker, nRPC, ops, kvs, fileVars>>

\* A job creates, and so empties, a file with one operation, and fills and
\* closes it with the next.
Reopened(file) == IF file = None THEN <<>> ELSE file
Created(file) == <<>>

DoMap(j) ==
    /\ j \in Maps
    /\ pc[j] = "run"
    /\ j[2] < Len(splits)
    /\ LET r == ops[j] \div 2 IN
       mid' = [mid EXCEPT ![<<j[2], r>>] =
                 IF ops[j] % 2 = 0 THEN Created(@) ELSE @ \o Partition(splits[j[2] + 1], r)]
    /\ ops' = [ops EXCEPT ![j] = @ + 1]
    /\ pc' = [pc EXCEPT ![j] = IF ops'[j] = Ops(j) THEN "reply" ELSE "run"]
    /\ UNCHANGED <<masterVars, reg, worker_ch, worker, wstate, nRPC, kvs, out>>

\* Read the file of every map job, then write the result.
DoReduce(j) ==
    /\ j \in Reduces
    /\ pc[j] = "run"
    /\ \/ /\ ops[j] < nMap
          /\ kvs' = [kvs EXCEPT ![j] = @ \o mid[<<ops[j], j[2]>>]]
          /\ UNCHANGED out
       \/ /\ ops[j] >= nMap
          /\ out' = [out EXCEPT ![j[2]] = IF ops[j] = nMap THEN Created(@) ELSE Reduced(kvs[j])]
          /\ UNCHANGED kvs
    /\ ops' = [ops EXCEPT ![j] = @ + 1]
    /\ pc' = [pc EXCEPT ![j] = IF ops'[j] = Ops(j) THEN "reply" ELSE "run"]
    /\ UNCHANGED <<masterVars, reg, worker_ch, worker, wstate, nRPC, mid>>

-----------------------------------------------------------------------------
(* Run and RunMaster.                                                      *)

Spawned(js) == pc' = [j \in Jobs |-> IF j \in js THEN "wait" ELSE pc[j]]
AnsweredAll(js) == \A j \in js : pc[j] \in {"reply", "putback", "done"}
DoneAll(js) == \A j \in js : pc[j] = "done"

\* The bytes of the first n lines, each as the scanner gives it with a newline.
Bytes(input) ==
    LET upto[n \in 0 .. Len(input.lines)] ==
          IF n = 0 THEN 0 ELSE upto[n - 1] + input.lines[n].bytes
    IN  upto

\* The bytes of the file: the scanner drops carriage returns at line ends.
size(input) ==
    Bytes(input)[Len(input.lines)] + input.returns - (IF input.bare THEN 1 ELSE 0)

ShareRoundedDown(input) == size(input) \div nMap
nchunk(input) == size(input) \div nMap + 1

\* Whole lines go to one file until the files have had their shares of the
\* bytes; then the next file is begun.
Write(files, line, i, share) ==
    IF i > share * Len(files) THEN Append(files, line.words)
    ELSE [files EXCEPT ![Len(files)] = @ \o line.words]

Written(input) ==
    LET files[n \in 0 .. Len(input.lines)] ==
          IF n = 0 THEN <<<<>>>>
          ELSE Write(files[n - 1], input.lines[n], Bytes(input)[n - 1], nchunk(input))
    IN  files

Split(input) == Written(input)[Len(input.lines)]

\* All words of a file, for the history.
WordsOf(input) ==
    LET words[n \in 0 .. Len(input.lines)] ==
          IF n = 0 THEN <<>> ELSE words[n - 1] \o input.lines[n].words
    IN  words[Len(input.lines)]

\* Nobody removes the split files of an earlier run.
StartMap ==
    /\ phase = "split"
    /\ phase' = "map"
    /\ \E input \in Inputs :
          /\ made' = Len(Split(input))
          /\ splits' = Split(input) \o SubSeq(splits, made' + 1, Len(splits))
          /\ text' = WordsOf(input)
    /\ Spawned(Maps)
    /\ UNCHANGED <<alive, result, reg, worker_ch, worker, wstate, nRPC, ops, kvs, fileVars>>

StartReduce ==
    /\ phase = "map"
    /\ DoneAll(Maps)
    /\ phase' = "reduce"
    /\ Spawned(Reduces)
    /\ UNCHANGED <<splits, made, text, alive, result, reg, worker_ch, worker, wstate, nRPC, ops, kvs, fileVars>>

\* The result files are read one after the other into one map: the last file
\* that has a key gives its value.
Merged(files) ==
    LET Having(k) == {i \in DOMAIN files : k \in DOMAIN files[i]}
        LastFile(k) == CHOOSE i \in Having(k) : \A n \in Having(k) : n <= i
    IN  [k \in UNION {DOMAIN files[i] : i \in DOMAIN files} |-> files[LastFile(k)][k]]

\* KillWorkers finds nobody in mr.Workers (nothing ever adds to it).
Merge ==
    /\ phase = "reduce"
    /\ DoneAll(Reduces)
    /\ phase' = "merged"
    /\ result' = Merged([i \in 1 .. nReduce |-> out[i - 1]])
    /\ UNCHANGED <<splits, made, text, alive, reg, worker_ch, pc, worker, wstate, nRPC, ops, kvs, fileVars>>

\* CleanupRegistration has the master shut its registration down.
Shutdown ==
    /\ phase = "merged"
    /\ alive' = FALSE
    /\ phase' = "done"
    /\ UNCHANGED <<splits, made, text, result, reg, worker_ch, pc, worker, wstate, nRPC, ops, kvs, fileVars>>

JobStep(j) == Take(j) \/ Dial(j) \/ Reply(j) \/ PutBack(j)
              \/ MissesSplit(j) \/ DoMap(j) \/ DoReduce(j)
WorkerStep(w) ==
    \/ StartWorker(w) \/ RegisterReceive(w) \/ Close(w)
    \/ \E j \in Jobs : Accept(w, j)
MasterStep == StartMap \/ StartReduce \/ Merge \/ Shutdown

Next ==
    \/ MasterStep
    \/ RegisterSend
    \/ \E j \in Jobs : JobStep(j)
    \/ \E w \in Workers : WorkerStep(w)

Spec == Init /\ [][Next]_vars

\* Goroutines run on.
FairSpec ==
    /\ Spec
    /\ WF_vars(MasterStep)
    /\ WF_vars(RegisterSend)
    /\ \A j \in Jobs : WF_vars(JobStep(j))
    /\ \A w \in Workers : WF_vars(WorkerStep(w))

-----------------------------------------------------------------------------
(* Properties.                                                             *)

TypeOK ==
    /\ phase \in {"split", "map", "reduce", "merged", "done"}
    /\ splits \in Seq(Seq(Words)) /\ made \in 0 .. Len(splits) /\ text \in Seq(Words)
    /\ alive \in BOOLEAN
    /\ reg \in Workers \cup {None, "end"}
    /\ worker_ch \in Seq(Workers) /\ Len(worker_ch) <= Cap
    /\ pc \in [Jobs -> {"none", "wait", "dial", "call", "run", "reply", "putback", "done"}]
    /\ worker \in [Jobs -> Workers \cup {None}]
    /\ wstate \in [Workers -> {"new", "registering", "accepting", "closed"}]
    /\ nRPC \in [Workers -> Nat \cup {-1}]
    /\ \A j \in Maps : ops[j] \in 0 .. 2 * nReduce
    /\ \A j \in Reduces : ops[j] \in 0 .. nMap + 2
    /\ kvs \in [Reduces -> Seq([key : Words, value : Nat])]
    /\ \A f \in (0 .. nMap - 1) \X (0 .. nReduce - 1) :
          mid[f] \in Seq([key : Words, value : Nat]) \cup {None}
    /\ \A r \in 0 .. nReduce - 1 : out[r] = None \/ DOMAIN out[r] \subseteq Words
    /\ result = None \/ DOMAIN result \subseteq Words

\* A worker is idle in the channel, or with the registration, or in the hands
\* of one job: it never has two jobs, whatever fails (master.go:36-59).
InHand(j) == pc[j] \in {"dial", "call", "run", "reply", "putback"}
OneJobPerWorker ==
    \A w \in Workers :
        Cardinality({i \in 1 .. Len(worker_ch) : worker_ch[i] = w})
        + Cardinality({j \in Jobs : InHand(j) /\ worker[j] = w})
        + (IF reg = w THEN 1 ELSE 0) <= 1

\* The result is what RunSingle computes from the split files one job after
\* the other (mapreduce.go:345): whatever jobs are cut off and repeated, none of
\* their files is read while it is not complete, and no word counts twice.
AllPairs(files, r) ==
    LET pairs[n \in 0 .. nMap] ==
          IF n = 0 THEN <<>>
          ELSE pairs[n - 1] \o (Created(None) \o Partition(files[n], r))
    IN  pairs

RunSingle == Merged([r \in 1 .. nReduce |-> Reduced(AllPairs(splits, r - 1)[nMap])])

SameAsSequential == result # None => result = RunSingle

\* The result has the words of the input, each as often as it is there
\* (test_test.go:81), if the run has made a split for every map job.
Occurrences(w, words) == Cardinality({i \in DOMAIN words : words[i] = w})
ResultIsWordCount ==
    result # None /\ made = nMap =>
        result = [w \in {text[i] : i \in DOMAIN text} |-> Occurrences(w, text)]

\* Once the map phase is over no repeated map job writes a file again.
MapFilesFrozen == [][phase \notin {"split", "map"} => UNCHANGED mid]_vars

\* No split is made that no map job reads (mapreduce.go:165-172): its lines
\* would be missing from the result.
EverySplitIsRead == made <= nMap

\* "Wait until MR is done" (test_test.go:142): the run comes to an end if every
\* map job has its split and a worker that stays has not missed its registration,
\* although others end with their jobs; that no worker is more than worker_ch
\* holds is the instance's.
RunEnds ==
    (/\ phase # "split" /\ Len(splits) = nMap
     /\ \E w \in Workers : NRPC[w] = -1 /\ wstate[w] \in {"new", "registering"})
        ~> phase = "done"
=============================================================================
