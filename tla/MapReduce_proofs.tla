---------------------------- MODULE MapReduce_proofs ----------------------------
(***************************************************************************)
(* Theorems about the master and the workers of lab3, for every number of  *)
(* workers and jobs, every input and every way in which workers end.       *)
(***************************************************************************)
EXTENDS MapReduce, DataLemmas, SequenceTheorems

\* What the assumption says of the constants, one fact each.
LEMMA Constants ==
    /\ nMap \in Nat \ {0} /\ nReduce \in Nat \ {0} /\ Cap \in Nat \ {0}
    /\ None \notin Workers /\ "end" \notin Workers
    /\ NRPC \in [Workers -> Nat \cup {-1}]
  BY MapReduceAssumption

\* The pairs that RunSingle reads for a result can be written down job by job:
\* the recursion is well defined.
LEMMA AllPairsStep ==
    ASSUME NEW files, NEW r
    PROVE  /\ AllPairs(files, r)[0] = <<>>
           /\ \A n \in 1 .. nMap :
                 AllPairs(files, r)[n]
                   = AllPairs(files, r)[n - 1] \o (Created(None) \o Partition(files[n], r))
<1> DEFINE Part(n) == Created(None) \o Partition(files[n], r)
           Body(p, k) == [n \in 0 .. k |-> IF n = 0 THEN <<>> ELSE p[n - 1] \o Part(n)]
           Bad == {k \in Nat : ~ \E p : p = Body(p, k)}
<1>1. AllPairs(files, r) = CHOOSE q : q = Body(q, nMap)
  BY DEF AllPairs
<1> HIDE DEF Part
<1>2. Bad = {}
  <2>1. ASSUME Bad # {} PROVE FALSE
    <3>1. PICK k \in Bad : \A x \in Bad : k <= x
      BY <2>1, Least
    <3>2. k \in Nat /\ ~ \E p : p = Body(p, k)
      BY <3>1
    <3>3. CASE k = 0
      <4> DEFINE p == [n \in 0 .. 0 |-> <<>>]
      <4>1. p = Body(p, 0)
        OBVIOUS
      <4> HIDE DEF p
      <4> QED
        BY <3>2, <3>3, <4>1
    <3>4. CASE k # 0
      <4>1. PICK p : p = Body(p, k - 1)
        <5>1. k - 1 \in Nat /\ ~ (k <= k - 1)
          BY <3>2, <3>4
        <5>2. k - 1 \notin Bad
          BY <3>1, <5>1
        <5> QED
          BY <5>1, <5>2
      <4> DEFINE q == [n \in 0 .. k |-> IF n < k THEN p[n] ELSE p[k - 1] \o Part(k)]
      <4>2. ASSUME NEW n \in 0 .. k
            PROVE  q[n] = IF n = 0 THEN <<>> ELSE q[n - 1] \o Part(n)
        <5>1. CASE n = k
          <6>1. q[n] = p[k - 1] \o Part(k) /\ q[n - 1] = p[k - 1]
            BY <3>2, <3>4, <5>1
          <6> QED
            BY <3>4, <5>1, <6>1
        <5>2. CASE n # k
          <6>1. n \in 0 .. k - 1 /\ n < k /\ (n # 0 => n - 1 \in 0 .. k /\ n - 1 < k)
            BY <3>2, <5>2
          <6>2. q[n] = p[n] /\ (n # 0 => q[n - 1] = p[n - 1])
            BY <6>1
          <6>3. p[n] = IF n = 0 THEN <<>> ELSE p[n - 1] \o Part(n)
            BY <4>1, <6>1
          <6> QED
            BY <6>2, <6>3
        <5> QED
          BY <5>1, <5>2
      <4>3. q = Body(q, k)
        <5>1. q = [n \in 0 .. k |-> q[n]]
          OBVIOUS
        <5> HIDE DEF q
        <5> QED
          BY <4>2, <5>1
      <4> HIDE DEF q
      <4> QED
        BY <3>2, <4>3
    <3> QED
      BY <3>3, <3>4
  <2> QED
    BY <2>1
<1>3. PICK p : p = Body(p, nMap)
  BY <1>2, Constants
<1> DEFINE P == AllPairs(files, r)
<1>4. P = Body(P, nMap)
  BY <1>1, <1>3
<1> HIDE DEF P
<1>5. P[0] = <<>> /\ \A n \in 1 .. nMap : P[n] = P[n - 1] \o Part(n)
  <2>1. 0 \in 0 .. nMap /\ \A n \in 1 .. nMap : n \in 0 .. nMap /\ n # 0
    BY Constants
  <2>2. \A n \in 0 .. nMap : P[n] = IF n = 0 THEN <<>> ELSE P[n - 1] \o Part(n)
    BY <1>4
  <2> QED
    BY <2>1, <2>2
<1> QED
  BY <1>5 DEF P, Part

-----------------------------------------------------------------------------
(* The inductive invariant.                                                *)

\* The control state has its types.
ControlTypes ==
    /\ phase \in {"split", "map", "reduce", "merged", "done"}
    /\ reg \in Workers \cup {None, "end"}
    /\ worker_ch \in Seq(Workers)
    /\ pc \in [Jobs -> {"none", "wait", "dial", "call", "run", "reply", "putback", "done"}]
    /\ worker \in [Jobs -> Workers \cup {None}]
    /\ wstate \in [Workers -> {"new", "registering", "accepting", "closed"}]

\* Jobs start with their phase, and a phase ends with its jobs.
PhasesInv ==
    /\ phase = "split" => \A j \in Jobs : pc[j] = "none"
    /\ phase = "map" => \A j \in Reduces : pc[j] = "none"
    /\ phase \in {"reduce", "merged", "done"} => DoneAll(Maps)
    /\ phase \in {"merged", "done"} => DoneAll(Reduces)

\* A worker is in one place: idle in the channel, with the registration, with
\* one job, or nowhere, as before it has registered.
Idle(w) == \E i \in 1 .. Len(worker_ch) : worker_ch[i] = w

PlacesInv ==
    /\ \A i, k \in 1 .. Len(worker_ch) : worker_ch[i] = worker_ch[k] => i = k
    /\ ~ Idle(reg)
    /\ \A j \in Jobs : InHand(j) =>
          /\ worker[j] \in Workers /\ worker[j] # reg /\ ~ Idle(worker[j])
          /\ \A k \in Jobs : InHand(k) /\ worker[k] = worker[j] => k = j
    /\ \A w \in Workers : wstate[w] \in {"new", "registering"} =>
          /\ w # reg /\ ~ Idle(w)
          /\ \A j \in Jobs : InHand(j) => worker[j] # w

ControlInv == ControlTypes /\ PhasesInv /\ PlacesInv

\* What map job m writes for result r.
MapFile(m, r) == Created(None) \o Partition(splits[m + 1], r)

Answered(j) == pc[j] \in {"reply", "putback", "done"}

\* What the execution of a map job has written so far: complete files, and
\* perhaps one that it has just created.
MapsInv ==
    /\ DOMAIN mid = (0 .. nMap - 1) \X (0 .. nReduce - 1)
    /\ \A j \in Maps :
          /\ pc[j] = "run" =>
                /\ ops[j] < 2 * nReduce
                /\ \A r \in 0 .. nReduce - 1 :
                      /\ 2 * r + 1 < ops[j] => mid[<<j[2], r>>] = MapFile(j[2], r)
                      /\ 2 * r + 1 = ops[j] => mid[<<j[2], r>>] = <<>>
          /\ Answered(j) => \A r \in 0 .. nReduce - 1 : mid[<<j[2], r>>] = MapFile(j[2], r)

\* What the execution of a reduce job has read so far, and what it has written.
ReducesInv ==
    /\ DOMAIN kvs = Reduces /\ DOMAIN out = 0 .. nReduce - 1
    /\ \A j \in Reduces :
          /\ pc[j] = "run" =>
                /\ ops[j] < nMap + 2
                /\ ops[j] <= nMap => kvs[j] = AllPairs(splits, j[2])[ops[j]]
                /\ ops[j] >= nMap => kvs[j] = AllPairs(splits, j[2])[nMap]
          /\ Answered(j) => out[j[2]] = Reduced(AllPairs(splits, j[2])[nMap])

FilesInv ==
    /\ DOMAIN ops = Jobs /\ \A j \in Jobs : ops[j] \in Nat
    /\ MapsInv
    /\ ReducesInv
    /\ result # None => phase # "split" /\ result = RunSingle

MapReduceInv == ControlInv /\ FilesInv

\* The jobs of the two phases are different ones.
LEMMA JobKinds ==
    /\ Jobs = Maps \cup Reduces /\ Maps \cap Reduces = {}
    /\ \A j \in Maps : j[1] = "Map" /\ j[2] \in 0 .. nMap - 1 /\ j = <<"Map", j[2]>>
    /\ \A j \in Reduces : j[1] = "Reduce" /\ j[2] \in 0 .. nReduce - 1 /\ j = <<"Reduce", j[2]>>
<1>1. \A j \in Maps : j[1] = "Map" /\ j[2] \in 0 .. nMap - 1 /\ j = <<"Map", j[2]>>
  BY DEF Maps
<1>2. \A j \in Reduces : j[1] = "Reduce" /\ j[2] \in 0 .. nReduce - 1 /\ j = <<"Reduce", j[2]>>
  BY DEF Reduces
<1> QED
  BY <1>1, <1>2 DEF Jobs

-----------------------------------------------------------------------------
(* The control: phases and places.                                         *)

\* Only jobs under way go on.
OthersStay == \A j \in Jobs : pc[j] \in {"none", "done"} => pc'[j] = pc[j]

\* Such a step keeps what is known of the phases.
LEMMA PhasesKept ==
    ASSUME PhasesInv, phase' = phase, OthersStay
    PROVE  PhasesInv'
<1>1. \A j \in Maps \cup Reduces : j \in Jobs
  BY DEF Jobs
<1>2. phase = "split" => \A j \in Jobs : pc'[j] = "none"
  BY DEF PhasesInv, OthersStay
<1>3. phase = "map" => \A j \in Reduces : pc'[j] = "none"
  BY <1>1 DEF PhasesInv, OthersStay
<1>4. phase \in {"reduce", "merged", "done"} => \A j \in Maps : pc'[j] = "done"
  BY <1>1 DEF PhasesInv, OthersStay, DoneAll
<1>5. phase \in {"merged", "done"} => \A j \in Reduces : pc'[j] = "done"
  BY <1>1 DEF PhasesInv, OthersStay, DoneAll
<1> QED
  BY <1>2, <1>3, <1>4, <1>5 DEF PhasesInv, DoneAll

\* No worker comes anywhere.
NobodyMoves ==
    /\ reg' = reg /\ worker_ch' = worker_ch /\ worker' = worker
    /\ \A j \in Jobs : InHand(j)' => InHand(j)
    /\ \A w \in Workers : wstate'[w] \in {"new", "registering"}
                             => wstate[w] \in {"new", "registering"}

\* Such a step leaves every worker in one place at most.
LEMMA PlacesKept ==
    ASSUME PlacesInv, NobodyMoves
    PROVE  PlacesInv'
<1>1. \A w : Idle(w)' <=> Idle(w)
  BY DEF Idle, NobodyMoves
<1>2. \A j \in Jobs : InHand(j)' => InHand(j)
  BY DEF NobodyMoves
<1>3. /\ reg' = reg /\ worker_ch' = worker_ch /\ worker' = worker
      /\ \A w \in Workers : wstate'[w] \in {"new", "registering"}
                               => wstate[w] \in {"new", "registering"}
  BY DEF NobodyMoves
<1>4. \A i, k \in 1 .. Len(worker_ch') : worker_ch'[i] = worker_ch'[k] => i = k
  BY <1>3 DEF PlacesInv
<1>5. ~ Idle(reg)'
  BY <1>3 DEF PlacesInv, Idle
<1>6. ASSUME NEW j \in Jobs, InHand(j)'
      PROVE  /\ worker'[j] \in Workers /\ worker'[j] # reg' /\ ~ Idle(worker[j])'
             /\ \A k \in Jobs : InHand(k)' /\ worker'[k] = worker'[j] => k = j
  <2>1. InHand(j)
    BY <1>2, <1>6
  <2>2. /\ worker[j] \in Workers /\ worker[j] # reg /\ ~ Idle(worker[j])
        /\ \A k \in Jobs : InHand(k) /\ worker[k] = worker[j] => k = j
    BY <2>1 DEF PlacesInv
  <2>3. ~ Idle(worker[j])'
    BY <1>3, <2>2 DEF Idle
  <2> QED
    BY <1>2, <1>3, <2>2, <2>3
<1>7. ASSUME NEW w \in Workers, wstate'[w] \in {"new", "registering"}
      PROVE  w # reg' /\ ~ Idle(w)' /\ \A j \in Jobs : InHand(j)' => worker'[j] # w
  BY <1>1, <1>2, <1>3, <1>7 DEF PlacesInv
<1> QED
  BY <1>4, <1>5, <1>6, <1>7 DEF PlacesInv

\* A step in which a worker ends or begins, or a job that has a worker goes on
\* or loses it.
LEMMA QuietStep ==
    ASSUME ControlInv,
           phase' = phase, reg' = reg, worker_ch' = worker_ch, worker' = worker,
           wstate' \in [Workers -> {"new", "registering", "accepting", "closed"}],
           \A w \in Workers : wstate'[w] \in {"new", "registering"}
                                 => wstate[w] \in {"new", "registering"},
           pc' \in [Jobs -> {"none", "wait", "dial", "call", "run", "reply", "putback", "done"}],
           \A j \in Jobs : pc'[j] = pc[j] \/ pc[j] \in {"dial", "call", "run", "reply"}
    PROVE  ControlInv'
<1>1. ControlTypes'
  BY DEF ControlInv, ControlTypes
<1>2. OthersStay
  BY DEF OthersStay
<1>3. NobodyMoves
  BY DEF NobodyMoves, InHand
<1> QED
  BY <1>1, <1>2, <1>3, PhasesKept, PlacesKept DEF ControlInv

\* A call fails, or a worker ends with the calls to it.
LEMMA FailedStep ==
    ASSUME ControlInv, NEW js \in SUBSET Jobs, Failed(js),
           \A j \in js : pc[j] \in {"dial", "call", "run", "reply"}
    PROVE  /\ pc' \in [Jobs -> {"none", "wait", "dial", "call", "run", "reply", "putback", "done"}]
           /\ \A j \in Jobs : pc'[j] = pc[j] \/ pc[j] \in {"dial", "call", "run", "reply"}
<1>1. pc' = [j \in Jobs |-> IF j \in js THEN "wait" ELSE pc[j]]
  BY DEF Failed
<1>2. \A j \in Jobs : pc[j] \in {"none", "wait", "dial", "call", "run", "reply", "putback", "done"}
  BY DEF ControlInv, ControlTypes
<1> HIDE DEF Jobs
<1> QED
  BY <1>1, <1>2

\* The loop of a worker ends with the calls to it.
LEMMA EndedStep ==
    ASSUME ControlInv, NEW w \in Workers, NEW pcs \in SUBSET {"call", "run", "reply"},
           Ended(w, pcs), phase' = phase, reg' = reg, worker_ch' = worker_ch, worker' = worker
    PROVE  ControlInv'
<1> DEFINE js == {j \in Jobs : worker[j] = w /\ pc[j] \in pcs}
<1>1. Failed(js) /\ wstate' = [wstate EXCEPT ![w] = "closed"]
  BY DEF Ended
<1>2. js \in SUBSET Jobs /\ \A j \in js : pc[j] \in {"dial", "call", "run", "reply"}
  OBVIOUS
<1> HIDE DEF js
<1>3. /\ pc' \in [Jobs -> {"none", "wait", "dial", "call", "run", "reply", "putback", "done"}]
      /\ \A j \in Jobs : pc'[j] = pc[j] \/ pc[j] \in {"dial", "call", "run", "reply"}
  BY <1>1, <1>2, FailedStep
<1>4. /\ wstate' \in [Workers -> {"new", "registering", "accepting", "closed"}]
      /\ \A x \in Workers : wstate'[x] \in {"new", "registering"}
                               => wstate[x] \in {"new", "registering"}
  BY <1>1 DEF ControlInv, ControlTypes
<1> QED
  BY <1>3, <1>4, QuietStep

\* Steps of a job that neither take a worker nor put it back.
LEMMA ControlJob ==
    ASSUME ControlInv, NEW j \in Jobs,
           Dial(j) \/ Reply(j) \/ MissesSplit(j) \/ DoMap(j) \/ DoReduce(j)
    PROVE  ControlInv'
<1>1. CASE MissesSplit(j)
  <2>1. worker[j] \in Workers
    BY <1>1 DEF MissesSplit, ControlInv, PlacesInv, InHand
  <2> QED
    BY <1>1, <2>1, EndedStep DEF MissesSplit, masterVars
<1>2. ASSUME Dial(j) \/ Reply(j) \/ DoMap(j) \/ DoReduce(j) PROVE ControlInv'
  <2>1. /\ phase' = phase /\ reg' = reg /\ worker_ch' = worker_ch /\ worker' = worker
        /\ wstate' = wstate /\ pc[j] \in {"dial", "call", "run", "reply"}
    BY <1>2 DEF Dial, Reply, DoMap, DoReduce, masterVars
  <2>2. \E p \in {"wait", "call", "run", "reply", "putback"} : pc' = [pc EXCEPT ![j] = p]
    <3>1. CASE Dial(j) /\ ~ Listening(worker[j])
      <4>1. pc' = [pc EXCEPT ![j] = "wait"]
        BY <3>1 DEF Dial, Failed, ControlInv, ControlTypes
      <4> QED
        BY <4>1
    <3>2. CASE Dial(j) /\ Listening(worker[j])
      BY <3>2 DEF Dial
    <3>3. CASE Reply(j)
      BY <3>3 DEF Reply
    <3>4. CASE DoMap(j)
      BY <3>4 DEF DoMap
    <3>5. CASE DoReduce(j)
      BY <3>5 DEF DoReduce
    <3> QED
      BY <1>2, <3>1, <3>2, <3>3, <3>4, <3>5
  <2>3. PICK p \in {"wait", "call", "run", "reply", "putback"} : pc' = [pc EXCEPT ![j] = p]
    BY <2>2
  <2>4. /\ pc' \in [Jobs -> {"none", "wait", "dial", "call", "run", "reply", "putback", "done"}]
        /\ \A k \in Jobs : pc'[k] = pc[k] \/ pc[k] \in {"dial", "call", "run", "reply"}
    BY <2>1, <2>3 DEF ControlInv, ControlTypes
  <2>5. wstate' \in [Workers -> {"new", "registering", "accepting", "closed"}]
    BY <2>1 DEF ControlInv, ControlTypes
  <2> QED
    BY <2>1, <2>4, <2>5, QuietStep
<1> QED
  BY <1>1, <1>2

\* Steps of a worker.
LEMMA ControlWorker ==
    ASSUME ControlInv, NEW w \in Workers,
           StartWorker(w) \/ Close(w) \/ \E j \in Jobs : Accept(w, j)
    PROVE  ControlInv'
<1>1. CASE StartWorker(w)
  <2>1. /\ phase' = phase /\ reg' = reg /\ worker_ch' = worker_ch /\ worker' = worker
        /\ pc' = pc /\ wstate[w] = "new"
        /\ \E p \in {"registering", "accepting"} : wstate' = [wstate EXCEPT ![w] = p]
    BY <1>1 DEF StartWorker, masterVars
  <2>2. /\ wstate' \in [Workers -> {"new", "registering", "accepting", "closed"}]
        /\ \A x \in Workers : wstate'[x] \in {"new", "registering"}
                                 => wstate[x] \in {"new", "registering"}
    BY <2>1 DEF ControlInv, ControlTypes
  <2>3. pc' \in [Jobs -> {"none", "wait", "dial", "call", "run", "reply", "putback", "done"}]
    BY <2>1 DEF ControlInv, ControlTypes
  <2> QED
    BY <2>1, <2>2, <2>3, QuietStep
<1>2. CASE Close(w)
  <2>1. Ended(w, {"call"}) \/ Ended(w, {"call", "run", "reply"})
    BY <1>2 DEF Close
  <2>2. phase' = phase /\ reg' = reg /\ worker_ch' = worker_ch /\ worker' = worker
    BY <1>2 DEF Close, masterVars
  <2>3. {"call"} \in SUBSET {"call", "run", "reply"}
    OBVIOUS
  <2> QED
    BY <2>1, <2>2, <2>3, EndedStep
<1>3. ASSUME NEW j \in Jobs, Accept(w, j) PROVE ControlInv'
  <2>1. /\ phase' = phase /\ reg' = reg /\ worker_ch' = worker_ch /\ worker' = worker
        /\ wstate' = wstate /\ pc[j] = "call" /\ pc' = [pc EXCEPT ![j] = "run"]
    BY <1>3 DEF Accept, masterVars
  <2>2. /\ pc' \in [Jobs -> {"none", "wait", "dial", "call", "run", "reply", "putback", "done"}]
        /\ \A k \in Jobs : pc'[k] = pc[k] \/ pc[k] \in {"dial", "call", "run", "reply"}
    BY <2>1 DEF ControlInv, ControlTypes
  <2>3. wstate' \in [Workers -> {"new", "registering", "accepting", "closed"}]
    BY <2>1 DEF ControlInv, ControlTypes
  <2> QED
    BY <2>1, <2>2, <2>3, QuietStep
<1> QED
  BY <1>1, <1>2, <1>3

\* A worker that is not idle yet enters the channel ...
LEMMA Enters ==
    ASSUME ControlInv, NEW x \in Workers, ~ Idle(x), worker_ch' = Append(worker_ch, x)
    PROVE  /\ worker_ch' \in Seq(Workers)
           /\ \A i, k \in 1 .. Len(worker_ch') : worker_ch'[i] = worker_ch'[k] => i = k
           /\ \A w : Idle(w)' <=> Idle(w) \/ w = x
<1>1. worker_ch \in Seq(Workers)
  BY DEF ControlInv, ControlTypes
<1>2. /\ worker_ch' \in Seq(Workers) /\ Len(worker_ch') = Len(worker_ch) + 1
      /\ worker_ch'[Len(worker_ch) + 1] = x
      /\ \A i \in 1 .. Len(worker_ch) : worker_ch'[i] = worker_ch[i]
  BY <1>1
<1>3. Len(worker_ch) \in Nat
  BY <1>1
<1>4. \A i, k \in 1 .. Len(worker_ch) : worker_ch[i] = worker_ch[k] => i = k
  BY DEF ControlInv, PlacesInv
<1>5. \A i \in 1 .. Len(worker_ch) : worker_ch[i] # x
  BY DEF Idle
<1>6. \A i, k \in 1 .. Len(worker_ch') : worker_ch'[i] = worker_ch'[k] => i = k
  BY <1>2, <1>3, <1>4, <1>5
<1>7. \A w : Idle(w)' <=> Idle(w) \/ w = x
  BY <1>2, <1>3 DEF Idle
<1> QED
  BY <1>2, <1>6, <1>7

\* ... and the first one leaves it.
LEMMA Leaves ==
    ASSUME ControlInv, worker_ch # <<>>, worker_ch' = Tail(worker_ch)
    PROVE  /\ worker_ch' \in Seq(Workers)
           /\ \A i, k \in 1 .. Len(worker_ch') : worker_ch'[i] = worker_ch'[k] => i = k
           /\ Head(worker_ch) \in Workers /\ Idle(Head(worker_ch))
           /\ \A w : Idle(w)' <=> Idle(w) /\ w # Head(worker_ch)
<1>1. worker_ch \in Seq(Workers)
  BY DEF ControlInv, ControlTypes
<1>2. /\ worker_ch' \in Seq(Workers) /\ Len(worker_ch') = Len(worker_ch) - 1
      /\ Head(worker_ch) = worker_ch[1] /\ Head(worker_ch) \in Workers
      /\ Len(worker_ch) \in Nat \ {0}
      /\ \A i \in 1 .. Len(worker_ch) - 1 : worker_ch'[i] = worker_ch[i + 1]
  BY <1>1
<1>3. \A i, k \in 1 .. Len(worker_ch) : worker_ch[i] = worker_ch[k] => i = k
  BY DEF ControlInv, PlacesInv
<1>4. \A i, k \in 1 .. Len(worker_ch') : worker_ch'[i] = worker_ch'[k] => i = k
  BY <1>2, <1>3
<1>5. Idle(Head(worker_ch))
  BY <1>2 DEF Idle
<1>6. ASSUME NEW w PROVE Idle(w)' <=> Idle(w) /\ w # Head(worker_ch)
  <2>1. ASSUME NEW i \in 1 .. Len(worker_ch'), worker_ch'[i] = w
        PROVE  Idle(w) /\ w # Head(worker_ch)
    <3>1. i + 1 \in 1 .. Len(worker_ch) /\ i + 1 # 1 /\ worker_ch[i + 1] = w
          /\ 1 \in 1 .. Len(worker_ch)
      BY <1>2, <2>1
    <3> QED
      BY <1>2, <1>3, <3>1 DEF Idle
  <2>2. ASSUME NEW i \in 1 .. Len(worker_ch), worker_ch[i] = w, w # Head(worker_ch)
        PROVE  Idle(w)'
    <3>1. i - 1 \in 1 .. Len(worker_ch') /\ worker_ch'[i - 1] = w
      BY <1>2, <2>2
    <3> QED
      BY <3>1 DEF Idle
  <2> QED
    BY <2>1, <2>2 DEF Idle
<1> QED
  BY <1>2, <1>4, <1>5, <1>6

\* A worker registers.
LEMMA ControlRegisterReceive ==
    ASSUME ControlInv, NEW w \in Workers, RegisterReceive(w)
    PROVE  ControlInv'
<1>1. /\ phase' = phase /\ reg' = w /\ worker_ch' = worker_ch /\ worker' = worker /\ pc' = pc
      /\ wstate[w] = "registering" /\ wstate' = [wstate EXCEPT ![w] = "accepting"]
  BY DEF RegisterReceive, masterVars
<1>2. ControlTypes'
  BY <1>1 DEF ControlInv, ControlTypes
<1>3. PhasesInv'
  BY <1>1, PhasesKept DEF ControlInv, OthersStay
<1>4. (\A x : Idle(x)' <=> Idle(x)) /\ \A j \in Jobs : InHand(j)' <=> InHand(j)
  BY <1>1 DEF Idle, InHand
<1>5. w # reg /\ ~ Idle(w) /\ \A j \in Jobs : InHand(j) => worker[j] # w
  BY <1>1 DEF ControlInv, PlacesInv
<1>6. ~ Idle(reg)'
  BY <1>1, <1>5 DEF Idle
<1>7. ASSUME NEW j \in Jobs, InHand(j)'
      PROVE  /\ worker'[j] \in Workers /\ worker'[j] # reg' /\ ~ Idle(worker[j])'
             /\ \A k \in Jobs : InHand(k)' /\ worker'[k] = worker'[j] => k = j
  <2>1. /\ worker[j] \in Workers /\ ~ Idle(worker[j])
        /\ \A k \in Jobs : InHand(k) /\ worker[k] = worker[j] => k = j
    BY <1>4, <1>7 DEF ControlInv, PlacesInv
  <2>2. ~ Idle(worker[j])'
    BY <1>1, <2>1 DEF Idle
  <2> QED
    BY <1>1, <1>4, <1>5, <1>7, <2>1, <2>2
<1>8. ASSUME NEW x \in Workers, wstate'[x] \in {"new", "registering"}
      PROVE  x # reg' /\ ~ Idle(x)' /\ \A j \in Jobs : InHand(j)' => worker'[j] # x
  <2>1. x # w /\ wstate[x] = wstate'[x]
    BY <1>1, <1>8 DEF ControlInv, ControlTypes
  <2> QED
    BY <1>1, <1>4, <1>8, <2>1 DEF ControlInv, PlacesInv
<1>9. \A i, k \in 1 .. Len(worker_ch') : worker_ch'[i] = worker_ch'[k] => i = k
  BY <1>1 DEF ControlInv, PlacesInv
<1>10. PlacesInv'
  BY <1>6, <1>7, <1>8, <1>9 DEF PlacesInv
<1> QED
  BY <1>2, <1>3, <1>10 DEF ControlInv

\* The registration passes a worker on.
LEMMA ControlRegisterSend ==
    ASSUME ControlInv, RegisterSend
    PROVE  ControlInv'
<1>1. /\ phase' = phase /\ reg \in Workers /\ reg' \in {None, "end"}
      /\ worker_ch' = Append(worker_ch, reg)
      /\ worker' = worker /\ pc' = pc /\ wstate' = wstate
  BY DEF RegisterSend, masterVars
<1>2. ~ Idle(reg)
  BY DEF ControlInv, PlacesInv
<1>3. /\ worker_ch' \in Seq(Workers)
      /\ \A i, k \in 1 .. Len(worker_ch') : worker_ch'[i] = worker_ch'[k] => i = k
      /\ \A w : Idle(w)' <=> Idle(w) \/ w = reg
  BY <1>1, <1>2, Enters
<1>4. ControlTypes'
  BY <1>1, <1>3 DEF ControlInv, ControlTypes
<1>5. PhasesInv'
  BY <1>1, PhasesKept DEF ControlInv, OthersStay
<1>6. reg' \notin Workers
  BY <1>1, Constants
<1>7. \A i \in 1 .. Len(worker_ch') : worker_ch'[i] \in Workers
  BY <1>3
<1>8. ~ Idle(reg)'
  BY <1>6, <1>7 DEF Idle
<1>9. ASSUME NEW j \in Jobs, InHand(j)'
      PROVE  /\ worker'[j] \in Workers /\ worker'[j] # reg' /\ ~ Idle(worker[j])'
             /\ \A k \in Jobs : InHand(k)' /\ worker'[k] = worker'[j] => k = j
  <2>1. \A k \in Jobs : InHand(k)' <=> InHand(k)
    BY <1>1 DEF InHand
  <2>2. /\ worker[j] \in Workers /\ worker[j] # reg /\ ~ Idle(worker[j])
        /\ \A k \in Jobs : InHand(k) /\ worker[k] = worker[j] => k = j
    BY <1>9, <2>1 DEF ControlInv, PlacesInv
  <2>3. ~ \E i \in 1 .. Len(worker_ch') : worker_ch'[i] = worker[j]
    BY <1>3, <2>2 DEF Idle
  <2>4. ~ Idle(worker[j])'
    BY <1>1, <2>3 DEF Idle
  <2> QED
    BY <1>1, <1>6, <2>1, <2>2, <2>4
<1>10. ASSUME NEW x \in Workers, wstate'[x] \in {"new", "registering"}
       PROVE  x # reg' /\ ~ Idle(x)' /\ \A j \in Jobs : InHand(j)' => worker'[j] # x
  BY <1>1, <1>3, <1>6, <1>10 DEF ControlInv, PlacesInv, InHand
<1>11. PlacesInv'
  BY <1>3, <1>8, <1>9, <1>10 DEF PlacesInv
<1> QED
  BY <1>4, <1>5, <1>11 DEF ControlInv

\* A job takes the first idle worker.
LEMMA ControlTake ==
    ASSUME ControlInv, NEW j \in Jobs, Take(j)
    PROVE  ControlInv'
<1> DEFINE h == Head(worker_ch)
<1>1. /\ phase' = phase /\ reg' = reg /\ worker_ch # <<>> /\ worker_ch' = Tail(worker_ch)
      /\ pc[j] = "wait" /\ worker' = [worker EXCEPT ![j] = h]
      /\ pc' = [pc EXCEPT ![j] = "dial"] /\ wstate' = wstate
  BY DEF Take, Left, masterVars
<1>2. /\ worker_ch' \in Seq(Workers)
      /\ \A i, k \in 1 .. Len(worker_ch') : worker_ch'[i] = worker_ch'[k] => i = k
      /\ h \in Workers /\ Idle(h)
      /\ \A w : Idle(w)' <=> Idle(w) /\ w # h
  BY <1>1, Leaves
<1> HIDE DEF h
<1>3. ControlTypes'
  BY <1>1, <1>2 DEF ControlInv, ControlTypes
<1>4. PhasesInv'
  <2>1. OthersStay
    BY <1>1 DEF ControlInv, ControlTypes, OthersStay
  <2> QED
    BY <1>1, <2>1, PhasesKept DEF ControlInv
<1>5. /\ pc' \in [Jobs -> {"none", "wait", "dial", "call", "run", "reply", "putback", "done"}]
      /\ worker'[j] = h
      /\ \A k \in Jobs \ {j} : pc'[k] = pc[k] /\ worker'[k] = worker[k]
  BY <1>1 DEF ControlInv, ControlTypes
<1>6. ~ Idle(reg) /\ reg # h
  BY <1>2 DEF ControlInv, PlacesInv
<1>7. ~ Idle(reg)'
  <2>1. ~ \E i \in 1 .. Len(worker_ch') : worker_ch'[i] = reg
    BY <1>2, <1>6 DEF Idle
  <2> QED
    BY <1>1, <2>1 DEF Idle
<1>8. \A k \in Jobs : InHand(k) => /\ worker[k] \in Workers /\ worker[k] # reg
                                   /\ ~ Idle(worker[k]) /\ worker[k] # h
  BY <1>2 DEF ControlInv, PlacesInv
<1>9. \A k \in Jobs \ {j} : (InHand(k)' <=> InHand(k)) /\ worker'[k] = worker[k]
  BY <1>5 DEF InHand
<1>10. ASSUME NEW k \in Jobs, InHand(k)'
       PROVE  /\ worker'[k] \in Workers /\ worker'[k] # reg' /\ ~ Idle(worker[k])'
              /\ \A i \in Jobs : InHand(i)' /\ worker'[i] = worker'[k] => i = k
  <2>1. CASE k = j
    <3>1. worker'[k] = h
      BY <1>5, <2>1
    <3>2. ~ \E i \in 1 .. Len(worker_ch') : worker_ch'[i] = h
      BY <1>2 DEF Idle
    <3>3. ~ Idle(worker[k])'
      BY <3>1, <3>2 DEF Idle
    <3>4. \A i \in Jobs : InHand(i)' /\ worker'[i] = worker'[k] => i = k
      BY <1>8, <1>9, <2>1, <3>1
    <3> QED
      BY <1>1, <1>2, <1>6, <3>1, <3>3, <3>4
  <2>2. CASE k # j
    <3>1. InHand(k) /\ worker'[k] = worker[k]
      BY <1>9, <1>10, <2>2
    <3>2. ~ \E i \in 1 .. Len(worker_ch') : worker_ch'[i] = worker[k]
      BY <1>2, <1>8, <3>1 DEF Idle
    <3>3. ~ Idle(worker[k])'
      BY <3>1, <3>2 DEF Idle
    <3>4. \A i \in Jobs : InHand(i)' /\ worker'[i] = worker'[k] => i = k
      <4>1. \A i \in Jobs : InHand(i) /\ worker[i] = worker[k] => i = k
        BY <3>1 DEF ControlInv, PlacesInv
      <4>2. worker'[j] # worker'[k]
        BY <1>5, <1>8, <3>1
      <4> QED
        BY <1>9, <3>1, <4>1, <4>2
    <3> QED
      BY <1>1, <1>8, <3>1, <3>3, <3>4
  <2> QED
    BY <2>1, <2>2
<1>11. ASSUME NEW x \in Workers, wstate'[x] \in {"new", "registering"}
       PROVE  x # reg' /\ ~ Idle(x)' /\ \A k \in Jobs : InHand(k)' => worker'[k] # x
  <2>1. x # reg /\ ~ Idle(x) /\ \A k \in Jobs : InHand(k) => worker[k] # x
    BY <1>1, <1>11 DEF ControlInv, PlacesInv
  <2>2. x # h
    BY <1>2, <2>1
  <2> QED
    BY <1>1, <1>2, <1>5, <1>9, <2>1, <2>2
<1>12. PlacesInv'
  BY <1>2, <1>7, <1>10, <1>11 DEF PlacesInv
<1> QED
  BY <1>3, <1>4, <1>12 DEF ControlInv

\* A job is done and puts its worker back.
LEMMA ControlPutBack ==
    ASSUME ControlInv, NEW j \in Jobs, PutBack(j)
    PROVE  ControlInv'
<1> DEFINE h == worker[j]
<1>1. /\ phase' = phase /\ reg' = reg /\ worker_ch' = Append(worker_ch, h)
      /\ pc[j] = "putback" /\ worker' = worker
      /\ pc' = [pc EXCEPT ![j] = "done"] /\ wstate' = wstate
  BY DEF PutBack, masterVars
<1>2. /\ InHand(j) /\ h \in Workers /\ h # reg /\ ~ Idle(h)
      /\ \A k \in Jobs : InHand(k) /\ worker[k] = h => k = j
  BY <1>1 DEF ControlInv, PlacesInv, InHand
<1> HIDE DEF h
<1>3. /\ worker_ch' \in Seq(Workers)
      /\ \A i, k \in 1 .. Len(worker_ch') : worker_ch'[i] = worker_ch'[k] => i = k
      /\ \A w : Idle(w)' <=> Idle(w) \/ w = h
  BY <1>1, <1>2, Enters
<1>4. ControlTypes'
  BY <1>1, <1>3 DEF ControlInv, ControlTypes
<1>5. PhasesInv'
  <2>1. OthersStay
    BY <1>1 DEF ControlInv, ControlTypes, OthersStay
  <2> QED
    BY <1>1, <2>1, PhasesKept DEF ControlInv
<1>6. \A k \in Jobs : InHand(k)' <=> InHand(k) /\ k # j
  BY <1>1 DEF InHand, ControlInv, ControlTypes
<1>7. ~ Idle(reg)'
  <2>1. ~ Idle(reg)
    BY DEF ControlInv, PlacesInv
  <2>2. ~ \E i \in 1 .. Len(worker_ch') : worker_ch'[i] = reg
    BY <1>2, <1>3, <2>1 DEF Idle
  <2> QED
    BY <1>1, <2>2 DEF Idle
<1>8. ASSUME NEW k \in Jobs, InHand(k)'
      PROVE  /\ worker'[k] \in Workers /\ worker'[k] # reg' /\ ~ Idle(worker[k])'
             /\ \A i \in Jobs : InHand(i)' /\ worker'[i] = worker'[k] => i = k
  <2>1. InHand(k) /\ k # j
    BY <1>6, <1>8
  <2>2. /\ worker[k] \in Workers /\ worker[k] # reg /\ ~ Idle(worker[k])
        /\ \A i \in Jobs : InHand(i) /\ worker[i] = worker[k] => i = k
    BY <2>1 DEF ControlInv, PlacesInv
  <2>3. ~ \E i \in 1 .. Len(worker_ch') : worker_ch'[i] = worker[k]
    BY <1>2, <1>3, <2>1, <2>2 DEF Idle
  <2>4. ~ Idle(worker[k])'
    BY <1>1, <2>3 DEF Idle
  <2> QED
    BY <1>1, <1>6, <2>2, <2>4
<1>9. ASSUME NEW x \in Workers, wstate'[x] \in {"new", "registering"}
      PROVE  x # reg' /\ ~ Idle(x)' /\ \A k \in Jobs : InHand(k)' => worker'[k] # x
  <2>1. x # reg /\ ~ Idle(x) /\ \A k \in Jobs : InHand(k) => worker[k] # x
    BY <1>1, <1>9 DEF ControlInv, PlacesInv
  <2>2. x # h
    BY <1>2, <2>1 DEF h
  <2> QED
    BY <1>1, <1>3, <1>6, <2>1, <2>2
<1>10. PlacesInv'
  BY <1>3, <1>7, <1>8, <1>9 DEF PlacesInv
<1> QED
  BY <1>4, <1>5, <1>10 DEF ControlInv

\* A phase begins, or Run goes on after the last one.
LEMMA ControlMaster ==
    ASSUME ControlInv, MasterStep
    PROVE  ControlInv'
<1>1. /\ reg' = reg /\ worker_ch' = worker_ch /\ worker' = worker /\ wstate' = wstate
  BY DEF MasterStep, StartMap, StartReduce, Merge, Shutdown, fileVars
<1>2. /\ pc' \in [Jobs -> {"none", "wait", "dial", "call", "run", "reply", "putback", "done"}]
      /\ \A j \in Jobs : pc'[j] = pc[j] \/ pc'[j] = "wait"
      /\ phase' \in {"map", "reduce", "merged", "done"}
      /\ PhasesInv'
  <2>1. pc \in [Jobs -> {"none", "wait", "dial", "call", "run", "reply", "putback", "done"}]
    BY DEF ControlInv, ControlTypes
  <2>2. CASE StartMap
    <3>1. /\ phase = "split" /\ phase' = "map"
          /\ pc' = [j \in Jobs |-> IF j \in Maps THEN "wait" ELSE pc[j]]
      BY <2>2 DEF StartMap, Spawned
    <3>2. \A j \in Reduces : j \in Jobs /\ j \notin Maps
      BY JobKinds
    <3>3. \A j \in Reduces : pc'[j] = "none"
      BY <3>1, <3>2 DEF ControlInv, PhasesInv
    <3>4. PhasesInv'
      BY <3>1, <3>3 DEF PhasesInv
    <3> QED
      BY <2>1, <3>1, <3>4
  <2>3. CASE StartReduce
    <3>1. /\ phase' = "reduce" /\ DoneAll(Maps)
          /\ pc' = [j \in Jobs |-> IF j \in Reduces THEN "wait" ELSE pc[j]]
      BY <2>3 DEF StartReduce, Spawned
    <3>2. \A j \in Maps : j \in Jobs /\ j \notin Reduces
      BY JobKinds
    <3>3. \A j \in Maps : pc'[j] = "done"
      BY <3>1, <3>2 DEF DoneAll
    <3>4. PhasesInv'
      BY <3>1, <3>3 DEF PhasesInv, DoneAll
    <3> QED
      BY <2>1, <3>1, <3>4
  <2>4. CASE Merge
    <3>1. phase = "reduce" /\ phase' = "merged" /\ DoneAll(Reduces) /\ pc' = pc
      BY <2>4 DEF Merge
    <3>2. PhasesInv'
      BY <3>1 DEF ControlInv, PhasesInv, DoneAll
    <3> QED
      BY <2>1, <3>1, <3>2
  <2>5. CASE Shutdown
    <3>1. phase = "merged" /\ phase' = "done" /\ pc' = pc
      BY <2>5 DEF Shutdown
    <3>2. PhasesInv'
      BY <3>1 DEF ControlInv, PhasesInv, DoneAll
    <3> QED
      BY <2>1, <3>1, <3>2
  <2> QED
    BY <2>2, <2>3, <2>4, <2>5 DEF MasterStep
<1>3. NobodyMoves
  BY <1>1, <1>2 DEF NobodyMoves, InHand
<1>4. ControlTypes'
  BY <1>1, <1>2 DEF ControlInv, ControlTypes
<1> QED
  BY <1>2, <1>3, <1>4, PlacesKept DEF ControlInv

\* InitMapReduce makes the control part hold: nobody is anywhere.
LEMMA ControlInit == Init => ControlInv
<1> SUFFICES ASSUME Init PROVE ControlInv
  OBVIOUS
<1>1. /\ phase = "split" /\ reg = None /\ worker_ch = <<>>
      /\ pc = [j \in Jobs |-> "none"] /\ worker = [j \in Jobs |-> None]
      /\ wstate = [w \in Workers |-> "new"]
  BY DEF Init
<1>2. ControlTypes
  BY <1>1 DEF ControlTypes
<1>3. PhasesInv
  BY <1>1 DEF PhasesInv
<1>4. ~ \E w : Idle(w)
  BY <1>1 DEF Idle
<1>5. \A j \in Jobs : ~ InHand(j)
  BY <1>1 DEF InHand
<1>6. PlacesInv
  BY <1>1, <1>4, <1>5, Constants DEF PlacesInv
<1> QED
  BY <1>2, <1>3, <1>6 DEF ControlInv

\* Every step keeps the control part, whatever becomes of the files.
LEMMA ControlStep == ControlInv /\ [Next]_vars => ControlInv'
<1> SUFFICES ASSUME ControlInv, [Next]_vars PROVE ControlInv'
  OBVIOUS
<1>1. CASE MasterStep
  BY <1>1, ControlMaster
<1>2. CASE RegisterSend
  BY <1>2, ControlRegisterSend
<1>3. ASSUME NEW j \in Jobs, JobStep(j) PROVE ControlInv'
  BY <1>3, ControlTake, ControlPutBack, ControlJob DEF JobStep
<1>4. ASSUME NEW w \in Workers, WorkerStep(w) PROVE ControlInv'
  BY <1>4, ControlRegisterReceive, ControlWorker DEF WorkerStep
<1>5. CASE UNCHANGED vars
  <2>1. /\ phase' = phase /\ reg' = reg /\ worker_ch' = worker_ch /\ pc' = pc
        /\ worker' = worker /\ wstate' = wstate
    BY <1>5 DEF vars, masterVars
  <2>2. /\ wstate' \in [Workers -> {"new", "registering", "accepting", "closed"}]
        /\ pc' \in [Jobs -> {"none", "wait", "dial", "call", "run", "reply", "putback", "done"}]
    BY <2>1 DEF ControlInv, ControlTypes
  <2> QED
    BY <2>1, <2>2, QuietStep
<1> QED
  BY <1>1, <1>2, <1>3, <1>4, <1>5 DEF Next

-----------------------------------------------------------------------------
(* The files.                                                              *)

\* A step that touches no file keeps what is known of the files, unless an
\* execution begins or ends.
LEMMA FilesKept ==
    ASSUME FilesInv, phase # "split" => phase' # "split", splits' = splits, mid' = mid,
           out' = out, kvs' = kvs, ops' = ops, result' = result,
           \A j \in Jobs : /\ pc'[j] = "run" => pc[j] = "run"
                           /\ Answered(j)' => Answered(j)
    PROVE  FilesInv'
<1>1. \A j \in Maps \cup Reduces : /\ pc'[j] = "run" => pc[j] = "run"
                                   /\ Answered(j)' => Answered(j)
  BY DEF Jobs
<1>2. MapsInv'
  <2>1. \A m, r : MapFile(m, r)' = MapFile(m, r)
    BY DEF MapFile
  <2>2. DOMAIN mid' = (0 .. nMap - 1) \X (0 .. nReduce - 1)
    BY DEF FilesInv, MapsInv
  <2>3. ASSUME NEW j \in Maps, pc'[j] = "run"
        PROVE  /\ ops'[j] < 2 * nReduce
               /\ \A r \in 0 .. nReduce - 1 :
                     /\ 2 * r + 1 < ops'[j] => mid'[<<j[2], r>>] = MapFile(j[2], r)'
                     /\ 2 * r + 1 = ops'[j] => mid'[<<j[2], r>>] = <<>>
    <3>1. pc[j] = "run"
      BY <1>1, <2>3
    <3> QED
      BY <2>1, <3>1 DEF FilesInv, MapsInv
  <2>4. ASSUME NEW j \in Maps, Answered(j)'
        PROVE  \A r \in 0 .. nReduce - 1 : mid'[<<j[2], r>>] = MapFile(j[2], r)'
    <3>1. Answered(j)
      BY <1>1, <2>4
    <3> QED
      BY <2>1, <3>1 DEF FilesInv, MapsInv
  <2> QED
    BY <2>2, <2>3, <2>4 DEF MapsInv
<1>3. ReducesInv'
  <2>1. ASSUME NEW j \in Reduces, pc'[j] = "run"
        PROVE  /\ ops'[j] < nMap + 2
               /\ ops'[j] <= nMap => kvs'[j] = AllPairs(splits', j[2])[ops'[j]]
               /\ ops'[j] >= nMap => kvs'[j] = AllPairs(splits', j[2])[nMap]
    <3>1. pc[j] = "run"
      BY <1>1, <2>1
    <3> QED
      BY <3>1 DEF FilesInv, ReducesInv
  <2>2. ASSUME NEW j \in Reduces, Answered(j)'
        PROVE  out'[j[2]] = Reduced(AllPairs(splits', j[2])[nMap])
    <3>1. Answered(j)
      BY <1>1, <2>2
    <3> QED
      BY <3>1 DEF FilesInv, ReducesInv
  <2>3. DOMAIN kvs' = Reduces /\ DOMAIN out' = 0 .. nReduce - 1
    BY DEF FilesInv, ReducesInv
  <2> QED
    BY <2>1, <2>2, <2>3 DEF ReducesInv
<1>4. result' # None => phase' # "split" /\ result' = RunSingle'
  BY DEF FilesInv, RunSingle
<1>5. DOMAIN ops' = Jobs /\ \A j \in Jobs : ops'[j] \in Nat
  BY DEF FilesInv
<1> QED
  BY <1>2, <1>3, <1>4, <1>5 DEF FilesInv

\* A worker accepts a job: nothing is written yet.
LEMMA FilesAccept ==
    ASSUME MapReduceInv, NEW w \in Workers, NEW j \in Jobs, Accept(w, j)
    PROVE  FilesInv'
<1>1. /\ phase' = phase /\ splits' = splits /\ mid' = mid /\ out' = out /\ result' = result
      /\ pc[j] = "call" /\ pc' = [pc EXCEPT ![j] = "run"]
      /\ ops' = [ops EXCEPT ![j] = 0]
      /\ kvs' = [i \in Reduces |-> IF i = j THEN <<>> ELSE kvs[i]]
  BY DEF Accept, masterVars, fileVars
<1>2. /\ DOMAIN ops' = Jobs /\ ops'[j] = 0 /\ \A k \in Jobs : ops'[k] \in Nat
      /\ \A k \in Jobs \ {j} : ops'[k] = ops[k] /\ pc'[k] = pc[k]
      /\ pc'[j] = "run"
  BY <1>1 DEF MapReduceInv, ControlInv, ControlTypes, FilesInv
<1>3. MapsInv'
  <2>1. \A m, r : MapFile(m, r)' = MapFile(m, r)
    BY <1>1 DEF MapFile
  <2>2. ASSUME NEW k \in Maps, k # j
        PROVE  /\ pc'[k] = "run" =>
                     /\ ops'[k] < 2 * nReduce
                     /\ \A r \in 0 .. nReduce - 1 :
                           /\ 2 * r + 1 < ops'[k] => mid'[<<k[2], r>>] = MapFile(k[2], r)'
                           /\ 2 * r + 1 = ops'[k] => mid'[<<k[2], r>>] = <<>>
               /\ Answered(k)' => \A r \in 0 .. nReduce - 1 : mid'[<<k[2], r>>] = MapFile(k[2], r)'
    <3>1. k \in Jobs /\ pc'[k] = pc[k] /\ ops'[k] = ops[k]
      BY <1>2, <2>2, JobKinds
    <3>2. Answered(k)' <=> Answered(k)
      BY <3>1 DEF Answered
    <3> QED
      BY <1>1, <2>1, <3>1, <3>2 DEF MapReduceInv, FilesInv, MapsInv
  <2>3. ASSUME NEW k \in Maps, k = j
        PROVE  /\ ~ Answered(k)' /\ ops'[k] < 2 * nReduce
               /\ \A r \in 0 .. nReduce - 1 : ~ (2 * r + 1 < ops'[k]) /\ ~ (2 * r + 1 = ops'[k])
    BY <1>2, <2>3, Constants DEF Answered
  <2>4. DOMAIN mid' = (0 .. nMap - 1) \X (0 .. nReduce - 1)
    BY <1>1 DEF MapReduceInv, FilesInv, MapsInv
  <2> QED
    BY <2>2, <2>3, <2>4 DEF MapsInv
<1>4. ReducesInv'
  <2>1. ASSUME NEW k \in Reduces, k # j
        PROVE  /\ pc'[k] = "run" =>
                     /\ ops'[k] < nMap + 2
                     /\ ops'[k] <= nMap => kvs'[k] = AllPairs(splits', k[2])[ops'[k]]
                     /\ ops'[k] >= nMap => kvs'[k] = AllPairs(splits', k[2])[nMap]
               /\ Answered(k)' => out'[k[2]] = Reduced(AllPairs(splits', k[2])[nMap])
    <3>1. k \in Jobs /\ pc'[k] = pc[k] /\ ops'[k] = ops[k] /\ kvs'[k] = kvs[k]
      BY <1>1, <1>2, <2>1, JobKinds
    <3>2. Answered(k)' <=> Answered(k)
      BY <3>1 DEF Answered
    <3> QED
      BY <1>1, <3>1, <3>2 DEF MapReduceInv, FilesInv, ReducesInv
  <2>2. ASSUME NEW k \in Reduces, k = j
        PROVE  /\ ~ Answered(k)' /\ ops'[k] = 0 /\ 0 < nMap + 2 /\ ~ (0 >= nMap)
               /\ kvs'[k] = AllPairs(splits', k[2])[0]
    <3>1. kvs'[k] = <<>> /\ AllPairs(splits', k[2])[0] = <<>>
      BY <1>1, <2>2, AllPairsStep
    <3>2. ~ Answered(k)'
      BY <1>2, <2>2 DEF Answered
    <3>3. ops'[k] = 0 /\ 0 < nMap + 2 /\ ~ (0 >= nMap)
      BY <1>2, <2>2, Constants
    <3> QED
      BY <3>1, <3>2, <3>3
  <2>3. DOMAIN kvs' = Reduces /\ DOMAIN out' = 0 .. nReduce - 1
    BY <1>1 DEF MapReduceInv, FilesInv, ReducesInv
  <2> QED
    BY <2>1, <2>2, <2>3 DEF ReducesInv
<1>5. result' # None => phase' # "split" /\ result' = RunSingle'
  BY <1>1 DEF MapReduceInv, FilesInv, RunSingle
<1> QED
  BY <1>2, <1>3, <1>4, <1>5 DEF FilesInv

\* A map job creates a file, or fills and closes the file that it has created.
LEMMA FilesDoMap ==
    ASSUME MapReduceInv, NEW j \in Jobs, DoMap(j)
    PROVE  FilesInv'
<1> DEFINE n == ops[j]
           f == n \div 2
<1>1. /\ phase' = phase /\ splits' = splits /\ kvs' = kvs /\ out' = out /\ result' = result
      /\ pc[j] = "run" /\ j \in Maps
      /\ mid' = [mid EXCEPT ![<<j[2], f>>] =
                   IF n % 2 = 0 THEN Created(@) ELSE @ \o Partition(splits[j[2] + 1], f)]
      /\ ops' = [ops EXCEPT ![j] = @ + 1]
      /\ pc' = [pc EXCEPT ![j] = IF ops'[j] = Ops(j) THEN "reply" ELSE "run"]
  BY DEF DoMap, masterVars
<1>2. n \in Nat /\ n < 2 * nReduce
  BY <1>1 DEF MapReduceInv, FilesInv, MapsInv
<1>3. /\ DOMAIN ops' = Jobs /\ ops'[j] = n + 1 /\ \A k \in Jobs : ops'[k] \in Nat
      /\ \A k \in Jobs \ {j} : ops'[k] = ops[k] /\ pc'[k] = pc[k]
      /\ pc'[j] = IF n + 1 = 2 * nReduce THEN "reply" ELSE "run"
  <2>1. Ops(j) = 2 * nReduce
    BY <1>1 DEF Ops
  <2>2. DOMAIN ops = Jobs /\ \A k \in Jobs : ops[k] \in Nat
    BY DEF MapReduceInv, FilesInv
  <2>3. DOMAIN pc = Jobs
    BY DEF MapReduceInv, ControlInv, ControlTypes
  <2> QED
    BY <1>1, <1>2, <2>1, <2>2, <2>3
<1>4. f \in 0 .. nReduce - 1 /\ (n = 2 * f \/ n = 2 * f + 1) /\ (n % 2 = 0 <=> n = 2 * f)
  BY <1>2, Constants
<1>5. j[2] \in 0 .. nMap - 1 /\ <<j[2], f>> \in DOMAIN mid
  BY <1>1, <1>4, JobKinds DEF MapReduceInv, FilesInv, MapsInv
<1> HIDE DEF n, f
<1>6. /\ DOMAIN mid' = DOMAIN mid
      /\ \A x \in DOMAIN mid : x # <<j[2], f>> => mid'[x] = mid[x]
      /\ n = 2 * f => mid'[<<j[2], f>>] = <<>>
      /\ n = 2 * f + 1 => mid'[<<j[2], f>>] = MapFile(j[2], f)
  <2>1. CASE n = 2 * f
    <3>1. mid' = [mid EXCEPT ![<<j[2], f>>] = <<>>]
      BY <1>1, <1>4, <2>1 DEF Created
    <3> QED
      BY <1>4, <1>5, <2>1, <3>1
  <2>2. CASE n = 2 * f + 1
    <3>1. n # 2 * f
      BY <1>4, <2>2
    <3>2. mid[<<j[2], f>>] = Created(None)
      <4>1. 2 * f + 1 = ops[j]
        BY <2>2 DEF n
      <4> QED
        BY <1>1, <1>4, <4>1 DEF MapReduceInv, FilesInv, MapsInv, Created
    <3>3. mid' = [mid EXCEPT ![<<j[2], f>>] = MapFile(j[2], f)]
      BY <1>1, <1>4, <3>1, <3>2 DEF MapFile
    <3> QED
      BY <1>5, <3>1, <3>3
  <2> QED
    BY <1>4, <2>1, <2>2
<1>7. \A m, r : MapFile(m, r)' = MapFile(m, r)
  BY <1>1 DEF MapFile
<1>8. MapsInv'
  <2>1. ASSUME NEW k \in Maps, k # j
        PROVE  /\ pc'[k] = "run" =>
                     /\ ops'[k] < 2 * nReduce
                     /\ \A r \in 0 .. nReduce - 1 :
                           /\ 2 * r + 1 < ops'[k] => mid'[<<k[2], r>>] = MapFile(k[2], r)'
                           /\ 2 * r + 1 = ops'[k] => mid'[<<k[2], r>>] = <<>>
               /\ Answered(k)' => \A r \in 0 .. nReduce - 1 : mid'[<<k[2], r>>] = MapFile(k[2], r)'
    <3>1. k \in Jobs /\ pc'[k] = pc[k] /\ ops'[k] = ops[k]
      BY <1>3, <2>1, JobKinds
    <3>2. Answered(k)' <=> Answered(k)
      BY <3>1 DEF Answered
    <3>3. \A r \in 0 .. nReduce - 1 : mid'[<<k[2], r>>] = mid[<<k[2], r>>]
      <4>1. k[2] # j[2] /\ k[2] \in 0 .. nMap - 1
        BY <1>1, <2>1, JobKinds
      <4> QED
        BY <1>6, <4>1 DEF MapReduceInv, FilesInv, MapsInv
    <3> QED
      BY <1>7, <3>1, <3>2, <3>3 DEF MapReduceInv, FilesInv, MapsInv
  <2>2. ASSUME NEW r \in 0 .. nReduce - 1
        PROVE  /\ 2 * r + 1 < n + 1 => mid'[<<j[2], r>>] = MapFile(j[2], r)'
               /\ 2 * r + 1 = n + 1 => mid'[<<j[2], r>>] = <<>>
    <3>1. CASE r = f
      BY <1>2, <1>4, <1>6, <1>7, <3>1
    <3>2. CASE r # f
      <4>1. mid'[<<j[2], r>>] = mid[<<j[2], r>>]
        BY <1>5, <1>6, <3>2 DEF MapReduceInv, FilesInv, MapsInv
      <4>2. 2 * r + 1 < n + 1 => 2 * r + 1 < ops[j]
        BY <1>2, <1>4, <3>2 DEF n
      <4>3. 2 * r + 1 # n + 1
        BY <1>2, <1>4, <3>2
      <4>4. 2 * r + 1 < ops[j] => mid[<<j[2], r>>] = MapFile(j[2], r)
        BY <1>1 DEF MapReduceInv, FilesInv, MapsInv
      <4> QED
        BY <1>7, <4>1, <4>2, <4>3, <4>4
    <3> QED
      BY <3>1, <3>2
  <2>3. pc'[j] = "run" => ops'[j] < 2 * nReduce
    BY <1>2, <1>3, Constants
  <2>4. ASSUME Answered(j)', NEW r \in 0 .. nReduce - 1
        PROVE  mid'[<<j[2], r>>] = MapFile(j[2], r)'
    <3>1. n + 1 = 2 * nReduce
      BY <1>3, <2>4 DEF Answered
    <3>2. 2 * r + 1 < n + 1
      BY <1>2, <3>1, Constants
    <3> QED
      BY <2>2, <3>2
  <2>5. DOMAIN mid' = (0 .. nMap - 1) \X (0 .. nReduce - 1)
    BY <1>6 DEF MapReduceInv, FilesInv, MapsInv
  <2> QED
    BY <1>3, <2>1, <2>2, <2>3, <2>4, <2>5 DEF MapsInv
<1>9. ReducesInv'
  <2>1. ASSUME NEW k \in Reduces
        PROVE  pc'[k] = pc[k] /\ ops'[k] = ops[k] /\ (Answered(k)' <=> Answered(k))
    <3>1. k \in Jobs /\ k # j
      BY <1>1, JobKinds
    <3> QED
      BY <1>3, <3>1 DEF Answered
  <2> QED
    BY <1>1, <2>1 DEF MapReduceInv, FilesInv, ReducesInv
<1>10. result' # None => phase' # "split" /\ result' = RunSingle'
  BY <1>1 DEF MapReduceInv, FilesInv, RunSingle
<1> QED
  BY <1>3, <1>8, <1>9, <1>10 DEF FilesInv

\* A reduce job reads the next of the map files, all of which are complete, or
\* creates or fills its result file.
LEMMA FilesDoReduce ==
    ASSUME MapReduceInv, NEW j \in Jobs, DoReduce(j)
    PROVE  FilesInv'
<1> DEFINE n == ops[j]
           pairs == AllPairs(splits, j[2])
<1>1. /\ phase' = phase /\ splits' = splits /\ mid' = mid /\ result' = result
      /\ pc[j] = "run" /\ j \in Reduces
      /\ ops' = [ops EXCEPT ![j] = @ + 1]
      /\ pc' = [pc EXCEPT ![j] = IF ops'[j] = Ops(j) THEN "reply" ELSE "run"]
  BY DEF DoReduce, masterVars
<1>2. \/ n < nMap /\ kvs' = [kvs EXCEPT ![j] = @ \o mid[<<n, j[2]>>]] /\ out' = out
      \/ n >= nMap /\ kvs' = kvs
         /\ out' = [out EXCEPT ![j[2]] = IF n = nMap THEN Created(@) ELSE Reduced(kvs[j])]
  BY DEF DoReduce
<1>3. n \in Nat /\ n < nMap + 2
      /\ (n <= nMap => kvs[j] = pairs[n]) /\ (n >= nMap => kvs[j] = pairs[nMap])
      /\ DOMAIN kvs = Reduces /\ DOMAIN out = 0 .. nReduce - 1
      /\ j[2] \in 0 .. nReduce - 1
  BY <1>1, JobKinds DEF MapReduceInv, FilesInv, ReducesInv
<1>4. /\ DOMAIN ops' = Jobs /\ ops'[j] = n + 1 /\ \A k \in Jobs : ops'[k] \in Nat
      /\ \A k \in Jobs \ {j} : ops'[k] = ops[k] /\ pc'[k] = pc[k]
      /\ pc'[j] = IF n + 1 = nMap + 2 THEN "reply" ELSE "run"
  <2>1. Ops(j) = nMap + 2
    BY <1>1, JobKinds DEF Ops
  <2>2. DOMAIN ops = Jobs /\ \A k \in Jobs : ops[k] \in Nat
    BY DEF MapReduceInv, FilesInv
  <2>3. DOMAIN pc = Jobs
    BY DEF MapReduceInv, ControlInv, ControlTypes
  <2> QED
    BY <1>1, <1>3, <2>1, <2>2, <2>3
<1>5. n < nMap => mid[<<n, j[2]>>] = MapFile(n, j[2])
  <2>1. SUFFICES ASSUME n < nMap PROVE mid[<<n, j[2]>>] = MapFile(n, j[2])
    OBVIOUS
  <2> DEFINE k == <<"Map", n>>
  <2>2. k \in Maps /\ k \in Jobs /\ k[2] = n
    <3>1. n \in 0 .. nMap - 1
      BY <1>3, <2>1, Constants
    <3> HIDE DEF n
    <3> QED
      BY <3>1, JobKinds DEF Maps
  <2>3. phase \notin {"split", "map"}
    BY <1>1 DEF MapReduceInv, ControlInv, PhasesInv
  <2>4. phase \in {"reduce", "merged", "done"}
    BY <2>3 DEF MapReduceInv, ControlInv, ControlTypes
  <2>5. Answered(k)
    BY <2>2, <2>4 DEF MapReduceInv, ControlInv, PhasesInv, DoneAll, Answered
  <2> HIDE DEF k
  <2> QED
    BY <1>3, <2>2, <2>5 DEF MapReduceInv, FilesInv, MapsInv
<1>6. n < nMap => pairs[n + 1] = pairs[n] \o MapFile(n, j[2])
  <2>1. n < nMap => n + 1 \in 1 .. nMap /\ (n + 1) - 1 = n
    BY <1>3, Constants
  <2>2. \A i \in 1 .. nMap :
            pairs[i] = pairs[i - 1] \o (Created(None) \o Partition(splits[i], j[2]))
    BY AllPairsStep
  <2> HIDE DEF pairs, n
  <2> QED
    BY <2>1, <2>2 DEF MapFile
<1> HIDE DEF n, pairs
<1>7. /\ n + 1 <= nMap => kvs'[j] = pairs[n + 1]
      /\ n + 1 >= nMap => kvs'[j] = pairs[nMap]
      /\ n = nMap + 1 => out'[j[2]] = Reduced(pairs[nMap])
  <2>1. CASE n < nMap
    <3>1. kvs' = [kvs EXCEPT ![j] = @ \o mid[<<n, j[2]>>]]
      BY <1>2, <1>3, <2>1, Constants
    <3>2. kvs'[j] = kvs[j] \o mid[<<n, j[2]>>]
      BY <1>1, <1>3, <3>1
    <3>3. kvs[j] = pairs[n]
      BY <1>3, <2>1, Constants
    <3>4. kvs'[j] = pairs[n + 1]
      BY <1>5, <1>6, <2>1, <3>2, <3>3
    <3> QED
      BY <1>3, <2>1, <3>4, Constants
  <2>2. CASE n >= nMap
    <3>1. kvs' = kvs /\ kvs[j] = pairs[nMap]
      BY <1>2, <1>3, <2>2, Constants
    <3>2. n = nMap + 1 => out'[j[2]] = Reduced(pairs[nMap])
      <4>1. n = nMap + 1 => n # nMap /\ ~ (n < nMap)
        BY Constants
      <4> QED
        BY <1>2, <1>3, <3>1, <4>1
    <3> QED
      BY <1>3, <2>2, <3>1, <3>2, Constants
  <2> QED
    BY <1>3, <2>1, <2>2, Constants
<1>8. /\ DOMAIN kvs' = Reduces /\ DOMAIN out' = 0 .. nReduce - 1
      /\ \A k \in Reduces \ {j} : kvs'[k] = kvs[k] /\ out'[k[2]] = out[k[2]]
  <2>1. \A k \in Reduces \ {j} : k[2] # j[2]
    BY <1>1, JobKinds
  <2>2. CASE n < nMap
    <3>1. kvs' = [kvs EXCEPT ![j] = @ \o mid[<<n, j[2]>>]] /\ out' = out
      BY <1>2, <1>3, <2>2, Constants
    <3> QED
      BY <1>3, <3>1
  <2>3. CASE n >= nMap
    <3>1. ~ (n < nMap)
      BY <1>3, <2>3, Constants
    <3>2. /\ kvs' = kvs
          /\ out' = [out EXCEPT ![j[2]] = IF n = nMap THEN Created(@) ELSE Reduced(kvs[j])]
      BY <1>2, <3>1, Zenon
    <3> QED
      BY <1>3, <2>1, <3>2
  <2> QED
    BY <1>3, <2>2, <2>3, Constants
<1>9. MapsInv'
  <2>1. ASSUME NEW k \in Maps
        PROVE  pc'[k] = pc[k] /\ ops'[k] = ops[k] /\ (Answered(k)' <=> Answered(k))
    <3>1. k \in Jobs /\ k # j
      BY <1>1, JobKinds
    <3> QED
      BY <1>4, <3>1 DEF Answered
  <2>2. \A m, r : MapFile(m, r)' = MapFile(m, r)
    BY <1>1 DEF MapFile
  <2> QED
    BY <1>1, <2>1, <2>2 DEF MapReduceInv, FilesInv, MapsInv
<1>10. ReducesInv'
  <2>1. ASSUME NEW k \in Reduces, k # j
        PROVE  /\ pc'[k] = "run" =>
                     /\ ops'[k] < nMap + 2
                     /\ ops'[k] <= nMap => kvs'[k] = AllPairs(splits', k[2])[ops'[k]]
                     /\ ops'[k] >= nMap => kvs'[k] = AllPairs(splits', k[2])[nMap]
               /\ Answered(k)' => out'[k[2]] = Reduced(AllPairs(splits', k[2])[nMap])
    <3>1. k \in Jobs /\ pc'[k] = pc[k] /\ ops'[k] = ops[k]
      BY <1>4, <2>1, JobKinds
    <3>2. Answered(k)' <=> Answered(k)
      BY <3>1 DEF Answered
    <3> QED
      BY <1>1, <1>8, <2>1, <3>1, <3>2 DEF MapReduceInv, FilesInv, ReducesInv
  <2>2. pc'[j] = "run" => ops'[j] < nMap + 2
    BY <1>3, <1>4, Constants
  <2>3. Answered(j)' => n = nMap + 1
    BY <1>3, <1>4, Constants DEF Answered
  <2>4. AllPairs(splits', j[2]) = pairs
    BY <1>1 DEF pairs
  <2> QED
    BY <1>4, <1>7, <1>8, <2>1, <2>2, <2>3, <2>4 DEF ReducesInv
<1>11. result' # None => phase' # "split" /\ result' = RunSingle'
  BY <1>1 DEF MapReduceInv, FilesInv, RunSingle
<1> QED
  BY <1>4, <1>9, <1>10, <1>11 DEF FilesInv

\* The split files are made before any job runs.
LEMMA FilesStartMap ==
    ASSUME MapReduceInv, StartMap
    PROVE  FilesInv'
<1>1. /\ phase = "split" /\ phase' = "map" /\ mid' = mid /\ out' = out /\ kvs' = kvs
      /\ ops' = ops /\ result' = result
      /\ pc' = [j \in Jobs |-> IF j \in Maps THEN "wait" ELSE pc[j]]
  BY DEF StartMap, Spawned, fileVars
<1>2. \A j \in Jobs : pc[j] = "none"
  BY <1>1 DEF MapReduceInv, ControlInv, PhasesInv
<1>3. \A j \in Maps \cup Reduces : pc'[j] # "run" /\ ~ Answered(j)'
  BY <1>1, <1>2 DEF Answered, Jobs
<1>4. result = None
  BY <1>1 DEF MapReduceInv, FilesInv
<1>5. MapsInv'
  <2>1. DOMAIN mid' = (0 .. nMap - 1) \X (0 .. nReduce - 1)
    BY <1>1 DEF MapReduceInv, FilesInv, MapsInv
  <2> QED
    BY <1>3, <2>1 DEF MapsInv
<1>6. ReducesInv'
  <2>1. DOMAIN kvs' = Reduces /\ DOMAIN out' = 0 .. nReduce - 1
    BY <1>1 DEF MapReduceInv, FilesInv, ReducesInv
  <2> QED
    BY <1>3, <2>1 DEF ReducesInv
<1>7. DOMAIN ops' = Jobs /\ \A j \in Jobs : ops'[j] \in Nat
  BY <1>1 DEF MapReduceInv, FilesInv
<1> QED
  BY <1>1, <1>4, <1>5, <1>6, <1>7 DEF FilesInv

\* What is merged are the result files of the sequential run.
LEMMA FilesMerge ==
    ASSUME MapReduceInv, Merge
    PROVE  FilesInv'
<1>1. /\ phase = "reduce" /\ phase' = "merged" /\ DoneAll(Reduces)
      /\ splits' = splits /\ mid' = mid /\ out' = out /\ kvs' = kvs /\ ops' = ops /\ pc' = pc
      /\ result' = Merged([i \in 1 .. nReduce |-> out[i - 1]])
  BY DEF Merge, fileVars
<1>2. \A r \in 1 .. nReduce : out[r - 1] = Reduced(AllPairs(splits, r - 1)[nMap])
  <2>1. SUFFICES ASSUME NEW r \in 1 .. nReduce
                 PROVE  out[r - 1] = Reduced(AllPairs(splits, r - 1)[nMap])
    OBVIOUS
  <2> DEFINE j == <<"Reduce", r - 1>>
  <2>2. j \in Reduces /\ j[2] = r - 1
    BY Constants DEF Reduces
  <2>3. Answered(j)
    BY <1>1, <2>2 DEF DoneAll, Answered
  <2> HIDE DEF j
  <2> QED
    BY <2>2, <2>3 DEF MapReduceInv, FilesInv, ReducesInv
<1>3. [i \in 1 .. nReduce |-> out[i - 1]]
        = [r \in 1 .. nReduce |-> Reduced(AllPairs(splits, r - 1)[nMap])]
  BY <1>2
<1>4. result' = RunSingle'
  BY <1>1, <1>3 DEF RunSingle
<1>5. MapsInv'
  <2>1. \A m, r : MapFile(m, r)' = MapFile(m, r)
    BY <1>1 DEF MapFile
  <2> QED
    BY <1>1, <2>1 DEF MapReduceInv, FilesInv, MapsInv, Answered
<1>6. ReducesInv'
  BY <1>1 DEF MapReduceInv, FilesInv, ReducesInv, Answered
<1>7. DOMAIN ops' = Jobs /\ \A j \in Jobs : ops'[j] \in Nat
  BY <1>1 DEF MapReduceInv, FilesInv
<1> QED
  BY <1>1, <1>4, <1>5, <1>6, <1>7 DEF FilesInv

\* Before the run no job has done anything, and no file exists.
LEMMA FilesInit == Init => FilesInv
<1> SUFFICES ASSUME Init PROVE FilesInv
  OBVIOUS
<1>1. /\ pc = [j \in Jobs |-> "none"] /\ ops = [j \in Jobs |-> 0] /\ result = None
      /\ kvs = [j \in Reduces |-> <<>>] /\ out = [r \in 0 .. nReduce - 1 |-> None]
      /\ mid = [f \in (0 .. nMap - 1) \X (0 .. nReduce - 1) |-> None]
  BY DEF Init
<1>2. \A j \in Maps \cup Reduces : pc[j] # "run" /\ ~ Answered(j)
  BY <1>1 DEF Answered, Jobs
<1>3. MapsInv /\ ReducesInv
  BY <1>1, <1>2 DEF MapsInv, ReducesInv
<1>4. DOMAIN ops = Jobs /\ \A j \in Jobs : ops[j] \in Nat
  BY <1>1
<1> QED
  BY <1>1, <1>3, <1>4 DEF FilesInv

\* Every step keeps what is known of the files; the control part says which
\* steps can still write them.
LEMMA FilesStep == MapReduceInv /\ [Next]_vars => FilesInv'
<1> SUFFICES ASSUME MapReduceInv, [Next]_vars PROVE FilesInv'
  OBVIOUS
<1> USE DEF MapReduceInv
<1>1. CASE MasterStep
  <2>1. CASE StartReduce
    <3>1. /\ phase' = "reduce" /\ splits' = splits /\ mid' = mid /\ out' = out /\ kvs' = kvs
          /\ ops' = ops /\ result' = result
          /\ pc' = [j \in Jobs |-> IF j \in Reduces THEN "wait" ELSE pc[j]]
      BY <2>1 DEF StartReduce, Spawned, fileVars
    <3>2. \A j \in Jobs : (pc'[j] = "run" => pc[j] = "run") /\ (Answered(j)' => Answered(j))
      BY <3>1 DEF Answered
    <3> QED
      BY <3>1, <3>2, FilesKept
  <2>2. CASE Shutdown
    <3>1. /\ phase' = "done" /\ splits' = splits /\ mid' = mid /\ out' = out /\ kvs' = kvs
          /\ ops' = ops /\ result' = result /\ pc' = pc
      BY <2>2 DEF Shutdown, fileVars
    <3> QED
      BY <3>1, FilesKept DEF Answered
  <2> QED
    BY <1>1, <2>1, <2>2, FilesStartMap, FilesMerge DEF MasterStep
<1>2. ASSUME /\ phase' = phase /\ splits' = splits /\ mid' = mid /\ out' = out /\ kvs' = kvs
             /\ ops' = ops /\ result' = result
             /\ \A j \in Jobs : /\ pc'[j] = "run" => pc[j] = "run"
                                /\ pc'[j] \in {"reply", "putback", "done"}
                                     => pc[j] \in {"reply", "putback", "done"}
      PROVE  FilesInv'
  BY <1>2, FilesKept DEF Answered
<1>3. CASE RegisterSend
  BY <1>2, <1>3 DEF RegisterSend, masterVars, fileVars
<1>4. ASSUME NEW j \in Jobs, JobStep(j) PROVE FilesInv'
  <2>1. CASE Take(j)
    <3>1. pc' = [pc EXCEPT ![j] = "dial"]
      BY <2>1 DEF Take
    <3>2. \A k \in Jobs : pc'[k] = pc[k] \/ pc'[k] = "dial"
      BY <3>1 DEF ControlInv, ControlTypes
    <3> QED
      BY <1>2, <2>1, <3>2 DEF Take, masterVars, fileVars
  <2>2. CASE Dial(j)
    <3>1. \A k \in Jobs : pc'[k] \in {pc[k], "call", "wait"}
      BY <2>2 DEF Dial, Failed, ControlInv, ControlTypes
    <3> QED
      BY <1>2, <2>2, <3>1 DEF Dial, masterVars, fileVars
  <2>3. CASE Reply(j)
    <3>1. pc[j] = "reply" /\ pc' = [pc EXCEPT ![j] = "putback"]
      BY <2>3 DEF Reply
    <3>2. \A k \in Jobs : pc'[k] = pc[k] \/ (pc[k] = "reply" /\ pc'[k] = "putback")
      BY <3>1 DEF ControlInv, ControlTypes
    <3> QED
      BY <1>2, <2>3, <3>2 DEF Reply, masterVars, fileVars
  <2>4. CASE PutBack(j)
    <3>1. pc[j] = "putback" /\ pc' = [pc EXCEPT ![j] = "done"]
      BY <2>4 DEF PutBack
    <3>2. \A k \in Jobs : pc'[k] = pc[k] \/ (pc[k] = "putback" /\ pc'[k] = "done")
      BY <3>1 DEF ControlInv, ControlTypes
    <3> QED
      BY <1>2, <2>4, <3>2 DEF PutBack, masterVars, fileVars
  <2>5. CASE MissesSplit(j)
    <3>1. \A k \in Jobs : pc'[k] \in {pc[k], "wait"}
      BY <2>5 DEF MissesSplit, Ended, Failed
    <3> QED
      BY <1>2, <2>5, <3>1 DEF MissesSplit, masterVars, fileVars
  <2> QED
    BY <1>4, <2>1, <2>2, <2>3, <2>4, <2>5, FilesDoMap, FilesDoReduce DEF JobStep
<1>5. ASSUME NEW w \in Workers, WorkerStep(w) PROVE FilesInv'
  <2>1. CASE StartWorker(w) \/ RegisterReceive(w)
    BY <1>2, <2>1 DEF StartWorker, RegisterReceive, masterVars, fileVars
  <2>2. CASE Close(w)
    <3>1. \A k \in Jobs : pc'[k] \in {pc[k], "wait"}
      BY <2>2 DEF Close, Ended, Failed
    <3> QED
      BY <1>2, <2>2, <3>1 DEF Close, masterVars, fileVars
  <2> QED
    BY <1>5, <2>1, <2>2, FilesAccept DEF WorkerStep
<1>6. CASE UNCHANGED vars
  BY <1>2, <1>6 DEF vars, masterVars, fileVars
<1> QED
  BY <1>1, <1>3, <1>4, <1>5, <1>6 DEF Next

\* The invariant holds of every run.
LEMMA SystemInv == Spec => []MapReduceInv
<1>1. Init => MapReduceInv
  BY ControlInit, FilesInit DEF MapReduceInv
<1>2. MapReduceInv /\ [Next]_vars => MapReduceInv'
  BY ControlStep, FilesStep DEF MapReduceInv
<1> QED
  BY <1>1, <1>2, PTL DEF Spec

-----------------------------------------------------------------------------
(* The split of the input.                                                 *)

\* A sequence has a length and elements of its set.
LEMMA ElementsOf ==
    ASSUME NEW S, NEW s \in Seq(S)
    PROVE  Len(s) \in Nat /\ \A n \in 1 .. Len(s) : s[n] \in S
  OBVIOUS

\* The bytes of the first lines can be added up, and do not become fewer.
LEMMA BytesGrow ==
    ASSUME NEW input \in Inputs
    PROVE  /\ Len(input.lines) \in Nat
           /\ \A n \in 0 .. Len(input.lines) :
                 /\ Bytes(input)[n] \in Nat
                 /\ Bytes(input)[n] <= Bytes(input)[Len(input.lines)]
<1> DEFINE N == Len(input.lines)
           line(n) == input.lines[n].bytes
           Body(f) == [n \in 0 .. N |-> IF n = 0 THEN 0 ELSE f[n - 1] + line(n)]
           upto == Bytes(input)
<1>1. N \in Nat /\ \A n \in 1 .. N : line(n) \in Nat
  <2>1. input.lines \in Seq([words : Seq(Words), bytes : Nat])
    BY MapReduceAssumption
  <2>2. N \in Nat /\ \A n \in 1 .. N : input.lines[n] \in [words : Seq(Words), bytes : Nat]
    BY <2>1, ElementsOf, Zenon
  <2> QED
    BY <2>2
<1>2. upto = CHOOSE f : f = Body(f)
  BY DEF Bytes
<1> HIDE DEF N, line, upto
<1>3. PICK f : f = Body(f)
  <2> DEFINE g == [x \in Nat \X (1 .. N) |-> x[1] + line(x[2])]
  <2>1. g \in [Nat \X (1 .. N) -> Nat]
    BY <1>1
  <2>2. \A k \in Nat, n \in 1 .. N : g[<<k, n>>] = k + line(n)
    OBVIOUS
  <2> HIDE DEF g
  <2>3. PICK f \in [0 .. N -> Nat] : Iterates(f, N, 0, g)
    <3>1. N \in Nat /\ 0 \in Nat
      BY <1>1
    <3> QED
      BY <2>1, <3>1, Recursion
  <2>4. ASSUME NEW n \in 0 .. N PROVE f[n] = IF n = 0 THEN 0 ELSE f[n - 1] + line(n)
    <3>1. CASE n # 0
      <4>1. n \in 1 .. N /\ n - 1 \in 0 .. N
        BY <1>1, <3>1
      <4> QED
        BY <2>2, <2>3, <3>1, <4>1 DEF Iterates
    <3> QED
      BY <2>3, <3>1 DEF Iterates
  <2>5. f = Body(f)
    BY <2>4
  <2> QED
    BY <2>5
<1>4. upto = Body(upto)
  BY <1>2, <1>3
<1>5. upto[0] = 0 /\ \A n \in 1 .. N : upto[n] = upto[n - 1] + line(n)
  <2>1. 0 \in 0 .. N /\ \A n \in 1 .. N : n \in 0 .. N /\ n # 0
    BY <1>1
  <2>2. \A n \in 0 .. N : upto[n] = IF n = 0 THEN 0 ELSE upto[n - 1] + line(n)
    BY <1>4
  <2> QED
    BY <2>1, <2>2
<1>6. \A n \in 0 .. N : upto[n] \in Nat
  <2> DEFINE T == {n \in 0 .. N : upto[n] \in Nat}
  <2>1. 0 \in T /\ \A n \in 1 .. N : n - 1 \in T => n \in T
    BY <1>1, <1>5
  <2> HIDE DEF T
  <2>2. \A n \in 0 .. N : n \in T
    BY <1>1, <2>1, UpTo
  <2> QED
    BY <2>2 DEF T
<1>7. \A n \in 0 .. N : upto[N - n] <= upto[N]
  <2> DEFINE T == {n \in 0 .. N : upto[N - n] <= upto[N]}
  <2>1. 0 \in T
    BY <1>1, <1>6
  <2>2. ASSUME NEW n \in 1 .. N, n - 1 \in T PROVE n \in T
    <3>1. N - n \in 0 .. N /\ N - (n - 1) \in 1 .. N /\ (N - (n - 1)) - 1 = N - n
      BY <1>1
    <3>2. upto[N - (n - 1)] = upto[N - n] + line(N - (n - 1))
      BY <1>5, <3>1
    <3>3. /\ upto[N - n] \in Nat /\ line(N - (n - 1)) \in Nat /\ upto[N] \in Nat
          /\ upto[N - (n - 1)] <= upto[N]
      BY <1>1, <1>6, <2>2, <3>1
    <3> QED
      BY <3>1, <3>2, <3>3
  <2> HIDE DEF T
  <2>3. \A n \in 0 .. N : n \in T
    BY <1>1, <2>1, <2>2, UpTo
  <2> QED
    BY <2>3 DEF T
<1>8. \A n \in 0 .. N : upto[n] <= upto[N]
  <2>1. \A n \in 0 .. N : N - n \in 0 .. N /\ N - (N - n) = n
    BY <1>1
  <2> QED
    BY <1>7, <2>1
<1> QED
  BY <1>1, <1>6, <1>8 DEF N, upto

\* The shares of all map jobs together are no less than the input.
LEMMA SharesSuffice ==
    ASSUME NEW input \in Inputs
    PROVE  /\ nchunk(input) \in Nat
           /\ \A n \in 0 .. Len(input.lines) : Bytes(input)[n] <= nchunk(input) * nMap
<1> DEFINE all == Bytes(input)[Len(input.lines)]
           s == size(input)
           q == s \div nMap
<1>1. all \in Nat /\ \A n \in 0 .. Len(input.lines) : Bytes(input)[n] \in Nat /\ Bytes(input)[n] <= all
  <2>1. Len(input.lines) \in 0 .. Len(input.lines)
    BY BytesGrow
  <2> QED
    BY <2>1, BytesGrow
<1>2. s \in Int /\ s >= -1 /\ all <= s + 1
  <2>1. s = all + input.returns - (IF input.bare THEN 1 ELSE 0)
    BY DEF size
  <2>2. input.returns \in Nat
    BY MapReduceAssumption
  <2> HIDE DEF s, all
  <2> QED
    BY <1>1, <2>1, <2>2
<1> HIDE DEF s, all
<1>3. q \in Int /\ s = nMap * q + (s % nMap) /\ s % nMap \in 0 .. nMap - 1
  BY <1>2, Constants
<1>4. nchunk(input) = q + 1
  BY DEF nchunk, s
<1> HIDE DEF q
<1>5. q >= -1
  <2>1. ASSUME q <= -2 PROVE FALSE
    <3>1. nMap * q <= nMap * (-2)
      BY <1>3, <2>1, Constants
    <3> QED
      BY <1>2, <1>3, <3>1, Constants
  <2> QED
    BY <1>3, <2>1
<1>6. s + 1 <= (q + 1) * nMap
  <2>1. (q + 1) * nMap = nMap * q + nMap
    BY <1>3, Constants
  <2> QED
    BY <1>2, <1>3, <2>1, Constants
<1>7. (q + 1) * nMap \in Int
  BY <1>3, Constants
<1>8. \A n \in 0 .. Len(input.lines) : Bytes(input)[n] <= (q + 1) * nMap
  BY <1>1, <1>2, <1>6, <1>7
<1> QED
  BY <1>3, <1>4, <1>5, <1>8

\* The split files while they are being made; there is always one.
Files == {f \in Seq(Seq(Words)) : Len(f) >= 1}

\* A line goes to the last file, or to a new one.
LEMMA WriteLine ==
    ASSUME NEW files \in Files, NEW line, line.words \in Seq(Words),
           NEW i \in Nat, NEW share \in Nat
    PROVE  /\ Write(files, line, i, share) \in Files
           /\ Len(Write(files, line, i, share)) \in Nat /\ Len(files) \in Nat
           /\ Len(Write(files, line, i, share)) =
                 IF i > share * Len(files) THEN Len(files) + 1 ELSE Len(files)
<1> DEFINE S == Seq(Words)
           w == Write(files, line, i, share)
<1>1. files \in Seq(S) /\ Len(files) \in Nat /\ Len(files) >= 1
  BY DEF Files
<1>2. CASE i > share * Len(files)
  <2>1. w = Append(files, line.words) /\ line.words \in S
    BY <1>2 DEF Write
  <2> HIDE DEF S, w
  <2>2. w \in Seq(S) /\ Len(w) = Len(files) + 1
    BY <1>1, <2>1
  <2> QED
    BY <1>1, <1>2, <2>2 DEF S, w, Files
<1>3. CASE ~ (i > share * Len(files))
  <2> DEFINE v == files[Len(files)] \o line.words
  <2>1. w = [files EXCEPT ![Len(files)] = v]
    BY <1>3 DEF Write
  <2>2. v \in S
    <3>1. files[Len(files)] \in S
      BY <1>1, ElementsOf
    <3>2. \A x, y \in Seq(Words) : x \o y \in Seq(Words)
      OBVIOUS
    <3> QED
      BY <3>1, <3>2
  <2> HIDE DEF S, w, v
  <2>3. w \in Seq(S) /\ Len(w) = Len(files)
    BY <1>1, <2>1, <2>2
  <2> QED
    BY <1>1, <1>3, <2>3 DEF S, w, Files
<1> QED
  BY <1>2, <1>3

\* Split goes through the lines one by one, and makes a file at least, and no
\* more than there are map jobs.
LEMMA WrittenFiles ==
    ASSUME NEW input \in Inputs
    PROVE  LET N == Len(input.lines)
               W == Written(input)
           IN  /\ N \in Nat /\ W[0] = <<<<>>>>
               /\ \A n \in 1 .. N : W[n] = Write(W[n - 1], input.lines[n], Bytes(input)[n - 1], nchunk(input))
               /\ \A n \in 0 .. N : W[n] \in Files /\ Len(W[n]) <= nMap
<1> DEFINE N == Len(input.lines)
           share == nchunk(input)
           More(f, n) == Write(f, input.lines[n], Bytes(input)[n - 1], share)
           Body(f) == [n \in 0 .. N |-> IF n = 0 THEN <<<<>>>> ELSE More(f[n - 1], n)]
           W == Written(input)
<1>1. N \in Nat /\ share \in Nat
  BY BytesGrow, SharesSuffice
<1>2. ASSUME NEW n \in 1 .. N
      PROVE  /\ input.lines[n].words \in Seq(Words)
             /\ Bytes(input)[n - 1] \in Nat /\ Bytes(input)[n - 1] <= share * nMap
  <2>1. input.lines \in Seq([words : Seq(Words), bytes : Nat])
    BY MapReduceAssumption
  <2>2. input.lines[n] \in [words : Seq(Words), bytes : Nat]
    BY <2>1, ElementsOf, Zenon
  <2>3. n - 1 \in 0 .. N
    BY <1>1
  <2> QED
    BY <2>2, <2>3, BytesGrow, SharesSuffice
<1>3. W = CHOOSE f : f = Body(f)
  BY DEF Written
<1>4. ASSUME NEW f \in Files, NEW n \in 1 .. N
      PROVE  /\ More(f, n) \in Files
             /\ Len(f) <= nMap => Len(More(f, n)) <= nMap
  <2> DEFINE b == Bytes(input)[n - 1]
             w == More(f, n)
  <2>1. /\ w \in Files /\ Len(w) \in Nat /\ Len(f) \in Nat
        /\ Len(w) = IF b > share * Len(f) THEN Len(f) + 1 ELSE Len(f)
    BY <1>1, <1>2, WriteLine
  <2>2. b \in Nat /\ b <= share * nMap
    BY <1>2
  <2> HIDE DEF w, b, share
  <2>3. Len(f) <= nMap => Len(w) <= nMap
    <3>1. CASE Len(f) = nMap
      <4>1. share * Len(f) = share * nMap /\ share * nMap \in Nat
        BY <1>1, <3>1, Constants
      <4> QED
        BY <2>1, <2>2, <3>1, <4>1
    <3>2. CASE Len(f) < nMap
      BY <2>1, <3>2, Constants
    <3> QED
      BY <2>1, <3>1, <3>2, Constants
  <2> QED
    BY <2>1, <2>3 DEF w
<1>5. <<<<>>>> \in Files /\ Len(<<<<>>>>) = 1
  BY DEF Files
<1> HIDE DEF N, share, More, W
<1>6. PICK f : f = Body(f)
  <2> DEFINE g == [x \in Files \X (1 .. N) |-> More(x[1], x[2])]
  <2>1. g \in [Files \X (1 .. N) -> Files]
    BY <1>4
  <2>2. \A h \in Files, n \in 1 .. N : g[<<h, n>>] = More(h, n)
    OBVIOUS
  <2> HIDE DEF g
  <2>3. PICK f \in [0 .. N -> Files] : Iterates(f, N, <<<<>>>>, g)
    BY <1>1, <1>5, <2>1, Recursion
  <2>4. ASSUME NEW n \in 0 .. N PROVE f[n] = IF n = 0 THEN <<<<>>>> ELSE More(f[n - 1], n)
    <3>1. CASE n # 0
      <4>1. n \in 1 .. N /\ n - 1 \in 0 .. N
        BY <1>1, <3>1
      <4>2. f[n] = g[<<f[n - 1], n>>] /\ f[n - 1] \in Files
        BY <2>3, <4>1 DEF Iterates
      <4> QED
        BY <2>2, <3>1, <4>1, <4>2
    <3>2. CASE n = 0
      BY <2>3, <3>2 DEF Iterates
    <3> QED
      BY <3>1, <3>2
  <2>5. f = Body(f)
    BY <2>4
  <2> QED
    BY <2>5
<1>7. W = Body(W)
  BY <1>3, <1>6
<1>8. W[0] = <<<<>>>> /\ \A n \in 1 .. N : W[n] = More(W[n - 1], n)
  <2>1. 0 \in 0 .. N /\ \A n \in 1 .. N : n \in 0 .. N /\ n # 0
    BY <1>1
  <2>2. \A n \in 0 .. N : W[n] = IF n = 0 THEN <<<<>>>> ELSE More(W[n - 1], n)
    BY <1>7
  <2> QED
    BY <2>1, <2>2
<1>9. \A n \in 0 .. N : W[n] \in Files /\ Len(W[n]) <= nMap
  <2> DEFINE T == {n \in 0 .. N : W[n] \in Files /\ Len(W[n]) <= nMap}
  <2>1. 0 \in T
    <3>1. 0 \in 0 .. N
      BY <1>1
    <3>2. W[0] \in Files /\ Len(W[0]) = 1
      BY <1>5, <1>8, Zenon
    <3>3. 1 <= nMap
      BY Constants
    <3>4. Len(W[0]) <= nMap
      BY <3>2, <3>3
    <3> QED
      BY <3>1, <3>2, <3>4
  <2>2. ASSUME NEW n \in 1 .. N, n - 1 \in T PROVE n \in T
    <3>1. W[n - 1] \in Files /\ Len(W[n - 1]) <= nMap /\ n \in 0 .. N
      BY <1>1, <2>2
    <3> QED
      BY <1>4, <1>8, <3>1
  <2> HIDE DEF T
  <2>3. \A n \in 0 .. N : n \in T
    BY <1>1, <2>1, <2>2, UpTo
  <2> QED
    BY <2>3 DEF T
<1> QED
  BY <1>1, <1>8, <1>9 DEF N, share, More, W

\* So it is at the end of the input.
LEMMA SplitFiles ==
    ASSUME NEW input \in Inputs
    PROVE  Split(input) \in Files /\ Len(Split(input)) <= nMap
<1> DEFINE N == Len(input.lines)
<1>1. N \in Nat /\ \A n \in 0 .. N : Written(input)[n] \in Files /\ Len(Written(input)[n]) <= nMap
  BY WrittenFiles
<1>2. N \in 0 .. N
  BY <1>1
<1> QED
  BY <1>1, <1>2 DEF Split

-----------------------------------------------------------------------------
(* What it establishes.                                                    *)

\* A set of which no two elements differ has at most one.
LEMMA AtMostOne ==
    ASSUME NEW S, \A x, y \in S : x = y
    PROVE  Cardinality(S) \in {0, 1} /\ (Cardinality(S) = 1 => S # {})
<1>1. CASE S = {}
  BY <1>1, FS_EmptySet
<1>2. ASSUME NEW x \in S PROVE Cardinality(S) = 1
  <2>1. S = {x}
    OBVIOUS
  <2> QED
    BY <2>1, FS_Singleton
<1> QED
  BY <1>1, <1>2

\* A worker that is idle, with the registration or with a job is there only
\* once, and in no second place, whatever calls fail and whatever workers end
\* (master.go:36-59).
THEOREM NeverTwoJobs == Spec => []OneJobPerWorker
<1>1. ControlInv => OneJobPerWorker
  <2>1. SUFFICES ASSUME ControlInv, NEW w \in Workers
                 PROVE  Cardinality({i \in 1 .. Len(worker_ch) : worker_ch[i] = w})
                        + Cardinality({j \in Jobs : InHand(j) /\ worker[j] = w})
                        + (IF reg = w THEN 1 ELSE 0) <= 1
    BY DEF OneJobPerWorker
  <2> DEFINE C == {i \in 1 .. Len(worker_ch) : worker_ch[i] = w}
             H == {j \in Jobs : InHand(j) /\ worker[j] = w}
  <2>2. \A x, y \in C : x = y
    BY <2>1 DEF ControlInv, PlacesInv
  <2>3. \A x, y \in H : x = y
    BY <2>1 DEF ControlInv, PlacesInv
  <2>4. C = {} \/ H = {}
    BY <2>1 DEF ControlInv, PlacesInv, Idle
  <2>5. reg = w => C = {} /\ H = {}
    BY <2>1 DEF ControlInv, PlacesInv, Idle
  <2> HIDE DEF C, H
  <2>6. Cardinality(C) \in {0, 1} /\ (Cardinality(C) = 1 => C # {})
    BY <2>2, AtMostOne
  <2>7. Cardinality(H) \in {0, 1} /\ (Cardinality(H) = 1 => H # {})
    BY <2>3, AtMostOne
  <2>8. Cardinality(C) + Cardinality(H) + (IF reg = w THEN 1 ELSE 0) <= 1
    BY <2>4, <2>5, <2>6, <2>7
  <2> QED
    BY <2>8 DEF C, H
<1> QED
  BY <1>1, SystemInv, PTL DEF MapReduceInv

\* The result is what RunSingle computes from the same splits, one job after
\* the other: no job that is cut off and repeated loses a word or counts one
\* twice, and none reads a file that is not complete (mapreduce.go:345).
THEOREM SequentialResult == Spec => []SameAsSequential
<1>1. MapReduceInv => SameAsSequential
  BY DEF MapReduceInv, FilesInv, SameAsSequential
<1> QED
  BY <1>1, SystemInv, PTL

\* Once the map phase is over nobody writes a file of a map job, not even a
\* worker whose job has been given to another one.
THEOREM FilesStayFrozen == Spec => MapFilesFrozen
<1>1. MapReduceInv /\ [Next]_vars => (phase \notin {"split", "map"} => UNCHANGED mid)
  <2> SUFFICES ASSUME MapReduceInv, [Next]_vars, phase \notin {"split", "map"}
               PROVE  mid' = mid
    OBVIOUS
  <2>1. \A j \in Maps : pc[j] # "run"
    <3>1. phase \in {"reduce", "merged", "done"}
      BY DEF MapReduceInv, ControlInv, ControlTypes
    <3> QED
      BY <3>1 DEF MapReduceInv, ControlInv, PhasesInv, DoneAll
  <2>2. \A j \in Jobs : ~ DoMap(j)
    BY <2>1 DEF DoMap
  <2>3. CASE MasterStep
    BY <2>3 DEF MasterStep, StartMap, StartReduce, Merge, Shutdown, fileVars
  <2>4. CASE RegisterSend
    BY <2>4 DEF RegisterSend, fileVars
  <2>5. ASSUME NEW j \in Jobs, JobStep(j) PROVE mid' = mid
    BY <2>2, <2>5 DEF JobStep, Take, Dial, Reply, PutBack, MissesSplit, DoReduce, fileVars
  <2>6. ASSUME NEW w \in Workers, WorkerStep(w) PROVE mid' = mid
    BY <2>6 DEF WorkerStep, StartWorker, RegisterReceive, Close, Accept, fileVars
  <2>7. CASE UNCHANGED vars
    BY <2>7 DEF vars, fileVars
  <2> QED
    BY <2>3, <2>4, <2>5, <2>6, <2>7 DEF Next
<1>2. MapReduceInv /\ [Next]_vars => [phase \notin {"split", "map"} => UNCHANGED mid]_vars
  BY <1>1
<1> QED
  BY <1>2, SystemInv, PTL DEF Spec, MapFilesFrozen

\* No line of the input is put in a file that no map job reads, whatever the
\* number of jobs and the lengths of the lines (mapreduce.go:152-173).
THEOREM SplitsAreRead == Spec => []EverySplitIsRead
<1>1. Init => EverySplitIsRead
  <2>1. Init => made = 0
    BY DEF Init
  <2> QED
    BY <2>1, Constants DEF EverySplitIsRead
<1>2. EverySplitIsRead /\ [Next]_vars => EverySplitIsRead'
  <2> SUFFICES ASSUME EverySplitIsRead, [Next]_vars PROVE made' <= nMap
    BY DEF EverySplitIsRead
  <2>1. CASE StartMap
    <3>1. PICK input \in Inputs : made' = Len(Split(input))
      BY <2>1 DEF StartMap
    <3> QED
      BY <3>1, SplitFiles
  <2>2. ASSUME made' = made PROVE made' <= nMap
    BY <2>2 DEF EverySplitIsRead
  <2>3. CASE StartReduce \/ Merge \/ Shutdown
    BY <2>2, <2>3 DEF StartReduce, Merge, Shutdown
  <2>4. CASE RegisterSend
    BY <2>2, <2>4 DEF RegisterSend, masterVars
  <2>5. ASSUME NEW j \in Jobs, JobStep(j) PROVE made' <= nMap
    BY <2>2, <2>5 DEF JobStep, Take, Dial, Reply, PutBack, MissesSplit, DoMap, DoReduce, masterVars
  <2>6. ASSUME NEW w \in Workers, WorkerStep(w) PROVE made' <= nMap
    BY <2>2, <2>6 DEF WorkerStep, StartWorker, RegisterReceive, Close, Accept, masterVars
  <2>7. CASE UNCHANGED vars
    BY <2>2, <2>7 DEF vars, masterVars
  <2> QED
    BY <2>1, <2>3, <2>4, <2>5, <2>6, <2>7 DEF Next, MasterStep
<1> QED
  BY <1>1, <1>2, PTL DEF Spec

-----------------------------------------------------------------------------
(* How often a word is in a sequence.                                      *)

\* How often w is among the first n elements of s.
Among(w, s, n) == Cardinality({i \in 1 .. n : s[i] = w})

\* One element more.
LEMMA AmongStep ==
    ASSUME NEW w, NEW s, NEW n \in Nat
    PROVE  /\ Among(w, s, n) \in Nat /\ Among(w, s, 0) = 0
           /\ n # 0 => Among(w, s, n) = Among(w, s, n - 1) + IF s[n] = w THEN 1 ELSE 0
<1> DEFINE At(m) == {i \in 1 .. m : s[i] = w}
<1>1. ASSUME NEW m \in Nat PROVE IsFiniteSet(At(m)) /\ Cardinality(At(m)) \in Nat
  <2>1. IsFiniteSet(1 .. m) /\ At(m) \in SUBSET (1 .. m)
    BY FS_Interval
  <2> HIDE DEF At
  <2>2. IsFiniteSet(At(m))
    BY <2>1, FS_Subset
  <2> QED
    BY <2>2, FS_CardinalityType
<1>2. Cardinality(At(0)) = 0
  <2>1. At(0) = {}
    OBVIOUS
  <2> QED
    BY <2>1, FS_EmptySet
<1>3. ASSUME n # 0 PROVE Cardinality(At(n)) = Cardinality(At(n - 1)) + IF s[n] = w THEN 1 ELSE 0
  <2>1. n - 1 \in Nat /\ n \notin 1 .. n - 1 /\ 1 .. n = (1 .. n - 1) \cup {n}
    BY <1>3
  <2>2. n \notin At(n - 1) /\ At(n) = IF s[n] = w THEN At(n - 1) \cup {n} ELSE At(n - 1)
    BY <2>1
  <2>3. IsFiniteSet(At(n - 1)) /\ Cardinality(At(n - 1)) \in Nat
    BY <1>1, <2>1
  <2> HIDE DEF At
  <2>4. Cardinality(At(n - 1) \cup {n}) = Cardinality(At(n - 1)) + 1
    BY <2>2, <2>3, FS_AddElement
  <2> QED
    BY <2>2, <2>3, <2>4
<1> QED
  BY <1>1, <1>2, <1>3 DEF Among

\* What is counted is what is there.
LEMMA AmongSame ==
    ASSUME NEW w, NEW s, NEW t, NEW n \in Nat, \A i \in 1 .. n : s[i] = t[i]
    PROVE  Among(w, s, n) = Among(w, t, n)
<1>1. {i \in 1 .. n : s[i] = w} = {i \in 1 .. n : t[i] = w}
  OBVIOUS
<1> QED
  BY <1>1 DEF Among

\* A word that is there is counted.
LEMMA Counted ==
    ASSUME NEW S, NEW s \in Seq(S), NEW w
    PROVE  /\ Occurrences(w, s) = Among(w, s, Len(s)) /\ Occurrences(w, s) \in Nat
           /\ Occurrences(w, s) # 0 <=> \E i \in DOMAIN s : s[i] = w
<1>1. DOMAIN s = 1 .. Len(s) /\ Len(s) \in Nat
  OBVIOUS
<1>2. Occurrences(w, s) = Among(w, s, Len(s))
  BY <1>1 DEF Occurrences, Among
<1>3. Among(w, s, Len(s)) \in Nat
  BY <1>1, AmongStep
<1>4. Occurrences(w, s) # 0 <=> \E i \in DOMAIN s : s[i] = w
  <2> DEFINE At == {i \in DOMAIN s : s[i] = w}
  <2>1. IsFiniteSet(DOMAIN s) /\ At \in SUBSET DOMAIN s
    BY <1>1, FS_Interval
  <2> HIDE DEF At
  <2>2. IsFiniteSet(At)
    BY <2>1, FS_Subset
  <2>3. Cardinality(At) = 0 <=> At = {}
    BY <2>2, FS_EmptySet
  <2> QED
    BY <2>3 DEF At, Occurrences
<1> QED
  BY <1>2, <1>3, <1>4

\* What two sequences have, one after the other.
LEMMA CountConcat ==
    ASSUME NEW S, NEW s \in Seq(S), NEW t \in Seq(S), NEW w
    PROVE  /\ s \o t \in Seq(S)
           /\ Occurrences(w, s \o t) = Occurrences(w, s) + Occurrences(w, t)
<1> DEFINE u == s \o t
           a == Len(s)
           b == Len(t)
<1>1. /\ u \in Seq(S) /\ a \in Nat /\ b \in Nat /\ Len(u) = a + b
      /\ \A i \in 1 .. a : u[i] = s[i]
      /\ \A i \in 1 .. b : u[a + i] = t[i]
  OBVIOUS
<1> HIDE DEF u, a, b
<1> DEFINE T == {n \in 0 .. b : Among(w, u, a + n) = Among(w, s, a) + Among(w, t, n)}
<1>2. 0 \in T
  <2>1. Among(w, u, a) = Among(w, s, a) /\ Among(w, t, 0) = 0 /\ Among(w, s, a) \in Nat
    BY <1>1, AmongSame, AmongStep
  <2>2. 0 \in 0 .. b /\ a + 0 = a
    BY <1>1
  <2> QED
    BY <2>1, <2>2
<1>3. ASSUME NEW n \in 1 .. b, n - 1 \in T PROVE n \in T
  <2>1. /\ n \in Nat /\ n # 0 /\ a + n \in Nat /\ a + n # 0 /\ (a + n) - 1 = a + (n - 1) /\ n - 1 \in Nat
        /\ n \in 0 .. b /\ a + (n - 1) \in Nat
    BY <1>1
  <2>2. Among(w, u, a + n) = Among(w, u, a + (n - 1)) + IF u[a + n] = w THEN 1 ELSE 0
    BY <2>1, AmongStep
  <2>3. Among(w, t, n) = Among(w, t, n - 1) + IF t[n] = w THEN 1 ELSE 0
    BY <2>1, AmongStep
  <2>4. Among(w, s, a) \in Nat /\ Among(w, t, n - 1) \in Nat /\ Among(w, u, a + (n - 1)) \in Nat
    BY <1>1, <2>1, AmongStep
  <2>5. u[a + n] = t[n]
    BY <1>1
  <2>6. Among(w, u, a + (n - 1)) = Among(w, s, a) + Among(w, t, n - 1)
    BY <1>3
  <2>7. Among(w, u, a + n) = Among(w, s, a) + Among(w, t, n)
    BY <2>2, <2>3, <2>4, <2>5, <2>6
  <2> QED
    BY <2>1, <2>7
<1> HIDE DEF T
<1>4. b \in T
  <2>1. \A n \in 0 .. b : n \in T
    BY <1>1, <1>2, <1>3, UpTo
  <2> QED
    BY <1>1, <2>1
<1>5. Among(w, u, a + b) = Among(w, s, a) + Among(w, t, b)
  BY <1>4 DEF T
<1> QED
  BY <1>1, <1>5, Counted DEF u, a, b

\* What a sequence and one element more have.
LEMMA CountAppend ==
    ASSUME NEW S, NEW s \in Seq(S), NEW e \in S, NEW w
    PROVE  /\ Append(s, e) \in Seq(S)
           /\ Occurrences(w, Append(s, e)) = Occurrences(w, s) + IF e = w THEN 1 ELSE 0
<1> DEFINE t == Append(s, e)
           n == Len(s)
<1>1. t \in Seq(S) /\ n \in Nat /\ Len(t) = n + 1 /\ t[n + 1] = e /\ \A i \in 1 .. n : t[i] = s[i]
  OBVIOUS
<1> HIDE DEF t, n
<1>2. n + 1 \in Nat /\ n + 1 # 0 /\ (n + 1) - 1 = n
  BY <1>1
<1>3. Among(w, t, n + 1) = Among(w, t, n) + IF e = w THEN 1 ELSE 0
  BY <1>1, <1>2, AmongStep
<1>4. Among(w, t, n) = Among(w, s, n)
  BY <1>1, AmongSame
<1> QED
  BY <1>1, <1>3, <1>4, Counted DEF t, n

-----------------------------------------------------------------------------
(* The pairs that go through the files.                                    *)

\* Each word counts 1 (wc.go), in a pair of a map job.
Pair == [key : Words, value : {1}]
KeysOf(pairs) == [i \in DOMAIN pairs |-> pairs[i].key]

\* The keys of pairs are words, and those of two files come one after the other.
LEMMA KeysConcat ==
    ASSUME NEW p \in Seq(Pair), NEW q \in Seq(Pair)
    PROVE  /\ p \o q \in Seq(Pair) /\ KeysOf(p) \in Seq(Words)
           /\ KeysOf(p \o q) = KeysOf(p) \o KeysOf(q)
<1> DEFINE u == p \o q
           a == Len(p)
           b == Len(q)
           k == KeysOf(p)
           l == KeysOf(q)
           ku == KeysOf(u)
<1>1. \A s \in Seq(Pair) : /\ Len(s) \in Nat /\ DOMAIN s = 1 .. Len(s)
                           /\ \A i \in 1 .. Len(s) : s[i].key \in Words
  <2>1. SUFFICES ASSUME NEW s \in Seq(Pair), NEW i \in 1 .. Len(s) PROVE s[i].key \in Words
    OBVIOUS
  <2>2. s[i] \in Pair
    BY <2>1, ElementsOf
  <2> QED
    BY <2>2 DEF Pair
<1>2. \A s \in Seq(Pair) : KeysOf(s) \in Seq(Words) /\ Len(KeysOf(s)) = Len(s)
                           /\ \A i \in 1 .. Len(s) : KeysOf(s)[i] = s[i].key
  <2>1. SUFFICES ASSUME NEW s \in Seq(Pair)
                 PROVE  KeysOf(s) \in Seq(Words) /\ Len(KeysOf(s)) = Len(s)
                        /\ \A i \in 1 .. Len(s) : KeysOf(s)[i] = s[i].key
    OBVIOUS
  <2>2. KeysOf(s) = [i \in 1 .. Len(s) |-> s[i].key] /\ Len(s) \in Nat
    BY <1>1 DEF KeysOf
  <2>3. \A i \in 1 .. Len(s) : s[i].key \in Words
    BY <1>1
  <2> QED
    BY <2>2, <2>3
<1>3. u \in Seq(Pair) /\ Len(u) = a + b /\ (\A i \in 1 .. a : u[i] = p[i]) /\ \A i \in 1 .. b : u[a + i] = q[i]
  OBVIOUS
<1>4. /\ k \in Seq(Words) /\ l \in Seq(Words) /\ ku \in Seq(Words) /\ Len(k) = a /\ Len(l) = b /\ Len(ku) = a + b
      /\ a \in Nat /\ b \in Nat
      /\ \A i \in 1 .. a : k[i] = p[i].key
      /\ \A i \in 1 .. b : l[i] = q[i].key
      /\ \A i \in 1 .. a + b : ku[i] = u[i].key
  BY <1>1, <1>2, <1>3
<1> HIDE DEF u, a, b, k, l, ku
<1>5. ASSUME NEW i \in 1 .. a + b PROVE ku[i] = (k \o l)[i]
  <2>1. CASE i \in 1 .. a
    <3>1. (k \o l)[i] = k[i]
      BY <1>4, <2>1
    <3> QED
      BY <1>3, <1>4, <2>1, <3>1
  <2>2. CASE i \notin 1 .. a
    <3>1. i - a \in 1 .. b /\ a + (i - a) = i
      BY <1>4, <2>2
    <3>2. (k \o l)[a + (i - a)] = l[i - a]
      BY <1>4, <3>1
    <3>3. u[a + (i - a)] = q[i - a] /\ l[i - a] = q[i - a].key
      BY <1>3, <1>4, <3>1
    <3> QED
      BY <1>4, <3>1, <3>2, <3>3
  <2> QED
    BY <2>1, <2>2
<1>6. k \o l \in Seq(Words) /\ Len(k \o l) = a + b
  <2>1. \A x, y \in Seq(Words) : x \o y \in Seq(Words) /\ Len(x \o y) = Len(x) + Len(y)
    OBVIOUS
  <2> QED
    BY <1>4, <2>1
<1>7. ku = k \o l
  BY <1>4, <1>5, <1>6, SeqEqual
<1>8. u \in Seq(Pair) /\ k \in Seq(Words)
  BY <1>3, <1>4
<1> QED
  BY <1>7, <1>8, Zenon DEF u, k, l, ku

\* ... and so with one pair more.
LEMMA KeysAppend ==
    ASSUME NEW p \in Seq(Pair), NEW e \in Pair
    PROVE  /\ Append(p, e) \in Seq(Pair) /\ KeysOf(p) \in Seq(Words) /\ e.key \in Words
           /\ KeysOf(Append(p, e)) = Append(KeysOf(p), e.key)
<1>1. <<e>> \in Seq(Pair) /\ Append(p, e) = p \o <<e>> /\ e.key \in Words
  <2>1. e.key \in Words
    BY DEF Pair
  <2>2. <<e>> \in Seq(Pair)
    OBVIOUS
  <2>3. Append(p, e) = p \o <<e>>
    BY AppendIsConcat
  <2> QED
    BY <2>1, <2>2, <2>3
<1>2. KeysOf(<<e>>) = <<e.key>>
  BY DEF KeysOf
<1>3. KeysOf(p) \in Seq(Words) /\ KeysOf(p \o <<e>>) = KeysOf(p) \o <<e.key>> /\ p \o <<e>> \in Seq(Pair)
  BY <1>1, <1>2, KeysConcat
<1>4. KeysOf(p) \o <<e.key>> = Append(KeysOf(p), e.key)
  BY <1>1, <1>3
<1> QED
  BY <1>1, <1>3, <1>4

\* OfKeys goes through the pairs one by one.
LEMMA OfKeysStep ==
    ASSUME NEW pairs \in Seq(Pair), NEW keys
    PROVE  LET N == Len(pairs)
               S == Seq({p \in Pair : p.key \in keys})
           IN  \E f \in [0 .. N -> S] :
                  /\ f[0] = <<>> /\ OfKeys(pairs, keys) = f[N]
                  /\ \A n \in 1 .. N :
                        f[n] = IF pairs[n].key \in keys THEN Append(f[n - 1], pairs[n]) ELSE f[n - 1]
<1> DEFINE N == Len(pairs)
           P == {p \in Pair : p.key \in keys}
           S == Seq(P)
           More(s, n) == IF pairs[n].key \in keys THEN Append(s, pairs[n]) ELSE s
           Body(f) == [n \in 0 .. N |-> IF n = 0 THEN <<>> ELSE More(f[n - 1], n)]
           F == CHOOSE f : f = Body(f)
<1>1. N \in Nat /\ <<>> \in S /\ \A n \in 1 .. N : pairs[n] \in Pair
  BY ElementsOf
<1>2. ASSUME NEW s \in S, NEW n \in 1 .. N PROVE More(s, n) \in S
  <2>1. CASE pairs[n].key \in keys
    <3>1. pairs[n] \in P
      BY <1>1, <2>1
    <3> HIDE DEF P
    <3>2. Append(s, pairs[n]) \in S
      BY <3>1
    <3> QED
      BY <2>1, <3>2
  <2>2. CASE pairs[n].key \notin keys
    BY <2>2
  <2> QED
    BY <2>1, <2>2
<1>3. OfKeys(pairs, keys) = F[N]
  BY DEF OfKeys
<1> HIDE DEF N, S, More
<1>4. PICK f : f = Body(f)
  <2> DEFINE g == [x \in S \X (1 .. N) |-> More(x[1], x[2])]
  <2>1. g \in [S \X (1 .. N) -> S]
    BY <1>2
  <2>2. \A h \in S, n \in 1 .. N : g[<<h, n>>] = More(h, n)
    OBVIOUS
  <2> HIDE DEF g
  <2>3. PICK f \in [0 .. N -> S] : Iterates(f, N, <<>>, g)
    BY <1>1, <2>1, Recursion
  <2>4. ASSUME NEW n \in 0 .. N PROVE f[n] = IF n = 0 THEN <<>> ELSE More(f[n - 1], n)
    <3>1. CASE n # 0
      <4>1. n \in 1 .. N /\ n - 1 \in 0 .. N
        BY <1>1, <3>1
      <4>2. f[n] = g[<<f[n - 1], n>>] /\ f[n - 1] \in S
        BY <2>3, <4>1 DEF Iterates
      <4> QED
        BY <2>2, <3>1, <4>1, <4>2
    <3>2. CASE n = 0
      BY <2>3, <3>2 DEF Iterates
    <3> QED
      BY <3>1, <3>2
  <2>5. f = Body(f)
    BY <2>4
  <2> QED
    BY <2>5
<1>5. F = Body(F)
  BY <1>4
<1> HIDE DEF F
<1>6. F[0] = <<>> /\ \A n \in 1 .. N : F[n] = More(F[n - 1], n)
  <2>1. 0 \in 0 .. N /\ \A n \in 1 .. N : n \in 0 .. N /\ n # 0
    BY <1>1
  <2>2. \A n \in 0 .. N : F[n] = IF n = 0 THEN <<>> ELSE More(F[n - 1], n)
    BY <1>5
  <2> QED
    BY <2>1, <2>2
<1>7. F \in [0 .. N -> S]
  <2> DEFINE T == {n \in 0 .. N : F[n] \in S}
  <2>1. 0 \in T
    BY <1>1, <1>6
  <2>2. ASSUME NEW n \in 1 .. N, n - 1 \in T PROVE n \in T
    BY <1>1, <1>2, <1>6, <2>2
  <2> HIDE DEF T
  <2>3. \A n \in 0 .. N : n \in T
    BY <1>1, <2>1, <2>2, UpTo
  <2>4. F = [n \in 0 .. N |-> F[n]]
    BY <1>5
  <2> QED
    BY <2>3, <2>4 DEF T
<1> QED
  BY <1>3, <1>6, <1>7 DEF N, S, More

\* The pairs with some keys: as many for each of these keys.
LEMMA OfKeysPairs ==
    ASSUME NEW pairs \in Seq(Pair), NEW keys
    PROVE  /\ OfKeys(pairs, keys) \in Seq({p \in Pair : p.key \in keys})
           /\ OfKeys(pairs, keys) \in Seq(Pair)
           /\ \A w : Occurrences(w, KeysOf(OfKeys(pairs, keys)))
                       = IF w \in keys THEN Occurrences(w, KeysOf(pairs)) ELSE 0
<1> DEFINE N == Len(pairs)
           P == {p \in Pair : p.key \in keys}
           S == Seq(P)
<1>1. PICK f \in [0 .. N -> S] :
         /\ f[0] = <<>> /\ OfKeys(pairs, keys) = f[N]
         /\ \A n \in 1 .. N :
               f[n] = IF pairs[n].key \in keys THEN Append(f[n - 1], pairs[n]) ELSE f[n - 1]
  BY OfKeysStep
<1>2. N \in Nat /\ N \in 0 .. N
  BY ElementsOf
<1>3. \A n \in 0 .. N : f[n] \in S /\ f[n] \in Seq(Pair)
  <2>1. S \subseteq Seq(Pair)
    <3>1. P \subseteq Pair
      OBVIOUS
    <3> HIDE DEF P
    <3>2. ASSUME NEW s \in Seq(P) PROVE s \in Seq(Pair)
      BY <3>1
    <3> QED
      BY <3>2
  <2> QED
    BY <2>1
<1>4. ASSUME NEW w
      PROVE  Occurrences(w, KeysOf(f[N])) = IF w \in keys THEN Occurrences(w, KeysOf(pairs)) ELSE 0
  <2> DEFINE k == KeysOf(pairs)
             T == {n \in 0 .. N : Occurrences(w, KeysOf(f[n])) = IF w \in keys THEN Among(w, k, n) ELSE 0}
  <2>1. k \in Seq(Words) /\ Len(k) = N /\ \A n \in 1 .. N : k[n] = pairs[n].key
    <3>1. k = [i \in 1 .. N |-> pairs[i].key]
      BY DEF KeysOf
    <3> QED
      BY <1>2, <3>1, KeysConcat
  <2>2. Occurrences(w, KeysOf(pairs)) = Among(w, k, N)
    BY <2>1, Counted
  <2> HIDE DEF k
  <2>3. 0 \in T
    <3>1. KeysOf(<<>>) = <<>>
      BY DEF KeysOf
    <3>2. Occurrences(w, <<>>) = 0
      <4>1. <<>> \in Seq(Words) /\ DOMAIN <<>> = {}
        OBVIOUS
      <4> QED
        BY <4>1, Counted
    <3> QED
      BY <1>1, <1>2, <3>1, <3>2, AmongStep
  <2>4. ASSUME NEW n \in 1 .. N, n - 1 \in T PROVE n \in T
    <3>1. n \in Nat /\ n # 0 /\ n - 1 \in 0 .. N /\ n \in 0 .. N /\ n - 1 \in Nat
      BY <1>2
    <3>2. Among(w, k, n) = Among(w, k, n - 1) + (IF k[n] = w THEN 1 ELSE 0) /\ Among(w, k, n - 1) \in Nat
      BY <3>1, AmongStep
    <3>3. pairs[n] \in Pair /\ k[n] = pairs[n].key
      BY <2>1, ElementsOf
    <3>4. CASE pairs[n].key \in keys
      <4>1. f[n] = Append(f[n - 1], pairs[n]) /\ f[n - 1] \in Seq(Pair)
        BY <1>1, <1>3, <3>1, <3>4
      <4>2. KeysOf(f[n]) = Append(KeysOf(f[n - 1]), k[n]) /\ KeysOf(f[n - 1]) \in Seq(Words) /\ k[n] \in Words
        BY <3>3, <4>1, KeysAppend
      <4>3. Occurrences(w, KeysOf(f[n])) = Occurrences(w, KeysOf(f[n - 1])) + IF k[n] = w THEN 1 ELSE 0
        BY <4>2, CountAppend
      <4>4. Occurrences(w, KeysOf(f[n - 1])) = IF w \in keys THEN Among(w, k, n - 1) ELSE 0
        BY <2>4
      <4> QED
        BY <3>1, <3>2, <3>3, <3>4, <4>3, <4>4
    <3>5. CASE pairs[n].key \notin keys
      <4>1. f[n] = f[n - 1]
        BY <1>1, <3>5
      <4>2. Occurrences(w, KeysOf(f[n - 1])) = IF w \in keys THEN Among(w, k, n - 1) ELSE 0
        BY <2>4
      <4>3. w \in keys => k[n] # w
        BY <3>3, <3>5
      <4> QED
        BY <3>1, <3>2, <4>1, <4>2, <4>3
    <3> QED
      BY <3>4, <3>5
  <2> HIDE DEF T
  <2>5. \A n \in 0 .. N : n \in T
    BY <1>2, <2>3, <2>4, UpTo
  <2>6. N \in T
    BY <1>2, <2>5
  <2> QED
    BY <2>2, <2>6 DEF T
<1> QED
  BY <1>1, <1>2, <1>3, <1>4

\* As many values as there are, if each is 1.
LEMMA ReduceOnes ==
    ASSUME NEW key, NEW values \in Seq({1})
    PROVE  Reduce(key, values) = Len(values)
<1> DEFINE N == Len(values)
           Body(f) == [n \in 0 .. N |-> IF n = 0 THEN 0 ELSE f[n - 1] + values[n]]
           F == CHOOSE f : f = Body(f)
<1>1. N \in Nat /\ \A n \in 1 .. N : values[n] = 1
  BY ElementsOf
<1>2. Reduce(key, values) = F[N]
  BY DEF Reduce
<1> HIDE DEF N
<1>3. PICK f : f = Body(f)
  <2> DEFINE f == [n \in 0 .. N |-> n]
  <2>1. ASSUME NEW n \in 0 .. N PROVE f[n] = IF n = 0 THEN 0 ELSE f[n - 1] + values[n]
    <3>1. CASE n # 0
      <4>1. n \in 1 .. N /\ n - 1 \in 0 .. N /\ n = (n - 1) + 1
        BY <1>1, <3>1
      <4> QED
        BY <1>1, <3>1, <4>1
    <3> QED
      BY <3>1
  <2>2. f = [n \in 0 .. N |-> f[n]]
    OBVIOUS
  <2> HIDE DEF f
  <2>3. f = Body(f)
    BY <2>1, <2>2
  <2> QED
    BY <2>3
<1>4. F = Body(F)
  BY <1>3
<1> HIDE DEF F
<1>5. \A n \in 0 .. N : F[n] = IF n = 0 THEN 0 ELSE F[n - 1] + values[n]
  BY <1>4
<1> DEFINE T == {n \in 0 .. N : F[n] = n}
<1>6. 0 \in T
  BY <1>1, <1>5
<1>7. ASSUME NEW n \in 1 .. N, n - 1 \in T PROVE n \in T
  <2>1. n \in 0 .. N /\ n # 0 /\ n - 1 + 1 = n /\ F[n - 1] = n - 1
    BY <1>1, <1>7
  <2> QED
    BY <1>1, <1>5, <2>1
<1> HIDE DEF T
<1>8. \A n \in 0 .. N : n \in T
  BY <1>1, <1>6, <1>7, UpTo
<1>9. N \in T
  BY <1>1, <1>8
<1> QED
  BY <1>2, <1>9 DEF T, N

\* The result of a file has for each key how often it is there.
LEMMA ReducedCounts ==
    ASSUME NEW pairs \in Seq(Pair)
    PROVE  LET keys == KeysOf(pairs)
           IN  Reduced(pairs) = [k \in {keys[i] : i \in DOMAIN keys} |-> Occurrences(k, keys)]
<1> DEFINE keys == KeysOf(pairs)
<1>1. keys \in Seq(Words) /\ DOMAIN keys = DOMAIN pairs /\ \A i \in DOMAIN pairs : keys[i] = pairs[i].key
  BY KeysConcat DEF KeysOf
<1>2. ASSUME NEW k
      PROVE  LET list == OfKeys(pairs, {k})
             IN  Reduce(k, [i \in DOMAIN list |-> list[i].value]) = Occurrences(k, keys)
  <2> DEFINE list == OfKeys(pairs, {k})
             values == [i \in DOMAIN list |-> list[i].value]
             P == {p \in Pair : p.key \in {k}}
  <2>1. list \in Seq(P) /\ list \in Seq(Pair) /\ Occurrences(k, KeysOf(list)) = Occurrences(k, keys)
    BY OfKeysPairs
  <2>2. Len(list) \in Nat /\ DOMAIN list = 1 .. Len(list)
        /\ \A i \in 1 .. Len(list) : list[i].key = k /\ list[i].value = 1
    <3>1. Len(list) \in Nat /\ DOMAIN list = 1 .. Len(list)
      BY <2>1
    <3>2. \A i \in 1 .. Len(list) : list[i] \in P
      BY <2>1, ElementsOf
    <3> QED
      BY <3>1, <3>2 DEF Pair
  <2> HIDE DEF list, P
  <2>3. values \in Seq({1}) /\ Len(values) = Len(list)
    <3>1. values = [i \in 1 .. Len(list) |-> list[i].value]
      BY <2>2
    <3> QED
      BY <2>2, <3>1
  <2>4. Occurrences(k, KeysOf(list)) = Len(list)
    <3>1. {i \in DOMAIN KeysOf(list) : KeysOf(list)[i] = k} = 1 .. Len(list)
      BY <2>2 DEF KeysOf
    <3>2. Cardinality(1 .. Len(list)) = Len(list)
      <4> DEFINE n == Len(list)
      <4>1. n \in Nat /\ 1 \in Int
        BY <2>2
      <4> HIDE DEF n
      <4>2. Cardinality(1 .. n) = n
        BY <4>1, FS_Interval
      <4> QED
        BY <4>2 DEF n
    <3> QED
      BY <3>1, <3>2 DEF Occurrences
  <2> HIDE DEF values
  <2>5. Reduce(k, values) = Occurrences(k, keys)
    BY <2>1, <2>3, <2>4, ReduceOnes
  <2> QED
    BY <2>5 DEF values, list
<1>3. {keys[i] : i \in DOMAIN keys} = {pairs[i].key : i \in DOMAIN pairs}
  BY <1>1
<1> QED
  BY <1>2, <1>3 DEF Reduced

\* A map job makes one pair of each word of its split, in one of its files.
LEMMA PartitionCounts ==
    ASSUME NEW value \in Seq(Words), NEW r
    PROVE  /\ Partition(value, r) \in Seq(Pair)
           /\ \A w \in Words : Occurrences(w, KeysOf(Partition(value, r)))
                                 = IF Hash[w] % nReduce = r THEN Occurrences(w, value) ELSE 0
<1> DEFINE m == Map(value)
           keys == {w \in Words : Hash[w] % nReduce = r}
<1>1. m \in Seq(Pair) /\ KeysOf(m) = value
  <2>1. Len(value) \in Nat /\ value = [i \in 1 .. Len(value) |-> value[i]] /\ DOMAIN value = 1 .. Len(value)
        /\ \A i \in 1 .. Len(value) : value[i] \in Words
    BY ElementsOf
  <2>2. m = [i \in 1 .. Len(value) |-> [key |-> value[i], value |-> 1]]
    BY <2>1 DEF Map
  <2>3. \A i \in 1 .. Len(value) : m[i] \in Pair /\ m[i].key = value[i]
    BY <2>1, <2>2 DEF Pair
  <2> HIDE DEF m
  <2>4. m \in Seq(Pair)
    BY <2>1, <2>2, <2>3
  <2>5. KeysOf(m) = [i \in 1 .. Len(value) |-> value[i]]
    BY <2>2, <2>3 DEF KeysOf
  <2> QED
    BY <2>1, <2>4, <2>5
<1> HIDE DEF m
<1>2. /\ OfKeys(m, keys) \in Seq(Pair)
      /\ \A w : Occurrences(w, KeysOf(OfKeys(m, keys))) = IF w \in keys THEN Occurrences(w, KeysOf(m)) ELSE 0
  BY <1>1, OfKeysPairs
<1>3. Partition(value, r) = OfKeys(m, keys)
  BY DEF Partition, m
<1> QED
  BY <1>1, <1>2, <1>3

\* What the first n files have of w, added up.
Tally(files, n, w, total) ==
    \E c \in [0 .. n -> Nat] :
        /\ c[0] = 0 /\ c[n] = total
        /\ \A m \in 1 .. n : c[m] = c[m - 1] + Occurrences(w, files[m])

\* The pairs for a result are those of the words that belong to it.
LEMMA AllPairsCounts ==
    ASSUME NEW files, \A m \in 1 .. nMap : files[m] \in Seq(Words), NEW r
    PROVE  /\ \A n \in 0 .. nMap : AllPairs(files, r)[n] \in Seq(Pair)
           /\ \A w \in Words : \A total : Tally(files, nMap, w, total) =>
                 Occurrences(w, KeysOf(AllPairs(files, r)[nMap])) = IF Hash[w] % nReduce = r THEN total ELSE 0
<1> DEFINE A == AllPairs(files, r)
           Part(n) == Created(None) \o Partition(files[n], r)
<1>1. A[0] = <<>> /\ \A n \in 1 .. nMap : A[n] = A[n - 1] \o Part(n)
  BY AllPairsStep
<1>2. ASSUME NEW n \in 1 .. nMap PROVE Part(n) = Partition(files[n], r) /\ Part(n) \in Seq(Pair)
  <2>1. Partition(files[n], r) \in Seq(Pair)
    BY PartitionCounts
  <2>2. \A s \in Seq(Pair) : <<>> \o s = s
    OBVIOUS
  <2> QED
    BY <2>1, <2>2 DEF Created
<1>3. nMap \in Nat /\ nMap \in 0 .. nMap /\ 0 \in 0 .. nMap
  BY Constants
<1> HIDE DEF A, Part
<1>4. \A n \in 0 .. nMap : A[n] \in Seq(Pair)
  <2> DEFINE T == {n \in 0 .. nMap : A[n] \in Seq(Pair)}
  <2>1. 0 \in T
    <3>1. <<>> \in Seq(Pair)
      OBVIOUS
    <3> QED
      BY <1>1, <1>3, <3>1
  <2>2. ASSUME NEW n \in 1 .. nMap, n - 1 \in T PROVE n \in T
    <3>1. A[n - 1] \in Seq(Pair) /\ n \in 0 .. nMap
      BY <1>3, <2>2
    <3>2. A[n - 1] \o Part(n) \in Seq(Pair)
      BY <1>2, <3>1, KeysConcat
    <3> QED
      BY <1>1, <3>1, <3>2
  <2> HIDE DEF T
  <2>3. \A n \in 0 .. nMap : n \in T
    BY <1>3, <2>1, <2>2, UpTo
  <2> QED
    BY <2>3 DEF T
<1>5. ASSUME NEW w \in Words, NEW total, Tally(files, nMap, w, total)
      PROVE  Occurrences(w, KeysOf(A[nMap])) = IF Hash[w] % nReduce = r THEN total ELSE 0
  <2>1. PICK c \in [0 .. nMap -> Nat] :
           /\ c[0] = 0 /\ c[nMap] = total
           /\ \A m \in 1 .. nMap : c[m] = c[m - 1] + Occurrences(w, files[m])
    BY <1>5 DEF Tally
  <2> DEFINE T == {n \in 0 .. nMap : Occurrences(w, KeysOf(A[n])) = IF Hash[w] % nReduce = r THEN c[n] ELSE 0}
  <2>2. 0 \in T
    <3>1. KeysOf(<<>>) = <<>> /\ <<>> \in Seq(Words) /\ DOMAIN <<>> = {}
      BY DEF KeysOf
    <3>2. Occurrences(w, <<>>) = 0
      BY <3>1, Counted
    <3> QED
      BY <1>1, <1>3, <2>1, <3>1, <3>2
  <2>3. ASSUME NEW n \in 1 .. nMap, n - 1 \in T PROVE n \in T
    <3>1. A[n - 1] \in Seq(Pair) /\ n \in 0 .. nMap /\ n - 1 \in 0 .. nMap
      BY <1>3, <1>4
    <3>2. KeysOf(A[n]) = KeysOf(A[n - 1]) \o KeysOf(Part(n)) /\ KeysOf(A[n - 1]) \in Seq(Words)
          /\ KeysOf(Part(n)) \in Seq(Words)
      BY <1>1, <1>2, <3>1, KeysConcat
    <3>3. Occurrences(w, KeysOf(A[n])) = Occurrences(w, KeysOf(A[n - 1])) + Occurrences(w, KeysOf(Part(n)))
      BY <3>2, CountConcat
    <3>4. Occurrences(w, KeysOf(Part(n))) = IF Hash[w] % nReduce = r THEN Occurrences(w, files[n]) ELSE 0
      BY <1>2, PartitionCounts
    <3>5. Occurrences(w, KeysOf(A[n - 1])) = IF Hash[w] % nReduce = r THEN c[n - 1] ELSE 0
      BY <2>3
    <3>6. c[n] = c[n - 1] + Occurrences(w, files[n])
      BY <2>1
    <3> QED
      BY <3>1, <3>3, <3>4, <3>5, <3>6
  <2> HIDE DEF T
  <2>4. \A n \in 0 .. nMap : n \in T
    BY <1>3, <2>2, <2>3, UpTo
  <2>5. nMap \in T
    BY <1>3, <2>4
  <2> QED
    BY <2>1, <2>5 DEF T
<1> QED
  BY <1>4, <1>5 DEF A

-----------------------------------------------------------------------------
(* The words of the input are those of its split files.                    *)

\* All words of a file are those of its lines, one after the other.
LEMMA WordsOfStep ==
    ASSUME NEW input \in Inputs
    PROVE  LET N == Len(input.lines)
           IN  \E f \in [0 .. N -> Seq(Words)] :
                  /\ f[0] = <<>> /\ WordsOf(input) = f[N]
                  /\ \A n \in 1 .. N : f[n] = f[n - 1] \o input.lines[n].words
<1> DEFINE N == Len(input.lines)
           S == Seq(Words)
           More(s, n) == s \o input.lines[n].words
           Body(f) == [n \in 0 .. N |-> IF n = 0 THEN <<>> ELSE More(f[n - 1], n)]
           F == CHOOSE f : f = Body(f)
<1>1. N \in Nat /\ <<>> \in S
  BY BytesGrow
<1>2. ASSUME NEW s \in S, NEW n \in 1 .. N PROVE More(s, n) \in S
  <2>1. input.lines \in Seq([words : Seq(Words), bytes : Nat])
    BY MapReduceAssumption
  <2>2. input.lines[n] \in [words : Seq(Words), bytes : Nat]
    BY <2>1, ElementsOf, Zenon
  <2>3. input.lines[n].words \in Seq(Words)
    BY <2>2
  <2> QED
    BY <2>3
<1>3. WordsOf(input) = F[N]
  BY DEF WordsOf
<1> HIDE DEF N, S, More
<1>4. PICK f : f \in [0 .. N -> S] /\ f = Body(f)
  <2> DEFINE g == [x \in S \X (1 .. N) |-> More(x[1], x[2])]
  <2>1. g \in [S \X (1 .. N) -> S]
    BY <1>2
  <2>2. \A h \in S, n \in 1 .. N : g[<<h, n>>] = More(h, n)
    OBVIOUS
  <2> HIDE DEF g
  <2>3. PICK f \in [0 .. N -> S] : Iterates(f, N, <<>>, g)
    BY <1>1, <2>1, Recursion
  <2>4. ASSUME NEW n \in 0 .. N PROVE f[n] = IF n = 0 THEN <<>> ELSE More(f[n - 1], n)
    <3>1. CASE n # 0
      <4>1. n \in 1 .. N /\ n - 1 \in 0 .. N
        BY <1>1, <3>1
      <4>2. f[n] = g[<<f[n - 1], n>>] /\ f[n - 1] \in S
        BY <2>3, <4>1 DEF Iterates
      <4> QED
        BY <2>2, <3>1, <4>1, <4>2
    <3>2. CASE n = 0
      BY <2>3, <3>2 DEF Iterates
    <3> QED
      BY <3>1, <3>2
  <2>5. f = Body(f)
    BY <2>4
  <2> QED
    BY <2>3, <2>5
<1>5. F = Body(F)
  BY <1>4
<1> HIDE DEF F
<1>6. F[0] = <<>> /\ \A n \in 1 .. N : F[n] = More(F[n - 1], n)
  <2>1. 0 \in 0 .. N /\ \A n \in 1 .. N : n \in 0 .. N /\ n # 0
    BY <1>1
  <2>2. \A n \in 0 .. N : F[n] = IF n = 0 THEN <<>> ELSE More(F[n - 1], n)
    BY <1>5
  <2> QED
    BY <2>1, <2>2
<1>7. F \in [0 .. N -> S]
  <2> DEFINE T == {n \in 0 .. N : F[n] \in S}
  <2>1. 0 \in T
    BY <1>1, <1>6
  <2>2. ASSUME NEW n \in 1 .. N, n - 1 \in T PROVE n \in T
    BY <1>1, <1>2, <1>6, <2>2
  <2> HIDE DEF T
  <2>3. \A n \in 0 .. N : n \in T
    BY <1>1, <2>1, <2>2, UpTo
  <2>4. F = [n \in 0 .. N |-> F[n]]
    BY <1>5
  <2> QED
    BY <2>3, <2>4 DEF T
<1> QED
  BY <1>3, <1>6, <1>7 DEF N, S, More

\* What a line adds to the files, wherever its words go.
LEMMA WriteTally ==
    ASSUME NEW files \in Files, NEW line, line.words \in Seq(Words), NEW i \in Nat, NEW share \in Nat,
           NEW w, NEW total \in Nat, Tally(files, Len(files), w, total)
    PROVE  LET new == Write(files, line, i, share)
           IN  Tally(new, Len(new), w, total + Occurrences(w, line.words))
<1> DEFINE S == Seq(Words)
           new == Write(files, line, i, share)
           n == Len(files)
           more == Occurrences(w, line.words)
<1>1. files \in Seq(S) /\ n \in Nat /\ n >= 1 /\ \A m \in 1 .. n : files[m] \in S
  BY ElementsOf DEF Files
<1>2. PICK c \in [0 .. n -> Nat] :
         /\ c[0] = 0 /\ c[n] = total
         /\ \A m \in 1 .. n : c[m] = c[m - 1] + Occurrences(w, files[m])
  BY DEF Tally
<1>3. more \in Nat
  BY Counted
<1>4. CASE i > share * Len(files)
  <2>1. new = Append(files, line.words)
    BY <1>4 DEF Write
  <2>2. Len(new) = n + 1 /\ new[n + 1] = line.words /\ \A m \in 1 .. n : new[m] = files[m]
    <3> HIDE DEF S
    <3>1. line.words \in S
      BY DEF S
    <3> QED
      BY <1>1, <2>1, <3>1
  <2> DEFINE d == [m \in 0 .. n + 1 |-> IF m = n + 1 THEN total + more ELSE c[m]]
  <2> HIDE DEF new, more, n
  <2>3. d \in [0 .. n + 1 -> Nat] /\ d[0] = 0 /\ d[n + 1] = total + more
    <3>1. \A m \in 0 .. n + 1 : m # n + 1 => m \in 0 .. n
      BY <1>1
    <3>2. 0 \in 0 .. n + 1 /\ n + 1 \in 0 .. n + 1 /\ 0 # n + 1
      BY <1>1
    <3> QED
      BY <1>2, <1>3, <3>1, <3>2
  <2>4. ASSUME NEW m \in 1 .. n + 1 PROVE d[m] = d[m - 1] + Occurrences(w, new[m])
    <3>1. m \in 0 .. n + 1 /\ m - 1 \in 0 .. n + 1 /\ m - 1 # n + 1
      BY <1>1
    <3>2. CASE m = n + 1
      <4>1. m - 1 = n
        BY <1>1, <3>2
      <4> QED
        BY <1>2, <2>2, <3>1, <3>2, <4>1 DEF more
    <3>3. CASE m # n + 1
      <4>1. m \in 1 .. n
        BY <1>1, <3>3
      <4> QED
        BY <1>2, <2>2, <3>1, <3>3, <4>1
    <3> QED
      BY <3>2, <3>3
  <2> HIDE DEF d
  <2>5. Tally(new, n + 1, w, total + more)
    BY <2>3, <2>4 DEF Tally
  <2> QED
    BY <2>2, <2>5 DEF new, more
<1>5. CASE ~ (i > share * Len(files))
  <2>1. new = [files EXCEPT ![n] = files[n] \o line.words]
    BY <1>5 DEF Write
  <2>2. Len(new) = n /\ new[n] = files[n] \o line.words /\ \A m \in 1 .. n : m # n => new[m] = files[m]
    <3> DEFINE v == files[n] \o line.words
    <3>1. v \in S
      <4>1. \A x, y \in Seq(Words) : x \o y \in Seq(Words)
        OBVIOUS
      <4> QED
        BY <1>1, <4>1
    <3> HIDE DEF S, v, new
    <3>2. new = [files EXCEPT ![n] = v]
      BY <2>1 DEF v
    <3>3. Len(new) = n /\ new[n] = v /\ \A m \in 1 .. n : m # n => new[m] = files[m]
      BY <1>1, <3>1, <3>2
    <3> QED
      BY <3>3 DEF v
  <2>3. Occurrences(w, new[n]) = Occurrences(w, files[n]) + more
    BY <1>1, <2>2, CountConcat
  <2> DEFINE d == [m \in 0 .. n |-> IF m = n THEN total + more ELSE c[m]]
  <2>4. \A m \in 1 .. n : Occurrences(w, files[m]) \in Nat
    BY <1>1, Counted
  <2> HIDE DEF new, more, n
  <2>5. d \in [0 .. n -> Nat] /\ d[0] = 0 /\ d[n] = total + more
    <3>1. 0 \in 0 .. n /\ n \in 0 .. n /\ 0 # n
      BY <1>1
    <3> QED
      BY <1>2, <1>3, <3>1
  <2>6. ASSUME NEW m \in 1 .. n PROVE d[m] = d[m - 1] + Occurrences(w, new[m])
    <3>1. m \in 0 .. n /\ m - 1 \in 0 .. n /\ m - 1 # n
      BY <1>1
    <3>2. d[m - 1] = c[m - 1] /\ c[m - 1] \in Nat /\ c[m] = c[m - 1] + Occurrences(w, files[m])
      BY <1>2, <3>1
    <3>3. CASE m = n
      BY <1>2, <1>3, <2>3, <2>4, <3>1, <3>2, <3>3
    <3>4. CASE m # n
      BY <1>2, <2>2, <3>1, <3>2, <3>4
    <3> QED
      BY <3>3, <3>4
  <2> HIDE DEF d
  <2>7. Tally(new, n, w, total + more)
    BY <2>5, <2>6 DEF Tally
  <2> QED
    BY <2>2, <2>7 DEF new, more
<1> QED
  BY <1>4, <1>5

\* No word is lost or doubled by the split.
LEMMA SplitTally ==
    ASSUME NEW input \in Inputs, NEW w
    PROVE  /\ WordsOf(input) \in Seq(Words)
           /\ Tally(Split(input), Len(Split(input)), w, Occurrences(w, WordsOf(input)))
<1> DEFINE N == Len(input.lines)
           W == Written(input)
           line(n) == input.lines[n]
<1>1. /\ N \in Nat /\ W[0] = <<<<>>>>
      /\ \A n \in 1 .. N : W[n] = Write(W[n - 1], line(n), Bytes(input)[n - 1], nchunk(input))
      /\ \A n \in 0 .. N : W[n] \in Files
  BY WrittenFiles
<1>2. PICK f \in [0 .. N -> Seq(Words)] :
         /\ f[0] = <<>> /\ WordsOf(input) = f[N]
         /\ \A n \in 1 .. N : f[n] = f[n - 1] \o line(n).words
  BY WordsOfStep
<1>3. \A n \in 1 .. N : line(n).words \in Seq(Words) /\ Bytes(input)[n - 1] \in Nat
  <2>1. SUFFICES ASSUME NEW n \in 1 .. N PROVE line(n).words \in Seq(Words) /\ Bytes(input)[n - 1] \in Nat
    OBVIOUS
  <2>2. input.lines \in Seq([words : Seq(Words), bytes : Nat])
    BY MapReduceAssumption
  <2>3. line(n) \in [words : Seq(Words), bytes : Nat]
    BY <2>2, ElementsOf, Zenon
  <2>4. n - 1 \in 0 .. N
    BY <1>1
  <2> HIDE DEF line
  <2> QED
    BY <2>3, <2>4, BytesGrow
<1>4. nchunk(input) \in Nat
  BY SharesSuffice
<1>5. Split(input) = W[N] /\ N \in 0 .. N /\ 0 \in 0 .. N
  BY <1>1 DEF Split
<1> HIDE DEF N, W, line
<1> DEFINE T == {n \in 0 .. N : Tally(W[n], Len(W[n]), w, Occurrences(w, f[n]))}
<1>6. 0 \in T
  <2> DEFINE c == [m \in 0 .. 1 |-> 0]
  <2>1. Occurrences(w, <<>>) = 0
    <3>1. <<>> \in Seq(Words) /\ DOMAIN <<>> = {}
      OBVIOUS
    <3> QED
      BY <3>1, Counted
  <2>2. c \in [0 .. 1 -> Nat] /\ c[0] = 0 /\ c[1] = 0
    OBVIOUS
  <2>3. \A m \in 1 .. 1 : c[m] = c[m - 1] + Occurrences(w, <<<<>>>>[m])
    BY <2>1
  <2> HIDE DEF c
  <2>4. Tally(<<<<>>>>, 1, w, 0)
    BY <2>2, <2>3, Zenon DEF Tally
  <2>5. Len(<<<<>>>>) = 1
    OBVIOUS
  <2>6. Tally(W[0], Len(W[0]), w, Occurrences(w, f[0]))
    BY <1>1, <1>2, <2>1, <2>4, <2>5, Zenon
  <2> QED
    BY <1>5, <2>6
<1>7. ASSUME NEW n \in 1 .. N, n - 1 \in T PROVE n \in T
  <2>1. n \in 0 .. N /\ n - 1 \in 0 .. N
    BY <1>1
  <2>2. Tally(W[n - 1], Len(W[n - 1]), w, Occurrences(w, f[n - 1]))
    BY <1>7
  <2>3. W[n - 1] \in Files /\ f[n - 1] \in Seq(Words)
    BY <1>1, <1>2, <2>1
  <2>4. Occurrences(w, f[n - 1]) \in Nat
    BY <2>3, Counted
  <2>5. Tally(W[n], Len(W[n]), w, Occurrences(w, f[n - 1]) + Occurrences(w, line(n).words))
    <3> DEFINE l == line(n)
               files == W[n - 1]
               i == Bytes(input)[n - 1]
               share == nchunk(input)
               total == Occurrences(w, f[n - 1])
               new == Write(files, l, i, share)
    <3>1. files \in Files /\ l.words \in Seq(Words) /\ i \in Nat /\ share \in Nat /\ total \in Nat
          /\ Tally(files, Len(files), w, total) /\ W[n] = new
      BY <1>1, <1>3, <1>4, <2>2, <2>3, <2>4
    <3> HIDE DEF l, files, i, share, total, new
    <3>2. Tally(new, Len(new), w, total + Occurrences(w, l.words))
      BY <3>1, WriteTally DEF new
    <3> QED
      BY <3>1, <3>2 DEF total, l
  <2>6. Occurrences(w, f[n]) = Occurrences(w, f[n - 1]) + Occurrences(w, line(n).words)
    <3> DEFINE a == f[n - 1]
               b == line(n).words
    <3>1. a \in Seq(Words) /\ b \in Seq(Words) /\ f[n] = a \o b
      BY <1>2, <1>3, <2>3
    <3> HIDE DEF a, b
    <3>2. Occurrences(w, a \o b) = Occurrences(w, a) + Occurrences(w, b)
      BY <3>1, CountConcat
    <3> QED
      BY <3>1, <3>2 DEF a, b
  <2> QED
    BY <2>1, <2>5, <2>6
<1> HIDE DEF T
<1>8. \A n \in 0 .. N : n \in T
  BY <1>1, <1>6, <1>7, UpTo
<1>9. N \in T
  BY <1>5, <1>8
<1> QED
  BY <1>2, <1>5, <1>9 DEF T

-----------------------------------------------------------------------------
(* Types, and the words of the splits.                                     *)

\* The splits of this run have the words of the input.
TextInv ==
    /\ splits \in Seq(Seq(Words)) /\ made \in 0 .. Len(splits) /\ text \in Seq(Words)
    /\ phase # "split" => \A w \in Words : Tally(splits, made, w, Occurrences(w, text))

\* A map job that is done had its split.
ReadInv == \A j \in Maps : Answered(j) => j[2] < Len(splits)

\* The data have their types.
DataTypes ==
    /\ alive \in BOOLEAN
    /\ Len(worker_ch) <= Cap
    /\ nRPC \in [Workers -> Nat \cup {-1}]
    /\ \A j \in Maps : ops[j] \in 0 .. 2 * nReduce
    /\ \A j \in Reduces : ops[j] \in 0 .. nMap + 2
    /\ kvs \in [Reduces -> Seq(Pair)]
    /\ \A f \in (0 .. nMap - 1) \X (0 .. nReduce - 1) : mid[f] \in Seq(Pair) \cup {None}
    /\ \A r \in 0 .. nReduce - 1 : out[r] = None \/ DOMAIN out[r] \subseteq Words
    /\ result = None \/ DOMAIN result \subseteq Words

ValuesInv == TextInv /\ ReadInv /\ DataTypes

\* Only StartMap touches the splits.
LEMMA SplitsStay ==
    ASSUME [Next]_vars, ~ StartMap
    PROVE  splits' = splits /\ made' = made /\ text' = text /\ (phase = "split" => phase' = "split")
<1>1. CASE StartReduce \/ Merge \/ Shutdown
  BY <1>1 DEF StartReduce, Merge, Shutdown
<1>2. CASE RegisterSend
  BY <1>2 DEF RegisterSend, masterVars
<1>3. ASSUME NEW j \in Jobs, JobStep(j) PROVE UNCHANGED <<splits, made, text, phase>>
  BY <1>3 DEF JobStep, Take, Dial, Reply, PutBack, MissesSplit, DoMap, DoReduce, masterVars
<1>4. ASSUME NEW w \in Workers, WorkerStep(w) PROVE UNCHANGED <<splits, made, text, phase>>
  BY <1>4 DEF WorkerStep, StartWorker, RegisterReceive, Close, Accept, masterVars
<1>5. CASE UNCHANGED vars
  BY <1>5 DEF vars, masterVars
<1> QED
  BY <1>1, <1>2, <1>3, <1>4, <1>5 DEF Next, MasterStep

\* StartMap makes splits with the words of the input, and leaves old ones behind them.
LEMMA TextStep ==
    ASSUME TextInv, [Next]_vars
    PROVE  TextInv'
<1>1. CASE ~ StartMap
  <2>1. splits' = splits /\ made' = made /\ text' = text /\ (phase = "split" => phase' = "split")
    BY <1>1, SplitsStay
  <2>2. \A w \in Words : Tally(splits, made, w, Occurrences(w, text))'
                        <=> Tally(splits, made, w, Occurrences(w, text))
    BY <2>1 DEF Tally, Occurrences
  <2> QED
    BY <2>1, <2>2 DEF TextInv
<1>2. CASE StartMap
  <2>1. PICK input \in Inputs : /\ made' = Len(Split(input)) /\ text' = WordsOf(input)
                                /\ splits' = Split(input) \o SubSeq(splits, made' + 1, Len(splits))
    BY <1>2 DEF StartMap
  <2> DEFINE S == Seq(Words)
             new == Split(input)
             old == SubSeq(splits, made' + 1, Len(splits))
  <2>2. new \in Seq(S) /\ Len(new) \in Nat /\ text' \in Seq(Words)
    BY <2>1, SplitFiles, SplitTally DEF Files
  <2>3. old \in Seq(S)
    <3>1. splits \in Seq(S) /\ made' + 1 \in Nat /\ made' + 1 >= 1 /\ Len(splits) \in Nat
      BY <2>1, <2>2 DEF TextInv
    <3> HIDE DEF S
    <3>2. \A i \in made' + 1 .. Len(splits) : splits[i] \in S
      BY <3>1, ElementsOf
    <3> QED
      BY <3>1, <3>2, SubSeqProperties
  <2> HIDE DEF S, new, old
  <2>4. /\ splits' \in Seq(S) /\ Len(splits') = Len(new) + Len(old) /\ Len(old) \in Nat
        /\ \A m \in 1 .. Len(new) : splits'[m] = new[m]
    <3>1. splits' = new \o old
      BY <2>1 DEF new, old
    <3> QED
      BY <2>2, <2>3, <3>1
  <2>5. ASSUME NEW w \in Words PROVE Tally(splits', made', w, Occurrences(w, text'))
    <3>1. Tally(new, Len(new), w, Occurrences(w, text'))
      BY <2>1, SplitTally DEF new
    <3>2. made' = Len(new)
      BY <2>1 DEF new
    <3> QED
      BY <2>4, <3>1, <3>2 DEF Tally
  <2>6. made' \in 0 .. Len(splits')
    BY <2>1, <2>2, <2>4 DEF new
  <2> QED
    BY <2>2, <2>4, <2>5, <2>6 DEF TextInv, S, Tally, Occurrences
<1> QED
  BY <1>1, <1>2

\* A map job is answered at the end of DoMap.
LEMMA ReadStep ==
    ASSUME MapReduceInv, ReadInv, [Next]_vars
    PROVE  ReadInv'
<1> SUFFICES ASSUME NEW j \in Maps, Answered(j)' PROVE j[2] < Len(splits')
  BY DEF ReadInv
<1>1. pc \in [Jobs -> {"none", "wait", "dial", "call", "run", "reply", "putback", "done"}] /\ j \in Jobs
  BY DEF MapReduceInv, ControlInv, ControlTypes, Jobs
<1>2. ~ StartMap
  <2>1. ASSUME StartMap PROVE pc'[j] = "wait"
    BY <1>1, <2>1 DEF StartMap, Spawned
  <2> QED
    BY <2>1 DEF Answered
<1>3. CASE Answered(j)
  BY <1>2, <1>3, SplitsStay DEF ReadInv
<1>4. CASE ~ Answered(j)
  <2>1. DoMap(j)
    <3>1. ASSUME StartReduce \/ Merge \/ Shutdown \/ RegisterSend PROVE FALSE
      BY <1>1, <1>4, <3>1 DEF StartReduce, Merge, Shutdown, RegisterSend, Spawned, Answered
    <3>2. ASSUME NEW i \in Jobs, JobStep(i), ~ DoMap(i) PROVE FALSE
      <4>1. CASE Take(i) \/ Dial(i) \/ Reply(i) \/ PutBack(i)
        BY <1>1, <1>4, <4>1 DEF Take, Dial, Reply, PutBack, Failed, Answered
      <4>2. CASE MissesSplit(i)
        BY <1>1, <1>4, <4>2 DEF MissesSplit, Ended, Failed, Answered
      <4>3. CASE DoReduce(i)
        <5>1. i # j
          BY <4>3 DEF DoReduce, Maps, Reduces
        <5> QED
          BY <1>1, <1>4, <4>3, <5>1 DEF DoReduce, Answered
      <4> QED
        BY <3>2, <4>1, <4>2, <4>3 DEF JobStep
    <3>3. ASSUME NEW i \in Jobs, DoMap(i), i # j PROVE FALSE
      BY <1>1, <1>4, <3>3 DEF DoMap, Answered
    <3>4. ASSUME NEW w \in Workers, WorkerStep(w) PROVE FALSE
      BY <1>1, <1>4, <3>4 DEF WorkerStep, StartWorker, RegisterReceive, Close, Accept, Ended, Failed, Answered
    <3>5. ~ UNCHANGED vars
      BY <1>4 DEF vars, Answered
    <3> QED
      BY <1>2, <3>1, <3>2, <3>3, <3>4, <3>5 DEF Next, MasterStep
  <2> QED
    BY <1>2, <2>1, SplitsStay DEF DoMap
<1> QED
  BY <1>3, <1>4

\* The result of some pairs is about words.
LEMMA ReducedWords ==
    ASSUME NEW pairs \in Seq(Pair)
    PROVE  DOMAIN Reduced(pairs) \subseteq Words
<1>1. DOMAIN Reduced(pairs) = {pairs[i].key : i \in DOMAIN pairs}
  BY DEF Reduced
<1>2. \A i \in DOMAIN pairs : pairs[i].key \in Words
  <2>1. \A i \in 1 .. Len(pairs) : pairs[i] \in Pair
    BY ElementsOf
  <2> QED
    BY <2>1 DEF Pair
<1> QED
  BY <1>1, <1>2

\* The splits of the jobs that are done are there.
LEMMA SplitsThere ==
    ASSUME TextInv, ReadInv, DoneAll(Maps)
    PROVE  nMap <= Len(splits) /\ \A m \in 1 .. nMap : splits[m] \in Seq(Words)
<1>1. splits \in Seq(Seq(Words)) /\ Len(splits) \in Nat
  BY DEF TextInv
<1>2. nMap <= Len(splits)
  <2> DEFINE j == <<"Map", nMap - 1>>
  <2>1. j \in Maps /\ j[2] = nMap - 1
    BY Constants DEF Maps
  <2> HIDE DEF j
  <2>2. j[2] < Len(splits)
    BY <2>1 DEF DoneAll, ReadInv, Answered
  <2> QED
    BY <1>1, <2>1, <2>2, Constants
<1>3. ASSUME NEW m \in 1 .. nMap PROVE splits[m] \in Seq(Words)
  <2>1. m \in 1 .. Len(splits)
    BY <1>1, <1>2, Constants
  <2> QED
    BY <1>1, <2>1, ElementsOf
<1> QED
  BY <1>2, <1>3

\* What DoMap writes.
LEMMA DoMapTypes ==
    ASSUME MapReduceInv, ValuesInv, NEW j \in Jobs, DoMap(j)
    PROVE  DataTypes'
<1> DEFINE n == ops[j]
           f == n \div 2
           m == j[2]
<1>1. /\ j \in Maps /\ m \in 0 .. nMap - 1 /\ n \in Nat /\ n < 2 * nReduce /\ m < Len(splits)
      /\ DOMAIN mid = (0 .. nMap - 1) \X (0 .. nReduce - 1) /\ DOMAIN ops = Jobs
      /\ \A r \in 0 .. nReduce - 1 : 2 * r + 1 = n => mid[<<m, r>>] = <<>>
  <2>1. j \in Maps /\ pc[j] = "run" /\ m < Len(splits)
    BY DEF DoMap
  <2>2. m \in 0 .. nMap - 1
    BY <2>1 DEF Maps
  <2> QED
    BY <2>1, <2>2 DEF MapReduceInv, FilesInv, MapsInv
<1>2. /\ mid' = [mid EXCEPT ![<<m, f>>] = IF n % 2 = 0 THEN Created(@) ELSE @ \o Partition(splits[m + 1], f)]
      /\ ops' = [ops EXCEPT ![j] = n + 1]
      /\ UNCHANGED <<alive, worker_ch, nRPC, kvs, out, result>>
  BY DEF DoMap, masterVars
<1>3. f \in 0 .. nReduce - 1 /\ (n % 2 # 0 => 2 * f + 1 = n)
  <2>1. n \in Nat /\ n < 2 * nReduce
    BY <1>1
  <2> QED
    BY <2>1, Constants
<1>4. Partition(splits[m + 1], f) \in Seq(Pair)
  <2>1. splits \in Seq(Seq(Words)) /\ m + 1 \in 1 .. Len(splits)
    BY <1>1, Constants DEF ValuesInv, TextInv
  <2>2. splits[m + 1] \in Seq(Words)
    BY <2>1, ElementsOf
  <2> QED
    BY <2>2, PartitionCounts
<1>5. mid'[<<m, f>>] \in Seq(Pair)
  <2>1. <<m, f>> \in DOMAIN mid
    BY <1>1, <1>3
  <2>2. CASE n % 2 = 0
    <3>1. mid'[<<m, f>>] = <<>>
      BY <1>2, <2>1, <2>2 DEF Created
    <3> QED
      BY <3>1
  <2>3. CASE n % 2 # 0
    <3>1. mid[<<m, f>>] = <<>>
      BY <1>1, <1>3, <2>3
    <3>2. mid'[<<m, f>>] = <<>> \o Partition(splits[m + 1], f)
      BY <1>2, <2>1, <2>3, <3>1
    <3>3. \A s \in Seq(Pair) : <<>> \o s \in Seq(Pair)
      OBVIOUS
    <3> QED
      BY <1>4, <3>2, <3>3
  <2> QED
    BY <2>2, <2>3
<1>6. \A g \in (0 .. nMap - 1) \X (0 .. nReduce - 1) : mid'[g] \in Seq(Pair) \cup {None}
  <2>1. SUFFICES ASSUME NEW g \in (0 .. nMap - 1) \X (0 .. nReduce - 1) PROVE mid'[g] \in Seq(Pair) \cup {None}
    OBVIOUS
  <2>2. CASE g = <<m, f>>
    BY <1>5, <2>2
  <2>3. CASE g # <<m, f>>
    <3>1. mid'[g] = mid[g]
      BY <1>1, <1>2, <2>3
    <3> QED
      BY <3>1 DEF ValuesInv, DataTypes
  <2> QED
    BY <2>2, <2>3
<1>7. /\ \A k \in Maps : ops'[k] \in 0 .. 2 * nReduce
      /\ \A k \in Reduces : ops'[k] \in 0 .. nMap + 2
  <2>1. j \notin Reduces /\ Maps \subseteq DOMAIN ops /\ Reduces \subseteq DOMAIN ops
    BY <1>1 DEF Maps, Reduces, Jobs
  <2>2. n + 1 \in 0 .. 2 * nReduce
    BY <1>1, Constants
  <2> HIDE DEF n
  <2> QED
    BY <1>2, <2>1, <2>2 DEF ValuesInv, DataTypes
<1> QED
  BY <1>2, <1>6, <1>7 DEF ValuesInv, DataTypes

\* What DoReduce reads and writes.
LEMMA DoReduceTypes ==
    ASSUME MapReduceInv, ValuesInv, NEW j \in Jobs, DoReduce(j)
    PROVE  DataTypes'
<1> DEFINE n == ops[j]
           r == j[2]
<1>1. /\ j \in Reduces /\ r \in 0 .. nReduce - 1 /\ n \in Nat /\ n < nMap + 2
      /\ DOMAIN kvs = Reduces /\ DOMAIN out = 0 .. nReduce - 1 /\ DOMAIN ops = Jobs
      /\ n <= nMap => kvs[j] = AllPairs(splits, r)[n]
  <2>1. j \in Reduces /\ pc[j] = "run"
    BY DEF DoReduce
  <2>2. r \in 0 .. nReduce - 1
    BY <2>1 DEF Reduces
  <2> QED
    BY <2>1, <2>2 DEF MapReduceInv, FilesInv, ReducesInv
<1>2. /\ \/ n < nMap /\ kvs' = [kvs EXCEPT ![j] = @ \o mid[<<n, r>>]] /\ out' = out
         \/ /\ n >= nMap /\ kvs' = kvs
            /\ out' = [out EXCEPT ![r] = IF n = nMap THEN Created(@) ELSE Reduced(kvs[j])]
      /\ ops' = [ops EXCEPT ![j] = n + 1]
      /\ UNCHANGED <<alive, worker_ch, nRPC, mid, result>>
  BY DEF DoReduce, masterVars
<1>3. kvs \in [Reduces -> Seq(Pair)]
  BY DEF ValuesInv, DataTypes
<1>4. DoneAll(Maps)
  <2>1. phase # "split" /\ phase # "map" /\ phase \in {"split", "map", "reduce", "merged", "done"}
    <3>1. pc[j] = "run"
      BY DEF DoReduce
    <3> QED
      BY <1>1, <3>1 DEF MapReduceInv, ControlInv, ControlTypes, PhasesInv
  <2> QED
    BY <2>1 DEF MapReduceInv, ControlInv, PhasesInv
<1>5. n < nMap => mid[<<n, r>>] \in Seq(Pair)
  <2> SUFFICES ASSUME n < nMap PROVE mid[<<n, r>>] \in Seq(Pair)
    OBVIOUS
  <2> DEFINE k == <<"Map", n>>
  <2>1. k \in Maps /\ k[2] = n
    BY <1>1, Constants DEF Maps
  <2> HIDE DEF k
  <2>2. Answered(k)
    BY <1>4, <2>1 DEF DoneAll, Answered
  <2>3. mid[<<n, r>>] = <<>> \o Partition(splits[n + 1], r)
    BY <1>1, <2>1, <2>2 DEF MapReduceInv, FilesInv, MapsInv, MapFile, Created
  <2>4. n + 1 \in 1 .. nMap
    BY <1>1, Constants
  <2>5. splits[n + 1] \in Seq(Words)
    BY <1>4, <2>4, SplitsThere DEF ValuesInv
  <2>6. Partition(splits[n + 1], r) \in Seq(Pair)
    BY <2>5, PartitionCounts
  <2>7. \A s \in Seq(Pair) : <<>> \o s \in Seq(Pair)
    OBVIOUS
  <2> QED
    BY <2>3, <2>6, <2>7
<1>6. kvs' \in [Reduces -> Seq(Pair)]
  <2>1. CASE kvs' = kvs
    BY <1>3, <2>1
  <2>2. CASE n < nMap /\ kvs' = [kvs EXCEPT ![j] = @ \o mid[<<n, r>>]]
    <3> DEFINE new == kvs[j] \o mid[<<n, r>>]
    <3>1. new \in Seq(Pair)
      <4>1. kvs[j] \in Seq(Pair) /\ mid[<<n, r>>] \in Seq(Pair)
        BY <1>1, <1>3, <1>5, <2>2
      <4> QED
        BY <4>1, KeysConcat
    <3>2. kvs' = [kvs EXCEPT ![j] = new]
      BY <2>2
    <3> HIDE DEF new
    <3> QED
      BY <1>3, <3>1, <3>2
  <2> QED
    BY <1>2, <2>1, <2>2
<1>7. \A q \in 0 .. nReduce - 1 : out'[q] = None \/ DOMAIN out'[q] \subseteq Words
  <2>1. CASE out' = out
    BY <2>1 DEF ValuesInv, DataTypes
  <2>2. CASE out' = [out EXCEPT ![r] = IF n = nMap THEN Created(@) ELSE Reduced(kvs[j])]
    <3> DEFINE new == IF n = nMap THEN Created(out[r]) ELSE Reduced(kvs[j])
    <3>1. DOMAIN new \subseteq Words
      <4>1. DOMAIN Created(out[r]) = {}
        BY DEF Created
      <4>2. DOMAIN Reduced(kvs[j]) \subseteq Words
        BY <1>1, <1>3, ReducedWords
      <4> QED
        BY <4>1, <4>2
    <3>2. out' = [out EXCEPT ![r] = new]
      BY <2>2
    <3> HIDE DEF new
    <3>3. \A q \in 0 .. nReduce - 1 : out'[q] = IF q = r THEN new ELSE out[q]
      BY <1>1, <3>2
    <3> QED
      BY <3>1, <3>3 DEF ValuesInv, DataTypes
  <2> QED
    BY <1>2, <2>1, <2>2
<1>8. /\ \A k \in Maps : ops'[k] \in 0 .. 2 * nReduce
      /\ \A k \in Reduces : ops'[k] \in 0 .. nMap + 2
  <2>1. j \notin Maps /\ Maps \subseteq DOMAIN ops /\ Reduces \subseteq DOMAIN ops
    BY <1>1 DEF Maps, Reduces, Jobs
  <2>2. n + 1 \in 0 .. nMap + 2
    BY <1>1, Constants
  <2> HIDE DEF n
  <2> QED
    BY <1>2, <2>1, <2>2 DEF ValuesInv, DataTypes
<1> QED
  BY <1>2, <1>6, <1>7, <1>8 DEF ValuesInv, DataTypes

\* The result files are all there when they are merged.
LEMMA MergeTypes ==
    ASSUME MapReduceInv, ValuesInv, Merge
    PROVE  DataTypes'
<1>1. /\ phase = "reduce" /\ DoneAll(Reduces) /\ result' = Merged([i \in 1 .. nReduce |-> out[i - 1]])
      /\ UNCHANGED <<alive, worker_ch, nRPC, ops, kvs, mid, out>>
  BY DEF Merge, fileVars
<1>2. DoneAll(Maps)
  BY <1>1 DEF MapReduceInv, ControlInv, PhasesInv
<1>3. ASSUME NEW i \in 1 .. nReduce PROVE DOMAIN out[i - 1] \subseteq Words
  <2> DEFINE j == <<"Reduce", i - 1>>
  <2>1. j \in Reduces /\ j[2] = i - 1
    BY Constants DEF Reduces
  <2> HIDE DEF j
  <2>2. out[i - 1] = Reduced(AllPairs(splits, i - 1)[nMap])
    <3>1. Answered(j)
      BY <1>1, <2>1 DEF DoneAll, Answered
    <3> QED
      BY <2>1, <3>1 DEF MapReduceInv, FilesInv, ReducesInv
  <2>3. AllPairs(splits, i - 1)[nMap] \in Seq(Pair)
    <3>1. \A m \in 1 .. nMap : splits[m] \in Seq(Words)
      BY <1>2, SplitsThere DEF ValuesInv
    <3>2. \A n \in 0 .. nMap : AllPairs(splits, i - 1)[n] \in Seq(Pair)
      BY <3>1, AllPairsCounts
    <3> QED
      BY <3>2, Constants
  <2> QED
    BY <2>2, <2>3, ReducedWords
<1>4. DOMAIN result' \subseteq Words
  <2> DEFINE files == [i \in 1 .. nReduce |-> out[i - 1]]
  <2>1. \A i \in 1 .. nReduce : files[i] = out[i - 1]
    OBVIOUS
  <2>2. DOMAIN files = 1 .. nReduce
    OBVIOUS
  <2> HIDE DEF files
  <2>3. DOMAIN Merged(files) = UNION {DOMAIN files[i] : i \in DOMAIN files}
    BY DEF Merged
  <2>4. result' = Merged(files)
    BY <1>1 DEF files
  <2> QED
    BY <1>3, <2>1, <2>2, <2>3, <2>4
<1> QED
  BY <1>1, <1>4 DEF ValuesInv, DataTypes

\* The data keep their types.
LEMMA TypesStep ==
    ASSUME MapReduceInv, ValuesInv, [Next]_vars
    PROVE  DataTypes'
<1>1. CASE StartMap \/ StartReduce \/ Shutdown
  BY <1>1 DEF StartMap, StartReduce, Shutdown, fileVars, ValuesInv, DataTypes
<1>2. ASSUME UNCHANGED <<masterVars, nRPC, ops, kvs, fileVars>>,
             \/ worker_ch' = worker_ch
             \/ worker_ch # <<>> /\ worker_ch' = Left
             \/ Len(worker_ch) < Cap /\ \E w \in Workers : worker_ch' = Append(worker_ch, w)
      PROVE  DataTypes'
  <2>1. worker_ch \in Seq(Workers) /\ Len(worker_ch) <= Cap /\ Cap \in Nat
    BY Constants DEF MapReduceInv, ControlInv, ControlTypes, ValuesInv, DataTypes
  <2>2. Len(worker_ch') <= Cap
    BY <1>2, <2>1 DEF Left
  <2> QED
    BY <1>2, <2>2 DEF masterVars, fileVars, ValuesInv, DataTypes
<1>3. CASE RegisterSend
  BY <1>2, <1>3 DEF RegisterSend
<1>4. ASSUME NEW j \in Jobs, JobStep(j) PROVE DataTypes'
  <2>1. CASE Take(j)
    BY <1>2, <2>1 DEF Take
  <2>2. CASE PutBack(j)
    <3>1. worker[j] \in Workers
      BY <2>2 DEF PutBack, InHand, MapReduceInv, ControlInv, PlacesInv
    <3> QED
      BY <1>2, <2>2, <3>1 DEF PutBack
  <2>3. CASE Dial(j) \/ Reply(j) \/ MissesSplit(j)
    BY <1>2, <2>3 DEF Dial, Reply, MissesSplit
  <2> QED
    BY <1>4, <2>1, <2>2, <2>3, DoMapTypes, DoReduceTypes DEF JobStep
<1>5. ASSUME NEW w \in Workers, NEW j \in Jobs, Accept(w, j) PROVE DataTypes'
  <2>1. /\ nRPC[w] # 0 /\ nRPC' = [nRPC EXCEPT ![w] = IF @ = -1 THEN -1 ELSE @ - 1]
        /\ ops' = [ops EXCEPT ![j] = 0]
        /\ kvs' = [i \in Reduces |-> IF i = j THEN <<>> ELSE kvs[i]]
        /\ UNCHANGED <<masterVars, worker_ch, fileVars>>
    BY <1>5 DEF Accept
  <2>2. nRPC' \in [Workers -> Nat \cup {-1}]
    BY <2>1 DEF ValuesInv, DataTypes
  <2>3. /\ \A k \in Maps : ops'[k] \in 0 .. 2 * nReduce
        /\ \A k \in Reduces : ops'[k] \in 0 .. nMap + 2
    <3>1. DOMAIN ops = Jobs /\ Maps \subseteq Jobs /\ Reduces \subseteq Jobs
      BY DEF MapReduceInv, FilesInv, Jobs
    <3>2. 0 \in 0 .. 2 * nReduce /\ 0 \in 0 .. nMap + 2
      BY Constants
    <3> QED
      BY <2>1, <3>1, <3>2 DEF ValuesInv, DataTypes
  <2>4. kvs' \in [Reduces -> Seq(Pair)]
    <3>1. kvs \in [Reduces -> Seq(Pair)] /\ <<>> \in Seq(Pair)
      BY DEF ValuesInv, DataTypes
    <3> QED
      BY <2>1, <3>1
  <2> QED
    BY <2>1, <2>2, <2>3, <2>4 DEF masterVars, fileVars, ValuesInv, DataTypes
<1>6. ASSUME NEW w \in Workers, WorkerStep(w) PROVE DataTypes'
  BY <1>2, <1>5, <1>6 DEF WorkerStep, StartWorker, RegisterReceive, Close
<1>7. CASE UNCHANGED vars
  BY <1>2, <1>7 DEF vars
<1> QED
  BY <1>1, <1>3, <1>4, <1>6, <1>7, MergeTypes DEF Next, MasterStep

\* Nothing has been read or written at first.
LEMMA ValuesInit == Init => ValuesInv
<1> SUFFICES ASSUME Init PROVE ValuesInv
  OBVIOUS
<1>1. TextInv
  <2>1. splits \in Seq(Seq(Words))
    BY MapReduceAssumption DEF Init
  <2>2. 0 \in 0 .. Len(splits) /\ <<>> \in Seq(Words)
    BY <2>1, ElementsOf
  <2>3. made = 0 /\ text = <<>> /\ phase = "split"
    BY DEF Init
  <2> QED
    BY <2>1, <2>2, <2>3 DEF TextInv
<1>2. ReadInv
  <2>1. \A j \in Maps : pc[j] = "none"
    BY DEF Init, Jobs
  <2> QED
    BY <2>1 DEF ReadInv, Answered
<1>3. DataTypes
  <2>1. alive \in BOOLEAN /\ Len(worker_ch) <= Cap /\ nRPC \in [Workers -> Nat \cup {-1}]
    BY Constants DEF Init
  <2>2. /\ \A j \in Maps : ops[j] \in 0 .. 2 * nReduce
        /\ \A j \in Reduces : ops[j] \in 0 .. nMap + 2
    BY Constants DEF Init, Jobs
  <2>3. kvs \in [Reduces -> Seq(Pair)]
    <3>1. kvs = [j \in Reduces |-> <<>>] /\ <<>> \in Seq(Pair)
      BY DEF Init
    <3> QED
      BY <3>1
  <2>4. \A f \in (0 .. nMap - 1) \X (0 .. nReduce - 1) : mid[f] = None
    BY DEF Init
  <2>5. (\A r \in 0 .. nReduce - 1 : out[r] = None) /\ result = None
    BY DEF Init
  <2> QED
    BY <2>1, <2>2, <2>3, <2>4, <2>5 DEF DataTypes
<1> QED
  BY <1>1, <1>2, <1>3 DEF ValuesInv

\* ValuesInv is inductive beside MapReduceInv.
LEMMA SystemValues == Spec => []ValuesInv
<1>1. MapReduceInv /\ ValuesInv /\ [Next]_vars => ValuesInv'
  <2> SUFFICES ASSUME MapReduceInv, ValuesInv, [Next]_vars PROVE ValuesInv'
    OBVIOUS
  <2>1. TextInv'
    BY TextStep DEF ValuesInv
  <2>2. ReadInv'
    BY ReadStep DEF ValuesInv
  <2>3. DataTypes'
    BY TypesStep
  <2> QED
    BY <2>1, <2>2, <2>3 DEF ValuesInv
<1> QED
  BY <1>1, ValuesInit, SystemInv, PTL DEF Spec

\* The variables keep their types; in particular no job does more file
\* operations than it has files, and the channel of workers does not overflow.
THEOREM TypeCorrect == Spec => []TypeOK
<1>1. MapReduceInv /\ ValuesInv => TypeOK
  <2> SUFFICES ASSUME MapReduceInv, ValuesInv PROVE TypeOK
    OBVIOUS
  <2> DEFINE S == [key : Words, value : Nat]
  <2>1. \A s \in Seq(Pair) : s \in Seq(S)
    <3>1. Pair \subseteq S
      BY DEF Pair
    <3> HIDE DEF S
    <3> QED
      BY <3>1
  <2>2. kvs \in [Reduces -> Seq(S)]
    <3>1. kvs \in [Reduces -> Seq(Pair)]
      BY DEF ValuesInv, DataTypes
    <3> HIDE DEF S
    <3> QED
      BY <2>1, <3>1
  <2>3. \A f \in (0 .. nMap - 1) \X (0 .. nReduce - 1) : mid[f] \in Seq(S) \cup {None}
    <3>1. \A f \in (0 .. nMap - 1) \X (0 .. nReduce - 1) : mid[f] \in Seq(Pair) \cup {None}
      BY DEF ValuesInv, DataTypes
    <3> HIDE DEF S
    <3> QED
      BY <2>1, <3>1
  <2>4. ControlTypes
    BY DEF MapReduceInv, ControlInv
  <2>5. /\ splits \in Seq(Seq(Words)) /\ made \in 0 .. Len(splits) /\ text \in Seq(Words)
        /\ alive \in BOOLEAN /\ Len(worker_ch) <= Cap /\ nRPC \in [Workers -> Nat \cup {-1}]
        /\ \A j \in Maps : ops[j] \in 0 .. 2 * nReduce
        /\ \A j \in Reduces : ops[j] \in 0 .. nMap + 2
        /\ \A r \in 0 .. nReduce - 1 : out[r] = None \/ DOMAIN out[r] \subseteq Words
        /\ result = None \/ DOMAIN result \subseteq Words
    BY DEF ValuesInv, TextInv, DataTypes
  <2> QED
    BY <2>2, <2>3, <2>4, <2>5 DEF TypeOK, ControlTypes
<1> QED
  BY <1>1, SystemInv, SystemValues, PTL

-----------------------------------------------------------------------------
(* The result.                                                             *)

\* Each of the keys K is in one of the files, its own, and there with value v[k].
Apart(files, N, own, K, v) ==
    /\ N \in Nat /\ DOMAIN files = 1 .. N
    /\ \A i \in 1 .. N : \A k \in DOMAIN files[i] : own[k] = i
    /\ \A k : k \in K <=> \E i \in 1 .. N : k \in DOMAIN files[i]
    /\ \A k \in K : files[own[k]][k] = v[k]

\* Merging such files leaves all values as they are.
LEMMA MergedApart ==
    ASSUME NEW files, NEW N, NEW own, NEW K, NEW v, Apart(files, N, own, K, v)
    PROVE  Merged(files) = [k \in K |-> v[k]]
<1> DEFINE Having(k) == {i \in 1 .. N : k \in DOMAIN files[i]}
<1>1. Merged(files) = [k \in UNION {DOMAIN files[i] : i \in 1 .. N}
                          |-> files[CHOOSE i \in Having(k) : \A n \in Having(k) : n <= i][k]]
  BY DEF Merged, Apart
<1>2. ASSUME NEW k \in K
      PROVE  (CHOOSE i \in Having(k) : \A n \in Having(k) : n <= i) = own[k]
  <2>1. PICK i \in 1 .. N : k \in DOMAIN files[i]
    BY DEF Apart
  <2>2. Having(k) = {i} /\ own[k] = i /\ i <= i
    BY <2>1 DEF Apart
  <2> HIDE DEF Having
  <2> QED
    BY <2>2
<1>3. UNION {DOMAIN files[i] : i \in 1 .. N} = K /\ \A k \in K : files[own[k]][k] = v[k]
  BY DEF Apart
<1> HIDE DEF Having
<1> QED
  BY <1>1, <1>2, <1>3

\* The result file with number i has the words whose hash is i - 1, each with
\* how often it is in the text.
LEMMA ResultFile ==
    ASSUME MapReduceInv, ValuesInv, phase # "split", made = nMap, NEW i \in 1 .. nReduce
    PROVE  Reduced(AllPairs(splits, i - 1)[nMap])
             = [w \in {w \in {text[n] : n \in DOMAIN text} : Hash[w] % nReduce = i - 1}
                   |-> Occurrences(w, text)]
<1> DEFINE p == AllPairs(splits, i - 1)[nMap]
           keys == KeysOf(p)
           D == {text[n] : n \in DOMAIN text}
           E == {keys[n] : n \in DOMAIN keys}
<1>1. p \in Seq(Pair) /\ \A w \in Words : Occurrences(w, keys) = IF Hash[w] % nReduce = i - 1 THEN Occurrences(w, text) ELSE 0
  <2>1. ASSUME NEW m \in 1 .. nMap PROVE splits[m] \in Seq(Words)
    <3>1. splits \in Seq(Seq(Words)) /\ nMap \in 0 .. Len(splits)
      BY DEF ValuesInv, TextInv
    <3>2. m \in 1 .. Len(splits)
      BY <3>1, ElementsOf
    <3> QED
      BY <3>1, <3>2, ElementsOf
  <2>2. \A w \in Words : Tally(splits, nMap, w, Occurrences(w, text))
    BY DEF ValuesInv, TextInv
  <2>3. nMap \in 0 .. nMap
    BY Constants
  <2>4. p \in Seq(Pair)
    BY <2>1, <2>3, AllPairsCounts
  <2> QED
    BY <2>1, <2>2, <2>4, AllPairsCounts
<1>2. Reduced(p) = [k \in E |-> Occurrences(k, keys)]
  BY <1>1, ReducedCounts
<1>3. keys \in Seq(Words) /\ text \in Seq(Words)
  BY <1>1, KeysConcat DEF ValuesInv, TextInv
<1> HIDE DEF p, keys
<1>4. D \subseteq Words /\ E \subseteq Words
  <2>1. \A s \in Seq(Words) : {s[n] : n \in DOMAIN s} \subseteq Words
    OBVIOUS
  <2> QED
    BY <1>3, <2>1
<1>5. /\ \A w : w \in D <=> Occurrences(w, text) # 0
      /\ \A w : w \in E <=> Occurrences(w, keys) # 0
  <2>1. \A w : Occurrences(w, text) # 0 <=> \E n \in DOMAIN text : text[n] = w
    BY <1>3, Counted
  <2>2. \A w : Occurrences(w, keys) # 0 <=> \E n \in DOMAIN keys : keys[n] = w
    BY <1>3, Counted
  <2> QED
    BY <2>1, <2>2
<1> HIDE DEF D, E
<1>6. E = {w \in D : Hash[w] % nReduce = i - 1}
  BY <1>1, <1>4, <1>5
<1>7. \A w \in E : Occurrences(w, keys) = Occurrences(w, text)
  BY <1>1, <1>4, <1>6
<1>8. Reduced(p) = [w \in {w \in D : Hash[w] % nReduce = i - 1} |-> Occurrences(w, text)]
  BY <1>2, <1>6, <1>7
<1> QED
  BY <1>8 DEF p, D

\* The result has the words of the input, each as often as it is there, if the
\* run has made a split for every map job (test_test.go:81), in spite of workers
\* that end, jobs that are repeated and splits that an earlier run has left.
THEOREM WordsAreCounted == Spec => []ResultIsWordCount
<1>1. MapReduceInv /\ ValuesInv => ResultIsWordCount
  <2> SUFFICES ASSUME MapReduceInv, ValuesInv, result # None, made = nMap
               PROVE  result = [w \in {text[i] : i \in DOMAIN text} |-> Occurrences(w, text)]
    BY DEF ResultIsWordCount
  <2> DEFINE D == {text[i] : i \in DOMAIN text}
             own == [w \in Words |-> (Hash[w] % nReduce) + 1]
             files == [r \in 1 .. nReduce |-> Reduced(AllPairs(splits, r - 1)[nMap])]
             Part(i) == {w \in D : Hash[w] % nReduce = i - 1}
  <2>1. result = Merged(files) /\ phase # "split"
    BY DEF MapReduceInv, FilesInv, RunSingle
  <2>2. ASSUME NEW i \in 1 .. nReduce PROVE files[i] = [w \in Part(i) |-> Occurrences(w, text)]
    BY <2>1, ResultFile
  <2>3. D \subseteq Words
    <3>1. \A s \in Seq(Words) : {s[n] : n \in DOMAIN s} \subseteq Words
      OBVIOUS
    <3> QED
      BY <3>1 DEF ValuesInv, TextInv
  <2>4. \A w \in D : own[w] = (Hash[w] % nReduce) + 1 /\ own[w] \in 1 .. nReduce /\ w \in Part(own[w])
    <3>1. SUFFICES ASSUME NEW w \in D
                   PROVE  own[w] = (Hash[w] % nReduce) + 1 /\ own[w] \in 1 .. nReduce /\ w \in Part(own[w])
      OBVIOUS
    <3>2. Hash[w] \in Nat /\ own[w] = (Hash[w] % nReduce) + 1
      BY <2>3, MapReduceAssumption
    <3>3. own[w] \in 1 .. nReduce /\ Hash[w] % nReduce = own[w] - 1
      BY <3>2, Constants
    <3> QED
      BY <3>2, <3>3
  <2>5. DOMAIN files = 1 .. nReduce /\ nReduce \in Nat
    BY Constants
  <2> HIDE DEF D, own, files
  <2>6. \A i \in 1 .. nReduce : DOMAIN files[i] = Part(i)
    BY <2>2
  <2>7. \A i \in 1 .. nReduce : \A k \in DOMAIN files[i] : own[k] = i
    <3>1. SUFFICES ASSUME NEW i \in 1 .. nReduce, NEW k \in Part(i) PROVE own[k] = i
      BY <2>6
    <3>2. own[k] = (Hash[k] % nReduce) + 1 /\ Hash[k] % nReduce = i - 1
      BY <2>4
    <3>3. (i - 1) + 1 = i
      BY <2>5
    <3> QED
      BY <3>2, <3>3
  <2>8. \A k : k \in D <=> \E i \in 1 .. nReduce : k \in DOMAIN files[i]
    BY <2>4, <2>6
  <2> DEFINE v == [k \in D |-> Occurrences(k, text)]
  <2>9. \A k \in D : files[own[k]][k] = v[k]
    <3>1. SUFFICES ASSUME NEW k \in D PROVE files[own[k]][k] = Occurrences(k, text)
      OBVIOUS
    <3>2. files[own[k]] = [w \in Part(own[k]) |-> Occurrences(w, text)] /\ k \in Part(own[k])
      BY <2>2, <2>4
    <3> HIDE DEF Part
    <3> QED
      BY <3>2
  <2>10. v = [k \in D |-> v[k]]
    OBVIOUS
  <2> HIDE DEF v
  <2>11. Merged(files) = [k \in D |-> v[k]]
    <3>1. Apart(files, nReduce, own, D, v)
      BY <2>5, <2>7, <2>8, <2>9 DEF Apart
    <3> QED
      BY <3>1, MergedApart
  <2>12. result = v
    BY <2>1, <2>10, <2>11
  <2> QED
    BY <2>12, Zenon DEF D, v
<1> QED
  BY <1>1, SystemInv, SystemValues, PTL
=============================================================================
