---------------------------- MODULE PBService_proofs ----------------------------
(***************************************************************************)
(* Theorems about the key/value service, for any servers, clerks, keys and *)
(* environments: mutexes are neither left locked nor entered twice, a Put  *)
(* that returned is stored, and mutexes are not waited for in a circle.    *)
(***************************************************************************)
EXTENDS PBService, ViewServer_proofs, SequenceTheorems, DataLemmas

-----------------------------------------------------------------------------
(* The invariant of one stack.  Below the top every frame waits for the    *)
(* one above, which is a call that it makes.                               *)

Pcs == {"start", "lock", "forward", "wait", "ret"}
Arg == View \cup [Keys -> Nat] \cup (Keys \X Nat)
Res == [err : {"none", "fail", "OK", "ErrWrongServer", "ErrNoKey"}, val : Nat]
Frames == [at : Owners, op : Ops, pc : Pcs, arg : Arg, res : Res]

BottomOps == {"ClerkPut", "ClerkGet", "Tick"}
PutOps == {"ClerkPut", "Put", "Relay", "ForwardPut"}
GetOps == {"ClerkGet", "Get"}

\* The results that a call of f may have, if primaries have stored S: a Put
\* that ends well has been stored by one.
MayGet(f, r, e, S) ==
    \/ r = Fail
    \/ f.op \in PutOps /\ r = OK /\ f.arg[2] \in S
    \/ f.op \in PutOps /\ r = WrongServer /\ "lostping" \in e.faults
    \/ f.op = "ClerkGet" /\ r \in {WrongServer, NoKey}
    \/ f.op = "ClerkGet" /\ r.err = "OK" /\ r.val \in 0 .. e.puts
    \/ f.op = "Tick" /\ r = OK

\* What op is called with, after n Puts.
ArgOK(op, arg, e, n) ==
    /\ op \in PutOps => arg \in Keys \X (1 .. n)
    /\ op \in GetOps => arg \in Keys \X (0 .. e.puts)
    /\ op = "MoveDB" => arg \in [Keys -> 0 .. e.puts]
    /\ op = "Tick" => arg \in View

PlaceOK(op, at) ==
    /\ op \in {"ClerkPut", "ClerkGet"} => at \in Clerks
    /\ op \notin {"ClerkPut", "ClerkGet"} => at \in Servers

\* Where f may be, at pc and with the result r of its last call.
PcOK(f, pc, r, e, S) ==
    /\ f.op = "Get" => pc \in {"start", "lock"}
    /\ f.op \in {"ForwardPut", "MoveDB"} => pc = "start"
    /\ f.op = "Put" /\ pc \in {"forward", "wait", "ret"} => f.arg[2] \in S
    /\ pc = "ret" => MayGet(f, r, e, S)

FrameOK(f, e, n, S) ==
    /\ f \in Frames
    /\ ArgOK(f.op, f.arg, e, n)
    /\ PlaceOK(f.op, f.at)
    /\ PcOK(f, f.pc, f.res, e, S)

Calls(f, op, arg) ==
    \/ f.op \in {"ClerkPut", "Relay"} /\ op \in {"Put", "Relay"} /\ arg = f.arg
    \/ f.op = "Put" /\ op = "ForwardPut" /\ arg = f.arg
    \/ f.op = "ClerkGet" /\ op = "Get" /\ arg = f.arg
    \/ f.op = "Tick" /\ op = "MoveDB"

FramesOK(st, e, n, S) ==
    /\ st \in Seq(Frames)
    /\ \A i \in 1 .. Len(st) : FrameOK(st[i], e, n, S)

LinksOK(st) ==
    /\ \A i \in 1 .. Len(st) - 1 : st[i].pc = "wait" /\ Calls(st[i], st[i + 1].op, st[i + 1].arg)
    /\ st # <<>> => st[Len(st)].pc # "wait"

\* Only clerks and ticks are at the bottom of a live thread, and there alone.
BottomOK(t, st) ==
    /\ \A i \in 1 .. Len(st) : st[i].op \in BottomOps <=> (i = 1 /\ t[2] = "live")
    /\ st # <<>> /\ t[2] = "live" => st[1].at = t[1]

StackOK(t, st, e, n, S) == FramesOK(st, e, n, S) /\ LinksOK(st) /\ BottomOK(t, st)

-----------------------------------------------------------------------------
(* The stack operations.                                                   *)

\* The results are results, and a server is no clerk.
LEMMA Constants ==
    /\ NoRes \in Res /\ Fail \in Res /\ OK \in Res /\ WrongServer \in Res /\ NoKey \in Res
    /\ Clerks \cap Servers = {} /\ None \notin Clerks /\ None \notin Servers
    /\ Empty \in [Keys -> {0}]
<1>1. /\ NoRes \in Res /\ Fail \in Res /\ OK \in Res /\ WrongServer \in Res /\ NoKey \in Res
  BY DEF NoRes, Fail, OK, WrongServer, NoKey, Res
<1>2. Empty \in [Keys -> {0}]
  BY DEF Empty
<1> QED
  BY <1>1, <1>2, ClerksAssumption, NoneAssumption

\* Stack w is st with another top.
SameBelow(w, st) ==
    /\ w \in Seq(Frames) /\ Len(w) = Len(st) /\ w # <<>> /\ Len(st) \in Nat \ {0}
    /\ \A i \in 1 .. Len(st) - 1 : w[i] = st[i]

\* Frame g is f, elsewhere in its operation.
Like(g, f, pc, r) ==
    g \in Frames /\ g.at = f.at /\ g.op = f.op /\ g.arg = f.arg /\ g.pc = pc /\ g.res = r

\* Replacing the top frame.
LEMMA Retopped ==
    ASSUME NEW st \in Seq(Frames), st # <<>>, NEW f \in Frames
    PROVE  SameBelow(Front(st) \o <<f>>, st) /\ (Front(st) \o <<f>>)[Len(st)] = f
<1> DEFINE n == Len(st)
           w == Front(st) \o <<f>>
<1>1. n \in Nat \ {0}
  BY EmptySeq
<1>2. \A i \in 1 .. n - 1 : st[i] \in Frames
  BY <1>1
<1>3. 1 \in Int /\ n - 1 \in Int /\ n - 1 - 1 + 1 = n - 1 /\ (1 <= n - 1 \/ n - 1 = 0)
  <2>1. \A m \in Nat \ {0} : m - 1 \in Int /\ m - 1 - 1 + 1 = m - 1 /\ (1 <= m - 1 \/ m - 1 = 0)
    OBVIOUS
  <2> HIDE DEF n
  <2> QED
    BY <1>1, <2>1
<1>4. /\ Front(st) \in Seq(Frames) /\ Len(Front(st)) = n - 1
      /\ \A i \in 1 .. n - 1 : Front(st)[i] = st[i]
  <2>1. Front(st) = SubSeq(st, 1, n - 1)
    BY DEF Front
  <2> HIDE DEF n
  <2>2. /\ SubSeq(st, 1, n - 1) \in Seq(Frames)
        /\ Len(SubSeq(st, 1, n - 1)) = IF 1 <= n - 1 THEN n - 1 - 1 + 1 ELSE 0
        /\ \A i \in 1 .. n - 1 - 1 + 1 : SubSeq(st, 1, n - 1)[i] = st[1 + i - 1]
    BY <1>2, <1>3, SubSeqProperties
  <2>3. \A i \in 1 .. n - 1 : 1 + i - 1 = i
    OBVIOUS
  <2> QED
    BY <1>3, <2>1, <2>2, <2>3
<1> DEFINE F == Front(st)
<1> HIDE DEF F
<1>5. F \in Seq(Frames) /\ Len(F) = n - 1 /\ \A i \in 1 .. n - 1 : F[i] = st[i]
  BY <1>4 DEF F
<1>6. w = F \o <<f>>
  BY DEF F
<1> HIDE DEF w, n
<1>7. w \in Seq(Frames) /\ Len(w) = n
  BY <1>1, <1>5, <1>6
<1>8. \A i \in 1 .. n - 1 : w[i] = st[i]
  BY <1>1, <1>5, <1>6
<1>9. w[n] = f
  BY <1>1, <1>5, <1>6
<1>10. w # <<>>
  BY <1>1, <1>7
<1> QED
  BY <1>1, <1>7, <1>8, <1>9, <1>10 DEF SameBelow, w, n

\* Moving the top frame on.
LEMMA AtFacts ==
    ASSUME NEW st \in Seq(Frames), st # <<>>, NEW pc \in Pcs, NEW r \in Res
    PROVE  SameBelow(At(st, pc, r), st) /\ Like(At(st, pc, r)[Len(st)], st[Len(st)], pc, r)
<1> DEFINE f == [st[Len(st)] EXCEPT !.pc = pc, !.res = r]
<1>1. Len(st) \in Nat \ {0} /\ st[Len(st)] \in Frames
  BY EmptySeq
<1>2. Like(f, st[Len(st)], pc, r)
  BY <1>1 DEF Frames, Like
<1>3. At(st, pc, r) = Front(st) \o <<f>>
  BY DEF At, Last
<1> HIDE DEF f
<1>4. f \in Frames
  BY <1>2 DEF Like
<1> QED
  BY <1>2, <1>3, <1>4, Retopped

\* A handler on top of its caller.
LEMMA Pushed ==
    ASSUME NEW st \in Seq(Frames), NEW g \in Frames
    PROVE  /\ st \o <<g>> \in Seq(Frames) /\ Len(st \o <<g>>) = Len(st) + 1 /\ Len(st) \in Nat
           /\ \A i \in 1 .. Len(st) : (st \o <<g>>)[i] = st[i]
           /\ (st \o <<g>>)[Len(st) + 1] = g
  OBVIOUS

-----------------------------------------------------------------------------
(* ... keep its invariant.                                                 *)

\* A frame may move on to where its operation may be.
LEMMA LikeOK ==
    ASSUME NEW e, NEW n, NEW S, NEW f, NEW g, NEW pc \in Pcs, NEW r \in Res,
           FrameOK(f, e, n, S), Like(g, f, pc, r), PcOK(f, pc, r, e, S)
    PROVE  FrameOK(g, e, n, S)
  BY DEF FrameOK, Like, PcOK, MayGet

\* Moving the top frame on, to where it may be.
LEMMA AtOK ==
    ASSUME NEW t \in Threads, NEW e, NEW n, NEW S, NEW st, st # <<>>,
           StackOK(t, st, e, n, S),
           NEW pc \in Pcs, NEW r \in Res, PcOK(st[Len(st)], pc, r, e, S)
    PROVE  /\ FramesOK(At(st, pc, r), e, n, S)
           /\ BottomOK(t, At(st, pc, r))
           /\ pc # "wait" => StackOK(t, At(st, pc, r), e, n, S)
<1> DEFINE w == At(st, pc, r)
           f == st[Len(st)]
<1>1. st \in Seq(Frames)
  BY DEF StackOK, FramesOK
<1>2. SameBelow(w, st) /\ Like(w[Len(st)], f, pc, r)
  BY <1>1, AtFacts
<1> HIDE DEF w
<1>3. /\ w \in Seq(Frames) /\ Len(w) = Len(st) /\ w # <<>> /\ Len(st) \in Nat \ {0}
      /\ \A i \in 1 .. Len(st) - 1 : w[i] = st[i]
  BY <1>2 DEF SameBelow
<1>4. FrameOK(f, e, n, S) /\ f \in Frames
  BY <1>3 DEF StackOK, FramesOK, FrameOK
<1>5. FrameOK(w[Len(st)], e, n, S)
  BY <1>2, <1>4, LikeOK
<1>6. FramesOK(w, e, n, S)
  BY <1>3, <1>5 DEF StackOK, FramesOK
<1>7. ASSUME NEW i \in 1 .. Len(st)
      PROVE  w[i].op = st[i].op /\ w[i].at = st[i].at /\ w[i].arg = st[i].arg
  <2>1. CASE i = Len(st)
    BY <1>2, <2>1 DEF Like
  <2>2. CASE i # Len(st)
    BY <1>3, <2>2
  <2> QED
    BY <2>1, <2>2
<1>8. BottomOK(t, w)
  <2>1. 1 \in 1 .. Len(st)
    BY <1>3
  <2> QED
    BY <1>3, <1>7, <2>1 DEF StackOK, BottomOK
<1>9. ASSUME pc # "wait" PROVE LinksOK(w)
  <2>1. \A i \in 1 .. Len(st) - 1 : i \in 1 .. Len(st) /\ i + 1 \in 1 .. Len(st)
    BY <1>3
  <2>2. w[Len(st)].pc = pc
    BY <1>2 DEF Like
  <2>3. ASSUME NEW i \in 1 .. Len(st) - 1
        PROVE  w[i].pc = "wait" /\ Calls(w[i], w[i + 1].op, w[i + 1].arg)
    <3>1. st[i].pc = "wait" /\ Calls(st[i], st[i + 1].op, st[i + 1].arg)
      BY DEF StackOK, LinksOK
    <3>2. w[i] = st[i] /\ w[i + 1].op = st[i + 1].op /\ w[i + 1].arg = st[i + 1].arg
      BY <1>3, <1>7, <2>1
    <3> QED
      BY <3>1, <3>2
  <2> QED
    BY <1>3, <2>2, <1>9, <2>3 DEF LinksOK
<1> QED
  BY <1>6, <1>8, <1>9 DEF StackOK, w

\* A call starts with the caller waiting.
LEMMA CallOK ==
    ASSUME NEW t \in Threads, NEW e, NEW n, NEW S, NEW st, st # <<>>,
           StackOK(t, st, e, n, S), PcOK(st[Len(st)], "wait", NoRes, e, S),
           NEW op, NEW at, NEW arg,
           FrameOK(Frame(at, op, arg), e, n, S), op \notin BottomOps,
           Calls(st[Len(st)], op, arg)
    PROVE  StackOK(t, At(st, "wait", NoRes) \o << Frame(at, op, arg) >>, e, n, S)
<1> DEFINE u == At(st, "wait", NoRes)
           g == Frame(at, op, arg)
           w == u \o <<g>>
<1>1. st \in Seq(Frames) /\ "wait" \in Pcs
  BY DEF StackOK, FramesOK, Pcs
<1>2. SameBelow(u, st) /\ Like(u[Len(st)], st[Len(st)], "wait", NoRes)
  BY <1>1, AtFacts, Constants
<1>3. FramesOK(u, e, n, S) /\ BottomOK(t, u)
  BY <1>1, AtOK, Constants
<1>4. g \in Frames /\ g.op = op /\ g.arg = arg /\ g.pc = "start"
  BY DEF FrameOK, Frame
<1> HIDE DEF u, g
<1>5. u \in Seq(Frames) /\ Len(u) = Len(st) /\ Len(st) \in Nat \ {0}
  BY <1>2 DEF SameBelow
<1>6. /\ w \in Seq(Frames) /\ Len(w) = Len(st) + 1
      /\ \A i \in 1 .. Len(st) : w[i] = u[i]
      /\ w[Len(st) + 1] = g
  BY <1>4, <1>5, Pushed
<1> HIDE DEF w
<1>7. FramesOK(w, e, n, S)
  <2>1. FrameOK(g, e, n, S)
    BY DEF g
  <2>2. ASSUME NEW i \in 1 .. Len(st) + 1 PROVE FrameOK(w[i], e, n, S)
    <3>1. i \in 1 .. Len(st) \/ i = Len(st) + 1
      BY <1>5
    <3> QED
      BY <1>3, <1>5, <1>6, <2>1, <3>1 DEF FramesOK
  <2> QED
    BY <1>6, <2>2 DEF FramesOK
<1>8. LinksOK(w)
  <2>1. ASSUME NEW i \in 1 .. Len(st)
        PROVE  w[i].pc = "wait" /\ Calls(w[i], w[i + 1].op, w[i + 1].arg)
    <3>1. CASE i = Len(st)
      <4>1. w[i].pc = "wait" /\ w[i].op = st[i].op /\ w[i].arg = st[i].arg
        BY <1>2, <1>6, <3>1 DEF Like
      <4>2. w[i + 1].op = op /\ w[i + 1].arg = arg
        BY <1>4, <1>6, <3>1
      <4> QED
        BY <3>1, <4>1, <4>2 DEF Calls
    <3>2. CASE i # Len(st)
      <4>1. i \in 1 .. Len(st) - 1 /\ i + 1 \in 1 .. Len(st)
        BY <1>5, <3>2
      <4>2. w[i] = st[i]
        BY <1>2, <1>6, <4>1 DEF SameBelow
      <4>3. w[i + 1].op = st[i + 1].op /\ w[i + 1].arg = st[i + 1].arg
        <5>1. CASE i + 1 = Len(st)
          BY <1>2, <1>6, <4>1, <5>1 DEF Like
        <5>2. CASE i + 1 # Len(st)
          <6>1. i + 1 \in 1 .. Len(st) - 1
            BY <1>5, <4>1, <5>2
          <6> QED
            BY <1>2, <1>6, <4>1, <6>1 DEF SameBelow
        <5> QED
          BY <5>1, <5>2
      <4>4. st[i].pc = "wait" /\ Calls(st[i], st[i + 1].op, st[i + 1].arg)
        BY <4>1 DEF StackOK, LinksOK
      <4> QED
        BY <4>2, <4>3, <4>4
    <3> QED
      BY <3>1, <3>2
  <2>2. w[Len(w)].pc # "wait" /\ Len(w) - 1 = Len(st)
    BY <1>4, <1>5, <1>6
  <2> QED
    BY <2>1, <2>2 DEF LinksOK
<1>9. BottomOK(t, w)
  <2>1. 1 \in 1 .. Len(st) /\ u # <<>> /\ Len(st) + 1 # 1
    BY <1>2, <1>5 DEF SameBelow
  <2>2. ASSUME NEW i \in 1 .. Len(st) + 1
        PROVE  w[i].op \in BottomOps <=> (i = 1 /\ t[2] = "live")
    <3>1. i \in 1 .. Len(st) \/ i = Len(st) + 1
      BY <1>5
    <3> QED
      BY <1>3, <1>4, <1>5, <1>6, <2>1, <3>1 DEF BottomOK
  <2> QED
    BY <1>3, <1>5, <1>6, <2>1, <2>2 DEF BottomOK
<1> QED
  BY <1>7, <1>8, <1>9 DEF StackOK, w, u, g

\* A contiguous part of a stack, m frames from the one after the a-th on.
PartOf(w, st, a, m) ==
    w \in Seq(Frames) /\ Len(w) = m /\ \A i \in 1 .. m : w[i] = st[a + i]

\* A SubSeq is a part.
LEMMA Parts ==
    ASSUME NEW st \in Seq(Frames), NEW a \in 0 .. Len(st), NEW b \in a .. Len(st)
    PROVE  PartOf(SubSeq(st, a + 1, b), st, a, b - a)
<1>1. a \in Nat /\ b \in Nat /\ a <= b /\ Len(st) \in Nat /\ b <= Len(st)
  OBVIOUS
<1>2. \A i \in a + 1 .. b : st[i] \in Frames
  BY <1>1
<1>3. a + 1 \in Int /\ b \in Int /\ b - (a + 1) + 1 = b - a /\ (a + 1 <= b \/ b - a = 0)
  BY <1>1
<1> DEFINE w == SubSeq(st, a + 1, b)
<1>4. /\ w \in Seq(Frames)
      /\ Len(w) = IF a + 1 <= b THEN b - (a + 1) + 1 ELSE 0
      /\ \A i \in 1 .. b - (a + 1) + 1 : w[i] = st[a + 1 + i - 1]
  BY <1>2, <1>3, SubSeqProperties
<1>5. \A i \in 1 .. b - a : a + 1 + i - 1 = a + i
  BY <1>1
<1> HIDE DEF w
<1>6. Len(w) = b - a
  BY <1>3, <1>4
<1>7. \A i \in 1 .. b - a : w[i] = st[a + i]
  BY <1>3, <1>4, <1>5
<1> QED
  BY <1>4, <1>6, <1>7 DEF PartOf, w

\* The frames of st up to the k-th, which has the result r.
Cut(st, k, r) == At(SubSeq(st, 1, k), "ret", r)
CutAt(w, st, k, r) ==
    /\ w \in Seq(Frames) /\ Len(w) = k
    /\ \A i \in 1 .. k - 1 : w[i] = st[i]
    /\ Like(w[k], st[k], "ret", r)

\* What lies above a frame ends, or is cut off.
LEMMA CutFacts ==
    ASSUME NEW st \in Seq(Frames), NEW k \in 1 .. Len(st), NEW r \in Res
    PROVE  CutAt(Cut(st, k, r), st, k, r)
<1> DEFINE F == SubSeq(st, 1, k)
           w == At(F, "ret", r)
<1>1. k \in Nat \ {0} /\ 0 \in 0 .. Len(st) /\ k \in 0 .. Len(st) /\ k - 0 = k /\ 0 + 1 = 1
  OBVIOUS
<1>2. PartOf(F, st, 0, k)
  <2>1. PartOf(SubSeq(st, 0 + 1, k), st, 0, k - 0)
    BY <1>1, Parts
  <2> QED
    BY <1>1, <2>1
<1> HIDE DEF F
<1>3. F \in Seq(Frames) /\ Len(F) = k /\ \A i \in 1 .. k : F[i] = st[i]
  BY <1>2 DEF PartOf
<1>4. F # <<>>
  BY <1>1, <1>3
<1>5. SameBelow(w, F) /\ Like(w[k], F[k], "ret", r)
  BY <1>3, <1>4, AtFacts DEF Pcs
<1> HIDE DEF w
<1>6. k \in 1 .. k /\ \A i \in 1 .. k - 1 : i \in 1 .. k
  BY <1>1
<1>7. CutAt(w, st, k, r)
  BY <1>3, <1>5, <1>6 DEF CutAt, SameBelow
<1> QED
  BY <1>7 DEF Cut, w, F

\* A frame may have its result early: what was above it is gone.
LEMMA CutOK ==
    ASSUME NEW t \in Threads, NEW e, NEW n, NEW S, NEW st,
           StackOK(t, st, e, n, S), NEW k \in 1 .. Len(st) - 1,
           NEW r \in Res, MayGet(st[k], r, e, S)
    PROVE  StackOK(t, Cut(st, k, r), e, n, S)
<1> DEFINE w == Cut(st, k, r)
           f == st[k]
<1>1. st \in Seq(Frames) /\ Len(st) \in Nat
  BY DEF StackOK, FramesOK
<1>2. /\ k \in Nat \ {0} /\ k + 1 \in 1 .. Len(st) /\ 1 \in 1 .. k
      /\ \A i \in 1 .. k : i \in 1 .. Len(st) /\ i \in 1 .. Len(st) - 1 /\ (i # k => i \in 1 .. k - 1)
      /\ \A i \in 1 .. k - 1 : i \in 1 .. k /\ i + 1 \in 1 .. k
  BY <1>1
<1>3. CutAt(w, st, k, r)
  BY <1>1, <1>2, CutFacts
<1> HIDE DEF w
<1>4. w \in Seq(Frames) /\ Len(w) = k /\ w # <<>> /\ st # <<>>
  BY <1>1, <1>2, <1>3 DEF CutAt
<1>5. FrameOK(f, e, n, S) /\ f.pc = "wait" /\ Calls(f, st[k + 1].op, st[k + 1].arg)
  BY <1>2 DEF StackOK, FramesOK, LinksOK
<1>6. FrameOK(w[k], e, n, S)
  <2>1. f.op \notin {"Get", "ForwardPut", "MoveDB"}
    BY <1>5 DEF Calls
  <2>2. f.op = "Put" => f.arg[2] \in S
    BY <1>5 DEF FrameOK, PcOK
  <2>3. PcOK(f, "ret", r, e, S)
    BY <2>1, <2>2 DEF PcOK
  <2> QED
    BY <1>3, <1>5, <2>3, LikeOK DEF CutAt, Pcs
<1> DEFINE Same(i) == w[i].op = st[i].op /\ w[i].at = st[i].at /\ w[i].arg = st[i].arg
<1>7. ASSUME NEW i \in 1 .. k PROVE Same(i) /\ FrameOK(w[i], e, n, S)
  <2>1. CASE i = k
    BY <1>3, <1>6, <2>1 DEF CutAt, Like
  <2>2. CASE i # k
    BY <1>2, <1>3, <2>2 DEF CutAt, StackOK, FramesOK
  <2> QED
    BY <2>1, <2>2
<1>8. FramesOK(w, e, n, S)
  BY <1>4, <1>7 DEF FramesOK
<1>9. LinksOK(w)
  <2>1. ASSUME NEW i \in 1 .. k - 1
        PROVE  w[i].pc = "wait" /\ Calls(w[i], w[i + 1].op, w[i + 1].arg)
    <3>1. w[i] = st[i] /\ Same(i + 1)
      BY <1>2, <1>3, <1>7 DEF CutAt
    <3>2. st[i].pc = "wait" /\ Calls(st[i], st[i + 1].op, st[i + 1].arg)
      BY <1>2 DEF StackOK, LinksOK
    <3> QED
      BY <3>1, <3>2
  <2>2. w[k].pc = "ret"
    BY <1>3 DEF CutAt, Like
  <2> QED
    BY <1>4, <2>1, <2>2 DEF LinksOK
<1>10. BottomOK(t, w)
  BY <1>2, <1>4, <1>7 DEF StackOK, BottomOK
<1> QED
  BY <1>8, <1>9, <1>10 DEF StackOK, w

\* The top frame ends, and the one below has its result.
LEMMA PoppedFacts ==
    ASSUME NEW st \in Seq(Frames), st # <<>>, NEW r
    PROVE  /\ Len(st) \in Nat \ {0}
           /\ Len(st) = 1 => Popped(st, r) = <<>>
           /\ Len(st) # 1 => Popped(st, r) = Cut(st, Len(st) - 1, r) /\ Len(st) - 1 \in 1 .. Len(st) - 1
                              /\ Len(st) - 1 \in 1 .. Len(st)
<1>1. Len(st) \in Nat \ {0}
  BY EmptySeq
<1>2. \A m \in Nat \ {0} : m # 1 => m - 1 \in 1 .. m - 1 /\ m - 1 \in 1 .. m
  OBVIOUS
<1> QED
  BY <1>1, <1>2 DEF Popped, Cut, Front

\* The top frame may end with a result that its caller may have.
LEMMA PopOK ==
    ASSUME NEW t \in Threads, NEW e, NEW n, NEW S, NEW st, st # <<>>,
           StackOK(t, st, e, n, S), NEW r \in Res,
           Len(st) # 1 => MayGet(st[Len(st) - 1], r, e, S)
    PROVE  StackOK(t, Popped(st, r), e, n, S)
<1>1. st \in Seq(Frames)
  BY DEF StackOK, FramesOK
<1>2. CASE Len(st) = 1
  <2>1. Popped(st, r) = <<>>
    BY <1>1, <1>2, PoppedFacts
  <2>2. Popped(st, r) \in Seq(Frames) /\ Len(Popped(st, r)) = 0
    BY <2>1
  <2> QED
    BY <2>1, <2>2 DEF StackOK, FramesOK, LinksOK, BottomOK
<1>3. CASE Len(st) # 1
  <2> DEFINE m == Len(st) - 1
  <2>1. Popped(st, r) = Cut(st, m, r) /\ m \in 1 .. Len(st) - 1
    BY <1>1, <1>3, PoppedFacts
  <2>2. MayGet(st[m], r, e, S)
    BY <1>3
  <2> HIDE DEF m
  <2> QED
    BY <2>1, <2>2, CutOK
<1> QED
  BY <1>2, <1>3

-----------------------------------------------------------------------------
(* The inductive invariant of the system.                                  *)

StacksInv ==
    /\ stack \in [Threads -> Seq(Frames)]
    /\ \A t \in Threads : StackOK(t, stack[t], env, puts, stored)

\* Nothing runs on a server that is down.
PlacesInv == \A t \in Threads : \A i \in 1 .. Len(stack[t]) : stack[t][i].at \in up \cup Clerks

\* While pings go through no server refuses, and what returned is stored.
ConnectedInv ==
    "lostping" \notin env.faults => (\A s \in Servers : connected[s]) /\ AckedIsStored

\* Frame i of st is at s, between Lock and Unlock.
Keeps(st, s, i) == i \in 1 .. Len(st) /\ st[i].at = s /\ HoldsLock(st[i])

MutexOK(stk, lck) ==
    \A s \in Servers :
        /\ lck[s] <=> \E t \in Threads, i \in Nat : Keeps(stk[t], s, i)
        /\ \A t, u \in Threads, i, j \in Nat :
              Keeps(stk[t], s, i) /\ Keeps(stk[u], s, j) => t = u /\ i = j

Resting(s) == stack[Live(s)] = <<>>
TickFrame(s) == stack[Live(s)][1]

MutexInv == MutexOK(stack, locked)

\* The views servers have, or are about to install, are views.  A tick that
\* goes on has found itself the primary.
ViewsInv ==
    /\ VSInv
    /\ \A s \in Servers :
          /\ DistinctRoles(pbview[s])
          /\ ~ Resting(s) =>
                /\ DistinctRoles(TickFrame(s).arg) /\ TickFrame(s).arg.Viewnum # 0
                /\ TickFrame(s).pc # "start" =>
                      pbview[s] = TickFrame(s).arg /\ pbview[s].Primary = s

\* If servers at worst crash, one that is up and primary, in whatever view it
\* or the view server has, is and stays the primary: it is never late, and never
\* pings with 0 again.  So no two servers take themselves for the primary.
PrimaryInv ==
    \A s \in up :
        /\ s \in {newView.Primary, newView.Backup} =>
              /\ age[s] <= DeadPings
              /\ Resting(s) \/ TickFrame(s).pc # "start" => pbview[s].Viewnum # 0
        /\ view.Primary = s => newView.Primary = s
        /\ pbview[s].Primary = s => view.Primary = s
        /\ ~ Resting(s) => (pbview[s].Primary = s => TickFrame(s).arg.Primary = s)
        /\ ~ Resting(s) => (TickFrame(s).arg.Primary = s => view.Primary = s)

\* A Put that has passed its check is at a server with itself as primary in
\* its view v, and with the mutex held no server calls itself.
CallsOK(st, v) ==
    \A i \in 1 .. Len(st) :
        /\ st[i].op = "Put" /\ st[i].pc # "start" => v[st[i].at].Primary = st[i].at
        /\ st[i].op \in {"Put", "Tick"} /\ i # Len(st) => st[i + 1].at # st[i].at
CallsInv == \A t \in Threads : CallsOK(stack[t], pbview)

\* What holds of the stacks whatever the view server does.
Core ==
    /\ StacksInv
    /\ PlacesInv
    /\ locked \in [Servers -> BOOLEAN] /\ MutexInv
    /\ FailStop => CallsInv

DataOK ==
    /\ VSTypeOK
    /\ env \in Environments
    /\ up \subseteq Servers
    /\ pbview \in [Servers -> View]
    /\ connected \in [Servers -> BOOLEAN]
    /\ db \in [Servers -> [Keys -> 0 .. env.puts]]
    /\ crashes \in 0 .. env.crashes
    /\ puts \in 0 .. env.puts
    /\ begun \in [1 .. puts -> [key : Keys, after : SUBSET (1 .. puts)]]
    /\ stored \subseteq 1 .. puts
    /\ acked \subseteq 1 .. puts
    /\ floor \in [Keys -> 0 .. env.puts]

PBInv == DataOK /\ Core /\ ConnectedInv /\ ViewsInv /\ (FailStop => PrimaryInv)

-----------------------------------------------------------------------------
(* What a step of one thread does to its stack.                            *)

\* The top frame is elsewhere in its operation.
Moved(w, st, pc, r) ==
    /\ Len(w) = Len(st)
    /\ \A i \in 1 .. Len(st) - 1 : w[i] = st[i]
    /\ Like(w[Len(st)], st[Len(st)], pc, r)

\* The top frame waits for a handler g.
Called(w, st, g) ==
    /\ Len(w) = Len(st) + 1
    /\ \A i \in 1 .. Len(st) - 1 : w[i] = st[i]
    /\ Like(w[Len(st)], st[Len(st)], "wait", NoRes)
    /\ w[Len(st) + 1] = g

\* The top frame is gone.
Ended(w, st, r) ==
    IF Len(st) = 1 THEN w = <<>> ELSE CutAt(w, st, Len(st) - 1, r)

\* At, Call's stack and Popped do that.
LEMMA Steps ==
    ASSUME NEW st \in Seq(Frames), st # <<>>, NEW r \in Res
    PROVE  /\ Len(st) \in Nat \ {0} /\ st[Len(st)] \in Frames
           /\ \A pc \in Pcs : Moved(At(st, pc, r), st, pc, r)
           /\ \A g \in Frames : Called(At(st, "wait", NoRes) \o <<g>>, st, g)
           /\ Ended(Popped(st, r), st, r)
<1>1. Len(st) \in Nat \ {0} /\ st[Len(st)] \in Frames
  BY EmptySeq
<1>2. ASSUME NEW pc \in Pcs PROVE Moved(At(st, pc, r), st, pc, r)
  BY AtFacts DEF Moved, SameBelow
<1>3. ASSUME NEW g \in Frames PROVE Called(At(st, "wait", NoRes) \o <<g>>, st, g)
  <2> DEFINE u == At(st, "wait", NoRes)
  <2>1. SameBelow(u, st) /\ Like(u[Len(st)], st[Len(st)], "wait", NoRes)
    BY AtFacts, Constants DEF Pcs
  <2> HIDE DEF u
  <2>2. u \in Seq(Frames) /\ Len(u) = Len(st) /\ \A i \in 1 .. Len(st) - 1 : u[i] = st[i]
    BY <2>1 DEF SameBelow
  <2>3. /\ Len(u \o <<g>>) = Len(u) + 1
        /\ \A i \in 1 .. Len(u) : (u \o <<g>>)[i] = u[i]
        /\ (u \o <<g>>)[Len(u) + 1] = g
    BY <2>2, Pushed
  <2> DEFINE w == u \o <<g>>
  <2> HIDE DEF w
  <2>4. \A i \in 1 .. Len(st) - 1 : i \in 1 .. Len(u)
    BY <1>1, <2>2
  <2>5. Len(st) \in 1 .. Len(u)
    BY <1>1, <2>2
  <2>6. Called(w, st, g)
    BY <2>1, <2>2, <2>3, <2>4, <2>5 DEF Called, w
  <2> QED
    BY <2>6 DEF w, u
<1>4. Ended(Popped(st, r), st, r)
  BY PoppedFacts, CutFacts DEF Ended
<1> QED
  BY <1>1, <1>2, <1>3, <1>4

\* Which frames have the mutex afterwards.
LEMMA MovedKeeps ==
    ASSUME NEW st \in Seq(Frames), st # <<>>, NEW w, NEW pc, NEW r, Moved(w, st, pc, r)
    PROVE  \A s \in Servers, i \in Nat :
              Keeps(w, s, i) <=>
                 \/ Keeps(st, s, i) /\ i # Len(st)
                 \/ /\ i = Len(st) /\ st[i].at = s
                    /\ \/ st[i].op = "Put" /\ pc \in {"forward", "wait", "ret"}
                       \/ st[i].op = "Tick" /\ pc \in {"wait", "ret"}
<1>1. Len(st) \in Nat \ {0}
  BY EmptySeq
<1> SUFFICES ASSUME NEW s \in Servers, NEW i \in Nat
             PROVE  Keeps(w, s, i) <=>
                       \/ Keeps(st, s, i) /\ i # Len(st)
                       \/ /\ i = Len(st) /\ st[i].at = s
                          /\ \/ st[i].op = "Put" /\ pc \in {"forward", "wait", "ret"}
                             \/ st[i].op = "Tick" /\ pc \in {"wait", "ret"}
  OBVIOUS
<1>2. CASE i = Len(st)
  <2>1. i \in 1 .. Len(w)
    BY <1>1, <1>2 DEF Moved
  <2> QED
    BY <1>2, <2>1 DEF Moved, Like, Keeps, HoldsLock
<1>3. CASE i # Len(st) /\ i \in 1 .. Len(st)
  <2>1. i \in 1 .. Len(st) - 1
    BY <1>1, <1>3
  <2>2. w[i] = st[i] /\ Len(w) = Len(st)
    BY <2>1 DEF Moved
  <2> QED
    BY <1>3, <2>2 DEF Keeps
<1>4. CASE i \notin 1 .. Len(st)
  <2>1. i # Len(st) /\ i \notin 1 .. Len(w)
    BY <1>1, <1>4 DEF Moved
  <2> QED
    BY <1>4, <2>1 DEF Keeps
<1> QED
  BY <1>2, <1>3, <1>4

\* A call from within the critical section keeps the mutex, and the handler
\* has none yet.
LEMMA CalledKeeps ==
    ASSUME NEW st \in Seq(Frames), st # <<>>, NEW w, NEW g, Called(w, st, g), g.pc = "start"
    PROVE  \A s \in Servers, i \in Nat :
              Keeps(w, s, i) <=>
                 \/ Keeps(st, s, i) /\ i # Len(st)
                 \/ i = Len(st) /\ st[i].at = s /\ st[i].op \in {"Put", "Tick"}
<1>1. Len(st) \in Nat \ {0}
  BY EmptySeq
<1> SUFFICES ASSUME NEW s \in Servers, NEW i \in Nat
             PROVE  Keeps(w, s, i) <=>
                       \/ Keeps(st, s, i) /\ i # Len(st)
                       \/ i = Len(st) /\ st[i].at = s /\ st[i].op \in {"Put", "Tick"}
  OBVIOUS
<1>2. CASE i = Len(st)
  <2>1. i \in 1 .. Len(w)
    BY <1>1, <1>2 DEF Called
  <2> QED
    BY <1>2, <2>1 DEF Called, Like, Keeps, HoldsLock
<1>3. CASE i # Len(st) /\ i \in 1 .. Len(st)
  <2>1. i \in 1 .. Len(st) - 1 /\ i \in 1 .. Len(st) + 1
    BY <1>1, <1>3
  <2>2. w[i] = st[i] /\ Len(w) = Len(st) + 1
    BY <2>1 DEF Called
  <2> QED
    BY <1>3, <2>1, <2>2 DEF Keeps
<1>4. CASE i \notin 1 .. Len(st)
  <2>1. i # Len(st)
    BY <1>1, <1>4
  <2>2. ~ Keeps(w, s, i)
    <3>1. CASE i = Len(st) + 1
      BY <3>1 DEF Called, Keeps, HoldsLock
    <3>2. CASE i # Len(st) + 1
      <4>1. i \notin 1 .. Len(w)
        BY <1>1, <1>4, <3>2 DEF Called
      <4> QED
        BY <4>1 DEF Keeps
    <3> QED
      BY <3>1, <3>2
  <2> QED
    BY <1>4, <2>1, <2>2 DEF Keeps
<1> QED
  BY <1>2, <1>3, <1>4

\* What is cut off above the k-th frame keeps nothing.
LEMMA CutKeeps ==
    ASSUME NEW st \in Seq(Frames), LinksOK(st), NEW k \in 1 .. Len(st) - 1,
           NEW w, NEW r, CutAt(w, st, k, r)
    PROVE  \A s \in Servers, i \in Nat : Keeps(w, s, i) <=> Keeps(st, s, i) /\ i <= k
<1> SUFFICES ASSUME NEW s \in Servers, NEW i \in Nat
             PROVE  Keeps(w, s, i) <=> Keeps(st, s, i) /\ i <= k
  OBVIOUS
<1>1. Len(st) \in Nat /\ k \in Nat \ {0} /\ k < Len(st) /\ Len(w) = k
  BY DEF CutAt
<1>2. CASE i = k
  <2>1. st[i].pc = "wait" /\ Like(w[i], st[i], "ret", r)
    BY <1>2 DEF LinksOK, CutAt
  <2>2. i \in 1 .. Len(st) /\ i \in 1 .. k /\ i <= k
    BY <1>1, <1>2
  <2> QED
    BY <1>1, <2>1, <2>2 DEF Like, Keeps, HoldsLock
<1>3. CASE i \in 1 .. k - 1
  <2>1. i \in 1 .. Len(st) /\ i \in 1 .. k /\ i <= k
    BY <1>1, <1>3
  <2> QED
    BY <1>1, <1>3, <2>1 DEF Keeps, CutAt
<1>4. CASE i \notin 1 .. k
  <2>1. i <= k => i \notin 1 .. Len(st)
    BY <1>1, <1>4
  <2> QED
    BY <1>1, <1>4, <2>1 DEF Keeps
<1> QED
  BY <1>1, <1>2, <1>3, <1>4

\* A frame that ends keeps nothing; its caller keeps what it had.
LEMMA EndedKeeps ==
    ASSUME NEW st \in Seq(Frames), st # <<>>, LinksOK(st), NEW w, NEW r, Ended(w, st, r)
    PROVE  \A s \in Servers, i \in Nat :
              Keeps(w, s, i) <=> Keeps(st, s, i) /\ i # Len(st)
<1> DEFINE m == Len(st)
<1>1. m \in Nat \ {0}
  BY EmptySeq
<1> SUFFICES ASSUME NEW s \in Servers, NEW i \in Nat
             PROVE  Keeps(w, s, i) <=> Keeps(st, s, i) /\ i # m
  OBVIOUS
<1>2. Keeps(st, s, i) => i \in 1 .. m
  BY DEF Keeps
<1>3. CASE m = 1
  <2>1. w = <<>> /\ Len(w) = 0
    BY <1>3 DEF Ended
  <2>2. i \in 1 .. m => i = m
    BY <1>1, <1>3
  <2> QED
    BY <1>2, <2>1, <2>2 DEF Keeps
<1>4. CASE m # 1
  <2>1. m - 1 \in 1 .. m - 1 /\ CutAt(w, st, m - 1, r)
    <3>1. CutAt(w, st, m - 1, r)
      BY <1>4 DEF Ended
    <3> HIDE DEF m
    <3> QED
      BY <1>1, <1>4, <3>1
  <2>2. Keeps(w, s, i) <=> Keeps(st, s, i) /\ i <= m - 1
    BY <2>1, CutKeeps
  <2> HIDE DEF m
  <2>3. i \in 1 .. m => (i <= m - 1 <=> i # m)
    BY <1>1
  <2> QED
    BY <1>2, <2>2, <2>3
<1> QED
  BY <1>3, <1>4

\* Calls stay right when the top frame moves, calls or ends.
LEMMA MovedCalls ==
    ASSUME NEW st \in Seq(Frames), st # <<>>, NEW w, NEW pc, NEW r, NEW v,
           Moved(w, st, pc, r), CallsOK(st, v),
           st[Len(st)].op = "Put" /\ pc # "start"
              => v[st[Len(st)].at].Primary = st[Len(st)].at
    PROVE  CallsOK(w, v)
<1> DEFINE m == Len(st)
<1>1. m \in Nat \ {0} /\ Len(w) = m
  BY EmptySeq DEF Moved
<1>2. ASSUME NEW i \in 1 .. m
      PROVE  /\ w[i].at = st[i].at /\ w[i].op = st[i].op
             /\ IF i = m THEN w[i].pc = pc ELSE w[i].pc = st[i].pc
  <2>1. i = m \/ i \in 1 .. m - 1
    <3> HIDE DEF m
    <3> QED
      BY <1>1
  <2> QED
    BY <1>1, <2>1 DEF Moved, Like
<1>3. \A i \in 1 .. m : i # m => i + 1 \in 1 .. m
  <2> HIDE DEF m
  <2> QED
    BY <1>1
<1> QED
  BY <1>1, <1>2, <1>3 DEF CallsOK

\* A call by the primary's Put, or by a tick, goes to another server.
LEMMA CalledCalls ==
    ASSUME NEW st \in Seq(Frames), st # <<>>, NEW w, NEW g, NEW v,
           Called(w, st, g), g.pc = "start", CallsOK(st, v),
           st[Len(st)].op = "Put" => v[st[Len(st)].at].Primary = st[Len(st)].at,
           st[Len(st)].op \in {"Put", "Tick"} => g.at # st[Len(st)].at
    PROVE  CallsOK(w, v)
<1> DEFINE m == Len(st)
<1>1. m \in Nat \ {0} /\ Len(w) = m + 1
  BY EmptySeq DEF Called
<1>2. ASSUME NEW i \in 1 .. m
      PROVE  /\ w[i].at = st[i].at /\ w[i].op = st[i].op
             /\ i # m => w[i].pc = st[i].pc
  <2>1. i = m \/ i \in 1 .. m - 1
    <3> HIDE DEF m
    <3> QED
      BY <1>1
  <2> QED
    BY <1>1, <2>1 DEF Called, Like
<1>3. w[m + 1] = g
  BY DEF Called
<1>4. \A i \in 1 .. m + 1 : /\ i = m + 1 \/ i \in 1 .. m
                            /\ i \in 1 .. m /\ i # m => i + 1 \in 1 .. m /\ i # m + 1
  <2> HIDE DEF m
  <2> QED
    BY <1>1
<1> HIDE DEF m
<1>5. ASSUME NEW i \in 1 .. m + 1
      PROVE  /\ w[i].op = "Put" /\ w[i].pc # "start" => v[w[i].at].Primary = w[i].at
             /\ w[i].op \in {"Put", "Tick"} /\ i # m + 1 => w[i + 1].at # w[i].at
  <2>1. CASE i = m + 1
    BY <1>3, <2>1
  <2>2. CASE i = m
    <3>1. i \in 1 .. m
      BY <1>1, <2>2
    <3> QED
      BY <1>2, <1>3, <2>2, <3>1 DEF m
  <2>3. CASE i \in 1 .. m /\ i # m
    BY <1>2, <1>4, <2>3 DEF CallsOK, m
  <2>4. i = m + 1 \/ i = m \/ (i \in 1 .. m /\ i # m)
    BY <1>4
  <2> QED
    BY <2>1, <2>2, <2>3, <2>4
<1> QED
  BY <1>1, <1>5 DEF CallsOK

\* Cutting the stack keeps them.
LEMMA CutCalls ==
    ASSUME NEW st \in Seq(Frames), LinksOK(st), NEW k \in 1 .. Len(st) - 1,
           NEW w, NEW r, NEW v, CutAt(w, st, k, r), CallsOK(st, v)
    PROVE  CallsOK(w, v)
<1>1. Len(st) \in Nat /\ k \in Nat \ {0} /\ Len(w) = k /\ k \in 1 .. Len(st)
  BY DEF CutAt
<1>2. st[k].pc = "wait"
  BY DEF LinksOK
<1>3. \A i \in 1 .. k : /\ i = k \/ i \in 1 .. k - 1
                        /\ i \in 1 .. Len(st) /\ (i # k => i + 1 \in 1 .. k /\ i # Len(st))
  BY <1>1
<1>4. ASSUME NEW i \in 1 .. k
      PROVE  /\ w[i].at = st[i].at /\ w[i].op = st[i].op
             /\ w[i].pc # "start" => st[i].pc # "start"
  BY <1>2, <1>3 DEF CutAt, Like
<1> QED
  BY <1>1, <1>3, <1>4 DEF CallsOK

\* ... and so does the end of the top frame.
LEMMA EndedCalls ==
    ASSUME NEW st \in Seq(Frames), st # <<>>, LinksOK(st), NEW w, NEW r, NEW v,
           Ended(w, st, r), CallsOK(st, v)
    PROVE  CallsOK(w, v)
<1>1. CASE Len(st) = 1
  <2>1. w = <<>> /\ Len(w) = 0
    BY <1>1 DEF Ended
  <2> QED
    BY <2>1 DEF CallsOK
<1>2. CASE Len(st) # 1
  <2>1. Len(st) - 1 \in 1 .. Len(st) - 1 /\ CutAt(w, st, Len(st) - 1, r)
    BY <1>2, PoppedFacts DEF Ended
  <2> QED
    BY <2>1, CutCalls
<1> QED
  BY <1>1, <1>2

\* The frame at the bottom, if there is one, is what it was, or its call came
\* to an end.
BottomKept(w, st) ==
    IF st = <<>> THEN w = <<>>
    ELSE w # <<>> /\ w[1].arg = st[1].arg /\ (w[1].pc = "start" <=> st[1].pc = "start")

\* A step above the bottom leaves it alone.
LEMMA StepsKeepBottom ==
    ASSUME NEW st \in Seq(Frames), st # <<>>, Len(st) # 1, LinksOK(st), NEW w, NEW pc, NEW r, NEW g,
           Moved(w, st, pc, r) \/ Called(w, st, g) \/ Ended(w, st, r)
    PROVE  BottomKept(w, st)
<1> DEFINE m == Len(st)
<1>1. m \in Nat \ {0} /\ m # 1
  BY EmptySeq
<1>2. 1 \in 1 .. m - 1 /\ (m - 1 = 1 \/ 1 \in 1 .. m - 1 - 1) /\ m + 1 # 0 /\ m - 1 # 0
  <2> HIDE DEF m
  <2> QED
    BY <1>1
<1>3. st[1].pc = "wait"
  BY <1>2 DEF LinksOK
<1>4. CASE Moved(w, st, pc, r) \/ Called(w, st, g)
  <2>1. w[1] = st[1] /\ Len(w) # 0
    BY <1>1, <1>2, <1>4 DEF Moved, Called
  <2> QED
    BY <2>1 DEF BottomKept
<1>5. CASE Ended(w, st, r)
  <2>1. CutAt(w, st, m - 1, r)
    BY <1>5 DEF Ended
  <2>2. Len(w) # 0 /\ (w[1] = st[1] \/ Like(w[1], st[1], "ret", r))
    BY <1>2, <2>1 DEF CutAt
  <2> QED
    BY <1>3, <2>2 DEF BottomKept, Like
<1> QED
  BY <1>4, <1>5

-----------------------------------------------------------------------------
(* What a step of one thread does to all stacks.                           *)

\* Puts and stored values only become more.
Grows == env' = env /\ puts \in Nat /\ puts' \in Nat /\ puts <= puts' /\ stored \subseteq stored'

\* A frame stays in order when more Puts have begun and more is stored.
LEMMA GrownFrame ==
    ASSUME NEW e, NEW n \in Nat, NEW m \in Nat, n <= m, NEW S, NEW U, S \subseteq U,
           NEW f, FrameOK(f, e, n, S)
    PROVE  FrameOK(f, e, m, U)
<1>1. ArgOK(f.op, f.arg, e, m)
  <2>1. 1 .. n \subseteq 1 .. m
    OBVIOUS
  <2>2. Keys \X (1 .. n) \subseteq Keys \X (1 .. m)
    BY <2>1
  <2> QED
    BY <2>2 DEF FrameOK, ArgOK
<1>2. PcOK(f, f.pc, f.res, e, U)
  BY DEF FrameOK, PcOK, MayGet
<1> QED
  BY <1>1, <1>2 DEF FrameOK

\* ... and so does its stack.
LEMMA Grown ==
    ASSUME NEW t, NEW st, StackOK(t, st, env, puts, stored), Grows
    PROVE  StackOK(t, st, env', puts', stored')
<1>1. \A i \in 1 .. Len(st) : FrameOK(st[i], env, puts, stored)
  BY DEF StackOK, FramesOK
<1>2. \A i \in 1 .. Len(st) : FrameOK(st[i], env, puts', stored')
  BY <1>1, GrownFrame DEF Grows
<1> QED
  BY <1>2 DEF StackOK, FramesOK, Grows

\* What is left to show of Core after a step.
Stepped ==
    /\ StacksInv'
    /\ PlacesInv'
    /\ MutexOK(stack', locked')
    /\ FailStop => \A t \in Threads : CallsOK(stack'[t], pbview)

TicksKept == \A s \in Servers : BottomKept(stack'[Live(s)], stack[Live(s)])

\* The frame that runs.
LEMMA TopFrame ==
    ASSUME StacksInv, NEW t \in Threads, stack[t] # <<>>
    PROVE  /\ stack[t] \in Seq(Frames) /\ Len(stack[t]) \in Nat \ {0}
           /\ StackOK(t, stack[t], env, puts, stored)
           /\ Top(t) = stack[t][Len(stack[t])]
           /\ FrameOK(Top(t), env, puts, stored) /\ Top(t).pc # "wait"
<1>1. StackOK(t, stack[t], env, puts, stored) /\ stack[t] \in Seq(Frames)
  BY DEF StacksInv, StackOK, FramesOK
<1>2. Len(stack[t]) \in Nat \ {0}
  BY <1>1, EmptySeq
<1>3. Top(t) = stack[t][Len(stack[t])]
  BY DEF Top, Last
<1>4. FrameOK(stack[t][Len(stack[t])], env, puts, stored) /\ stack[t][Len(stack[t])].pc # "wait"
  <2>1. Len(stack[t]) \in 1 .. Len(stack[t])
    BY <1>2
  <2> QED
    BY <1>1, <2>1 DEF StackOK, FramesOK, LinksOK
<1> QED
  BY <1>1, <1>2, <1>3, <1>4

\* A thread has another stack, and perhaps so has one that rested.
Starts(u, g) == stack[u] = <<>> /\ stack'[u] = <<g>> /\ g.pc = "start" /\ u[2] = "left"
OthersOr(t, g) == \A u \in Threads : u # t => stack'[u] = stack[u] \/ Starts(u, g)
Others(t) == \A u \in Threads : u # t => stack'[u] = stack[u]

\* Afterwards the top frame of t has the mutex, or has not; others have what
\* they had.
TopStep(t, holds) ==
    \A u \in Threads, s \in Servers, i \in Nat :
        Keeps(stack'[u], s, i) <=>
            IF u = t /\ i = Len(stack[t]) THEN s = Top(t).at /\ holds ELSE Keeps(stack[u], s, i)

\* The mutex of its server is locked, unlocked or left alone accordingly.
LockStep(t, holds) ==
    \/ locked' = locked /\ (holds <=> HoldsLock(Top(t)))
    \/ /\ holds /\ Top(t).at \in Servers /\ ~ locked[Top(t).at]
       /\ locked' = [locked EXCEPT ![Top(t).at] = TRUE]
    \/ /\ ~ holds /\ Top(t).at \in Servers /\ HoldsLock(Top(t))
       /\ locked' = [locked EXCEPT ![Top(t).at] = FALSE]

\* A step that locks or unlocks along with the critical section of the top
\* frame keeps mutexes sound.
LEMMA MutexStep ==
    ASSUME Core, NEW t \in Threads, stack[t] # <<>>, NEW holds,
           TopStep(t, holds), LockStep(t, holds)
    PROVE  MutexOK(stack', locked')
<1> DEFINE k == Len(stack[t])
           q == Top(t).at
           Had(u, s, i) == Keeps(stack[u], s, i)
           Has(u, s, i) == Keeps(stack'[u], s, i)
           This(u, s, i) == u = t /\ s = q /\ i = k
<1>1. StacksInv
  BY DEF Core
<1>2. k \in Nat
  BY <1>1, TopFrame
<1>3. \A s \in Servers : Had(t, s, k) <=> s = q /\ HoldsLock(Top(t))
  <2>1. k \in 1 .. k /\ Top(t) = stack[t][k]
    BY <1>1, TopFrame
  <2> QED
    BY <2>1 DEF Keeps
<1>4. \A u \in Threads, s \in Servers, i \in Nat :
         Has(u, s, i) <=> IF u = t /\ i = k THEN s = q /\ holds ELSE Had(u, s, i)
  BY DEF TopStep
<1>5. \A s \in Servers :
         /\ locked[s] <=> \E u \in Threads, i \in Nat : Had(u, s, i)
         /\ \A u, v \in Threads, i, j \in Nat : Had(u, s, i) /\ Had(v, s, j) => u = v /\ i = j
  BY DEF Core, MutexInv, MutexOK
<1>6. locked \in [Servers -> BOOLEAN]
  BY DEF Core
<1> HIDE DEF Had, Has, k, q
<1> SUFFICES ASSUME NEW s \in Servers
             PROVE  /\ locked'[s] <=> \E u \in Threads, i \in Nat : Has(u, s, i)
                    /\ \A u, v \in Threads, i, j \in Nat :
                          Has(u, s, i) /\ Has(v, s, j) => u = v /\ i = j
  BY DEF MutexOK, Has
<1>7. CASE locked' = locked /\ (holds <=> HoldsLock(Top(t)))
  <2>1. \A u \in Threads, i \in Nat : Has(u, s, i) <=> Had(u, s, i)
    BY <1>3, <1>4, <1>7
  <2> QED
    BY <1>5, <1>7, <2>1
<1>8. CASE /\ holds /\ q \in Servers /\ ~ locked[q]
           /\ locked' = [locked EXCEPT ![q] = TRUE]
  <2>1. \A u \in Threads, i \in Nat : Has(u, s, i) <=> Had(u, s, i) \/ This(u, s, i)
    <3>1. ~ HoldsLock(Top(t))
      BY <1>2, <1>3, <1>5, <1>8
    <3> QED
      BY <1>3, <1>4, <1>8, <3>1
  <2>2. CASE s = q
    <3>1. locked'[s] /\ \A u \in Threads, i \in Nat : ~ Had(u, s, i)
      BY <1>5, <1>6, <1>8, <2>2
    <3> QED
      BY <1>2, <2>1, <2>2, <3>1
  <2>3. CASE s # q
    <3>1. locked'[s] = locked[s]
      BY <1>6, <1>8, <2>3
    <3> QED
      BY <1>5, <2>1, <2>3, <3>1
  <2> QED
    BY <2>2, <2>3
<1>9. CASE /\ ~ holds /\ q \in Servers /\ HoldsLock(Top(t))
           /\ locked' = [locked EXCEPT ![q] = FALSE]
  <2>1. \A u \in Threads, i \in Nat : Has(u, s, i) <=> Had(u, s, i) /\ ~ This(u, s, i)
    BY <1>3, <1>4, <1>9
  <2>2. CASE s = q
    <3>1. ~ locked'[s] /\ Had(t, s, k)
      BY <1>3, <1>6, <1>9, <2>2
    <3>2. \A u \in Threads, i \in Nat : ~ Has(u, s, i)
      BY <1>2, <1>5, <2>1, <2>2, <3>1
    <3> QED
      BY <3>1, <3>2
  <2>3. CASE s # q
    <3>1. locked'[s] = locked[s]
      BY <1>6, <1>9, <2>3
    <3> QED
      BY <1>5, <2>1, <2>3, <3>1
  <2> QED
    BY <2>2, <2>3
<1> QED
  BY <1>7, <1>8, <1>9 DEF LockStep, q

\* The steps of a thread, and what each has to hold for.
MovesTo(t, pc, r, holds) ==
    /\ Moved(stack'[t], stack[t], pc, r)
    /\ holds <=> \/ Top(t).op = "Put" /\ pc \in {"forward", "wait", "ret"}
                 \/ Top(t).op = "Tick" /\ pc \in {"wait", "ret"}
    /\ FailStop /\ Top(t).op = "Put" /\ pc # "start" => pbview[Top(t).at].Primary = Top(t).at

CallsOut(t, g, holds) ==
    /\ Called(stack'[t], stack[t], g) /\ g.pc = "start"
    /\ holds <=> Top(t).op \in {"Put", "Tick"}
    /\ FailStop /\ Top(t).op = "Put" => pbview[Top(t).at].Primary = Top(t).at
    /\ FailStop /\ Top(t).op \in {"Put", "Tick"} => g.at # Top(t).at

\* Whatever the top frame of t does, the other frames keep what they had.
LEMMA ThreadEffect ==
    ASSUME Core, NEW t \in Threads, stack[t] # <<>>, NEW pc, NEW r, NEW g, NEW holds,
           OthersOr(t, g), LockStep(t, holds),
           \/ MovesTo(t, pc, r, holds)
           \/ CallsOut(t, g, holds)
           \/ Ended(stack'[t], stack[t], r) /\ ~ holds
    PROVE  /\ MutexOK(stack', locked')
           /\ FailStop => \A u \in Threads : CallsOK(stack'[u], pbview)
           /\ Top(t).op # "Tick" => TicksKept
<1> DEFINE st == stack[t]
           w == stack'[t]
<1>1. StacksInv /\ (FailStop => CallsInv)
  BY DEF Core
<1>2. st \in Seq(Frames) /\ LinksOK(st) /\ Top(t) = st[Len(st)]
  BY <1>1, TopFrame DEF StackOK
<1>3. ASSUME NEW u \in Threads, u # t
      PROVE  /\ \A s \in Servers, i \in Nat : Keeps(stack'[u], s, i) <=> Keeps(stack[u], s, i)
             /\ CallsOK(stack[u], pbview) => CallsOK(stack'[u], pbview)
  <2>1. CASE stack'[u] = stack[u]
    BY <2>1
  <2>2. CASE Starts(u, g)
    <3>1. Len(<<>>) = 0 /\ Len(<<g>>) = 1 /\ <<g>>[1] = g /\ ~ HoldsLock(g)
      BY <2>2 DEF Starts, HoldsLock
    <3> QED
      BY <2>2, <3>1 DEF Starts, Keeps, CallsOK
  <2> QED
    BY <1>3, <2>1, <2>2 DEF OthersOr
<1>4. TopStep(t, holds)
  <2> SUFFICES ASSUME NEW s \in Servers, NEW i \in Nat
               PROVE  Keeps(w, s, i) <=>
                         IF i = Len(st) THEN s = Top(t).at /\ holds ELSE Keeps(st, s, i)
    BY <1>3 DEF TopStep
  <2>1. CASE MovesTo(t, pc, r, holds)
    <3>1. Moved(w, st, pc, r)
      BY <2>1 DEF MovesTo
    <3> QED
      BY <1>2, <2>1, <3>1, MovedKeeps DEF MovesTo
  <2>2. CASE CallsOut(t, g, holds)
    <3>1. Called(w, st, g) /\ g.pc = "start"
      BY <2>2 DEF CallsOut
    <3> QED
      BY <1>2, <2>2, <3>1, CalledKeeps DEF CallsOut
  <2>3. CASE Ended(w, st, r) /\ ~ holds
    BY <1>2, <2>3, EndedKeeps
  <2> QED
    BY <2>1, <2>2, <2>3
<1>5. FailStop => \A u \in Threads : CallsOK(stack'[u], pbview)
  <2> SUFFICES ASSUME FailStop PROVE CallsOK(w, pbview)
    BY <1>1, <1>3 DEF CallsInv
  <2>1. CallsOK(st, pbview)
    BY <1>1 DEF CallsInv
  <2>2. CASE MovesTo(t, pc, r, holds)
    BY <1>2, <2>1, <2>2, MovedCalls DEF MovesTo
  <2>3. CASE CallsOut(t, g, holds)
    BY <1>2, <2>1, <2>3, CalledCalls DEF CallsOut
  <2>4. CASE Ended(w, st, r)
    BY <1>2, <2>1, <2>4, EndedCalls
  <2> QED
    BY <2>2, <2>3, <2>4
<1>6. ASSUME Top(t).op # "Tick", NEW s \in Servers
      PROVE  BottomKept(stack'[Live(s)], stack[Live(s)])
  <2>1. Live(s) \in Threads /\ Live(s)[2] = "live"
    BY DEF Live, Threads, Owners
  <2>2. CASE Live(s) # t
    <3>1. stack'[Live(s)] = stack[Live(s)]
      BY <2>1, <2>2 DEF OthersOr, Starts
    <3> QED
      BY <3>1 DEF BottomKept
  <2>3. CASE Live(s) = t
    <3>1. Len(st) # 1
      <4>1. StackOK(t, st, env, puts, stored) /\ FrameOK(Top(t), env, puts, stored)
        BY <1>1, TopFrame
      <4>2. ASSUME Len(st) = 1 PROVE FALSE
        <5>1. st[1] = Top(t) /\ 1 \in 1 .. Len(st)
          BY <1>2, <4>2
        <5>2. Top(t).op \in BottomOps /\ Top(t).at = s
          BY <2>1, <2>3, <4>1, <5>1 DEF StackOK, BottomOK, Live
        <5> QED
          BY <1>6, <4>1, <5>2, Constants DEF FrameOK, PlaceOK, BottomOps
      <4> QED
        BY <4>2
    <3>2. Moved(w, st, pc, r) \/ Called(w, st, g) \/ Ended(w, st, r)
      BY DEF MovesTo, CallsOut
    <3> QED
      BY <1>2, <2>3, <3>1, <3>2, StepsKeepBottom
  <2> QED
    BY <2>2, <2>3
<1> QED
  BY <1>4, <1>5, <1>6, MutexStep DEF TicksKept

\* One stack changes.
LEMMA OneStack ==
    ASSUME StacksInv, Grows, NEW t \in Threads, NEW w, stack' = [stack EXCEPT ![t] = w],
           StackOK(t, w, env', puts', stored')
    PROVE  StacksInv' /\ stack'[t] = w /\ Others(t)
<1>1. w \in Seq(Frames)
  BY DEF StackOK, FramesOK
<1>2. stack \in [Threads -> Seq(Frames)]
  BY DEF StacksInv
<1>3. stack' \in [Threads -> Seq(Frames)]
  BY <1>1, <1>2
<1>4. stack'[t] = w /\ \A u \in Threads : u # t => stack'[u] = stack[u]
  BY <1>2
<1>5. ASSUME NEW u \in Threads PROVE StackOK(u, stack'[u], env', puts', stored')
  <2>1. StackOK(u, stack[u], env, puts, stored)
    BY DEF StacksInv
  <2>2. StackOK(u, stack[u], env', puts', stored')
    BY <2>1, Grown
  <2> QED
    BY <1>4, <2>2
<1> QED
  BY <1>3, <1>4, <1>5 DEF StacksInv, Others

\* Stacks whose frames are where they were.
LEMMA PlacesStep ==
    ASSUME StacksInv, PlacesInv, up' = up, NEW t \in Threads, stack[t] # <<>>, NEW pc, NEW r, NEW g,
           OthersOr(t, g), g.at \in up \/ Others(t),
           \/ Moved(stack'[t], stack[t], pc, r)
           \/ Called(stack'[t], stack[t], g) /\ g.at \in up
           \/ Ended(stack'[t], stack[t], r)
    PROVE  PlacesInv'
<1> DEFINE st == stack[t]
           w == stack'[t]
           m == Len(st)
           Up(f) == f.at \in up \cup Clerks
<1>1. m \in Nat \ {0}
  BY TopFrame
<1>2. \A i \in 1 .. m : Up(st[i])
  BY DEF PlacesInv
<1>3. ASSUME NEW i \in 1 .. Len(w) PROVE Up(w[i])
  <2>1. CASE Moved(w, st, pc, r)
    <3>1. i \in 1 .. m /\ (i = m \/ i \in 1 .. m - 1)
      <4>1. Len(w) = m
        BY <2>1 DEF Moved
      <4> HIDE DEF m
      <4> QED
        BY <1>1, <4>1
    <3>2. w[i].at = st[i].at
      BY <2>1, <3>1 DEF Moved, Like
    <3> QED
      BY <1>2, <3>1, <3>2
  <2>2. CASE Called(w, st, g) /\ g.at \in up
    <3>1. i = m + 1 \/ (i \in 1 .. m /\ (i = m \/ i \in 1 .. m - 1))
      <4>1. Len(w) = m + 1
        BY <2>2 DEF Called
      <4> HIDE DEF m
      <4> QED
        BY <1>1, <4>1
    <3>2. i \in 1 .. m => w[i].at = st[i].at
      BY <2>2, <3>1 DEF Called, Like
    <3>3. i = m + 1 => w[i] = g
      BY <2>2 DEF Called
    <3> QED
      BY <1>2, <2>2, <3>1, <3>2, <3>3
  <2>3. CASE Ended(w, st, r)
    <3>1. m # 1 /\ CutAt(w, st, m - 1, r)
      <4>1. Len(<<>>) = 0
        OBVIOUS
      <4> QED
        BY <2>3, <4>1 DEF Ended
    <3>2. Len(w) = m - 1
      BY <3>1 DEF CutAt
    <3>3. i \in 1 .. m /\ (i \in 1 .. m - 1 - 1 \/ i = m - 1)
      <4> HIDE DEF m
      <4> QED
        BY <1>1, <3>2
    <3>4. w[i].at = st[i].at
      BY <3>1, <3>3 DEF CutAt, Like
    <3> QED
      BY <1>2, <3>3, <3>4
  <2> QED
    BY <2>1, <2>2, <2>3
<1>4. ASSUME NEW u \in Threads, u # t, NEW i \in 1 .. Len(stack'[u]) PROVE Up(stack'[u][i])
  <2>1. CASE stack'[u] = stack[u]
    BY <2>1 DEF PlacesInv
  <2>2. CASE Starts(u, g) /\ g.at \in up
    <3>1. Len(<<g>>) = 1 /\ <<g>>[1] = g
      OBVIOUS
    <3> QED
      BY <1>4, <2>2, <3>1 DEF Starts
  <2> QED
    BY <1>4, <2>1, <2>2 DEF OthersOr, Others
<1> QED
  BY <1>3, <1>4 DEF PlacesInv

\* A frame of operation op holds its mutex at pc.
HoldsAt(op, pc) ==
    \/ op = "Put" /\ pc \in {"forward", "wait", "ret"}
    \/ op = "Tick" /\ pc \in {"wait", "ret"}

\* A handler that goes on keeps Core.
LEMMA GotoStep ==
    ASSUME Core, Grows, up' = up, NEW t \in Threads, stack[t] # <<>>,
           NEW pc \in Pcs, pc # "wait", NEW r \in Res,
           stack' = [stack EXCEPT ![t] = At(@, pc, r)],
           PcOK(Top(t), pc, r, env', stored'),
           FailStop /\ Top(t).op = "Put" /\ pc # "start" => pbview[Top(t).at].Primary = Top(t).at,
           LockStep(t, HoldsAt(Top(t).op, pc))
    PROVE  /\ Stepped /\ (Top(t).op # "Tick" => TicksKept)
           /\ Moved(stack'[t], stack[t], pc, r) /\ Others(t)
<1> DEFINE st == stack[t]
           w == At(st, pc, r)
<1>1. StacksInv /\ PlacesInv
  BY DEF Core
<1>2. st \in Seq(Frames) /\ Top(t) = st[Len(st)]
  BY <1>1, TopFrame
<1>3. StackOK(t, st, env', puts', stored')
  BY <1>1, TopFrame, Grown
<1>4. StackOK(t, w, env', puts', stored')
  BY <1>2, <1>3, AtOK
<1>5. stack' = [stack EXCEPT ![t] = w]
  OBVIOUS
<1>6. Moved(w, st, pc, r)
  BY <1>2, Steps
<1> HIDE DEF w
<1>7. StacksInv' /\ stack'[t] = w /\ Others(t)
  BY <1>1, <1>4, <1>5, OneStack
<1>8. PlacesInv'
  BY <1>1, <1>6, <1>7, PlacesStep DEF OthersOr, Others
<1>9. MovesTo(t, pc, r, HoldsAt(Top(t).op, pc)) /\ OthersOr(t, 0)
  BY <1>6, <1>7 DEF MovesTo, HoldsAt, OthersOr, Others
<1>10. /\ MutexOK(stack', locked')
       /\ FailStop => \A u \in Threads : CallsOK(stack'[u], pbview)
       /\ Top(t).op # "Tick" => TicksKept
  BY <1>9, ThreadEffect
<1> QED
  BY <1>6, <1>7, <1>8, <1>10 DEF Stepped

\* A handler that returns keeps Core.
LEMMA ReturnStep ==
    ASSUME Core, Grows, up' = up, NEW t \in Threads, stack[t] # <<>>,
           NEW r \in Res, Return(t, r),
           Len(stack[t]) # 1 => MayGet(stack[t][Len(stack[t]) - 1], r, env', stored'),
           LockStep(t, FALSE)
    PROVE  /\ Stepped /\ (Top(t).op # "Tick" => TicksKept)
           /\ Ended(stack'[t], stack[t], r) /\ Others(t)
<1> DEFINE st == stack[t]
           w == Popped(st, r)
<1>1. StacksInv /\ PlacesInv
  BY DEF Core
<1>2. st \in Seq(Frames)
  BY <1>1, TopFrame
<1>3. StackOK(t, st, env', puts', stored')
  BY <1>1, TopFrame, Grown
<1>4. StackOK(t, w, env', puts', stored')
  BY <1>3, PopOK
<1>5. stack' = [stack EXCEPT ![t] = w]
  BY DEF Return
<1>6. Ended(w, st, r)
  BY <1>2, Steps
<1> HIDE DEF w
<1>7. StacksInv' /\ stack'[t] = w /\ Others(t)
  BY <1>1, <1>4, <1>5, OneStack
<1>8. PlacesInv'
  BY <1>1, <1>6, <1>7, PlacesStep DEF OthersOr, Others
<1>9. OthersOr(t, 0) /\ Ended(stack'[t], st, r) /\ ~ FALSE
  BY <1>6, <1>7 DEF OthersOr, Others
<1>10. /\ MutexOK(stack', locked')
       /\ FailStop => \A u \in Threads : CallsOK(stack'[u], pbview)
       /\ Top(t).op # "Tick" => TicksKept
  BY <1>9, ThreadEffect
<1> QED
  BY <1>6, <1>7, <1>8, <1>10 DEF Stepped

\* The frame that calls waits, or has the error at once; the handler may have
\* been started all the same.
Failed(t) == Moved(stack'[t], stack[t], "ret", Fail)

\* A handler that calls keeps Core, whether the call goes through or fails, or
\* only its reply is lost.
LEMMA CallStep ==
    ASSUME Core, Grows, up' = up, NEW t \in Threads, stack[t] # <<>>,
           NEW s, NEW op, NEW arg, Call(t, s, op, arg),
           s \in up => FrameOK(Frame(s, op, arg), env', puts', stored'), op \notin BottomOps,
           Calls(Top(t), op, arg),
           PcOK(Top(t), "wait", NoRes, env', stored'), PcOK(Top(t), "ret", Fail, env', stored'),
           FailStop /\ Top(t).op = "Put" => pbview[Top(t).at].Primary = Top(t).at,
           FailStop /\ Top(t).op \in {"Put", "Tick"} => s # Top(t).at,
           LockStep(t, HoldsAt(Top(t).op, "wait"))
    PROVE  /\ Stepped /\ (Top(t).op # "Tick" => TicksKept)
           /\ Called(stack'[t], stack[t], Frame(s, op, arg)) \/ Failed(t)
           /\ OthersOr(t, Frame(s, op, arg))
<1> DEFINE st == stack[t]
           g == Frame(s, op, arg)
           holds == HoldsAt(Top(t).op, "wait")
<1>1. StacksInv /\ PlacesInv
  BY DEF Core
<1>2. st \in Seq(Frames) /\ Top(t) = st[Len(st)]
  BY <1>1, TopFrame
<1>3. StackOK(t, st, env', puts', stored')
  BY <1>1, TopFrame, Grown
<1>4. g.at = s /\ g.op = op /\ g.arg = arg /\ g.pc = "start"
  BY DEF Frame
<1>5. stack \in [Threads -> Seq(Frames)]
  BY <1>1 DEF StacksInv
<1>6. CASE s \in up /\ stack' = [stack EXCEPT ![t] = At(@, "wait", NoRes) \o << g >>]
  <2> DEFINE w == At(st, "wait", NoRes) \o << g >>
  <2>1. g \in Frames
    BY <1>6 DEF FrameOK
  <2>2. StackOK(t, w, env', puts', stored')
    BY <1>2, <1>3, <1>6, CallOK
  <2>3. Called(w, st, g)
    BY <1>2, <2>1, Steps, Constants
  <2>4. stack' = [stack EXCEPT ![t] = w]
    BY <1>6
  <2> HIDE DEF w, g
  <2>5. StacksInv' /\ stack'[t] = w /\ Others(t)
    BY <1>1, <2>2, <2>4, OneStack
  <2>6. PlacesInv'
    BY <1>1, <1>4, <1>6, <2>3, <2>5, PlacesStep DEF OthersOr, Others
  <2>7. CallsOut(t, g, holds) /\ OthersOr(t, g)
    BY <1>4, <2>3, <2>5 DEF CallsOut, HoldsAt, OthersOr, Others
  <2>8. /\ MutexOK(stack', locked')
        /\ FailStop => \A u \in Threads : CallsOK(stack'[u], pbview)
        /\ Top(t).op # "Tick" => TicksKept
    BY <2>7, ThreadEffect
  <2> QED
    BY <2>3, <2>5, <2>6, <2>7, <2>8 DEF Stepped, g
<1>7. CASE /\ stack' = [stack EXCEPT ![t] = At(@, "ret", Fail)]
  <2>1. LockStep(t, HoldsAt(Top(t).op, "ret"))
    BY DEF HoldsAt, LockStep
  <2>2. Stepped /\ (Top(t).op # "Tick" => TicksKept) /\ Failed(t) /\ Others(t)
    BY <1>7, <2>1, GotoStep, Constants DEF Pcs, Failed
  <2> QED
    BY <2>2 DEF OthersOr, Others
<1>8. CASE /\ s \in up /\ t[2] = "live" /\ stack[Left(t[1])] = <<>>
           /\ stack' = [stack EXCEPT ![t] = At(@, "ret", Fail), ![Left(t[1])] = << g >>]
  <2> DEFINE w == At(st, "ret", Fail)
             l == Left(t[1])
  <2>1. l \in Threads /\ l # t /\ l[2] = "left" /\ l # <<>>
    BY <1>8 DEF Left, Threads, Owners
  <2>2. g \in Frames /\ FrameOK(g, env', puts', stored')
    BY <1>8 DEF FrameOK
  <2>3. StackOK(t, w, env', puts', stored') /\ Moved(w, st, "ret", Fail)
    BY <1>2, <1>3, AtOK, Steps, Constants DEF Pcs
  <2>4. stack' = [stack EXCEPT ![t] = w, ![l] = << g >>]
    BY <1>8
  <2>5. StackOK(l, << g >>, env', puts', stored')
    <3>1. Len(<<g>>) = 1 /\ <<g>>[1] = g
      OBVIOUS
    <3>2. <<g>> \in Seq(Frames)
      BY <2>2
    <3> HIDE DEF g
    <3> QED
      BY <1>4, <2>1, <2>2, <3>1, <3>2 DEF StackOK, FramesOK, LinksOK, BottomOK
  <2> HIDE DEF w, g, l
  <2>6. w \in Seq(Frames) /\ << g >> \in Seq(Frames)
    BY <2>2, <2>3 DEF StackOK, FramesOK
  <2>7. /\ stack' \in [Threads -> Seq(Frames)] /\ stack'[t] = w /\ stack'[l] = << g >>
        /\ \A u \in Threads : u # t /\ u # l => stack'[u] = stack[u]
    BY <1>5, <2>1, <2>4, <2>6
  <2>8. OthersOr(t, g)
    BY <1>4, <1>8, <2>1, <2>7 DEF OthersOr, Starts, l
  <2>9. StacksInv'
    <3>1. ASSUME NEW u \in Threads PROVE StackOK(u, stack'[u], env', puts', stored')
      <4>1. StackOK(u, stack[u], env', puts', stored')
        BY <1>1, Grown DEF StacksInv
      <4> QED
        BY <2>3, <2>5, <2>7, <4>1
    <3> QED
      BY <2>7, <3>1 DEF StacksInv
  <2>10. PlacesInv'
    BY <1>1, <1>4, <1>8, <2>3, <2>7, <2>8, PlacesStep
  <2>11. MovesTo(t, "ret", Fail, holds)
    BY <2>3, <2>7 DEF MovesTo, HoldsAt
  <2>12. /\ MutexOK(stack', locked')
         /\ FailStop => \A u \in Threads : CallsOK(stack'[u], pbview)
         /\ Top(t).op # "Tick" => TicksKept
    BY <2>8, <2>11, ThreadEffect
  <2> QED
    BY <2>3, <2>7, <2>8, <2>9, <2>10, <2>12 DEF Stepped, Failed, g
<1> QED
  BY <1>6, <1>7, <1>8 DEF Call

\* A thread that rested starts with one frame.
LEMMA NewStep ==
    ASSUME Core, Grows, up' = up, locked' = locked, NEW t \in Threads, stack[t] = <<>>,
           NEW f, stack' = [stack EXCEPT ![t] = <<f>>],
           FrameOK(f, env', puts', stored'), f.pc = "start", f.at \in up \cup Clerks,
           f.op \in BottomOps <=> t[2] = "live",
           t[2] = "live" => f.at = t[1]
    PROVE  Stepped /\ stack'[t] = <<f>> /\ Others(t)
<1>1. Len(<<f>>) = 1 /\ <<f>>[1] = f /\ f \in Frames
  BY DEF FrameOK
<1>2. <<f>> \in Seq(Frames) /\ <<f>> # <<>>
  BY <1>1
<1>3. StackOK(t, <<f>>, env', puts', stored')
  BY <1>1, <1>2 DEF StackOK, FramesOK, LinksOK, BottomOK
<1>4. StacksInv' /\ stack'[t] = <<f>> /\ Others(t)
  BY <1>3, OneStack DEF Core
<1>5. PlacesInv'
  BY <1>1, <1>4 DEF PlacesInv, Others, Core
<1>6. \A u \in Threads, s \in Servers, i \in Nat : Keeps(stack'[u], s, i) <=> Keeps(stack[u], s, i)
  BY <1>1, <1>4 DEF Others, Keeps, HoldsLock
<1>7. MutexOK(stack', locked')
  <2>1. MutexOK(stack, locked)
    BY DEF Core, MutexInv
  <2> QED
    BY <1>6, <2>1 DEF MutexOK
<1>8. FailStop => \A u \in Threads : CallsOK(stack'[u], pbview)
  <2>1. CallsOK(<<f>>, pbview)
    BY <1>1 DEF CallsOK
  <2> QED
    BY <1>4, <2>1 DEF Others, Core, CallsInv
<1> QED
  BY <1>4, <1>5, <1>7, <1>8 DEF Stepped

\* A thread that holds no mutex is gone.
LEMMA GoneStep ==
    ASSUME Core, Grows, up' = up, locked' = locked, NEW t \in Threads,
           stack' = [stack EXCEPT ![t] = <<>>],
           \A s \in Servers, i \in Nat : ~ Keeps(stack[t], s, i)
    PROVE  Stepped /\ stack'[t] = <<>> /\ Others(t)
<1>1. Len(<<>>) = 0 /\ <<>> \in Seq(Frames)
  OBVIOUS
<1>2. StackOK(t, <<>>, env', puts', stored')
  BY <1>1 DEF StackOK, FramesOK, LinksOK, BottomOK
<1>3. StacksInv' /\ stack'[t] = <<>> /\ Others(t)
  BY <1>2, OneStack DEF Core
<1>4. PlacesInv'
  BY <1>1, <1>3 DEF PlacesInv, Others, Core
<1>5. \A u \in Threads, s \in Servers, i \in Nat : Keeps(stack'[u], s, i) <=> Keeps(stack[u], s, i)
  BY <1>1, <1>3 DEF Others, Keeps
<1>6. MutexOK(stack', locked')
  <2>1. MutexOK(stack, locked)
    BY DEF Core, MutexInv
  <2> QED
    BY <1>5, <2>1 DEF MutexOK
<1>7. FailStop => \A u \in Threads : CallsOK(stack'[u], pbview)
  <2>1. CallsOK(<<>>, pbview)
    BY <1>1 DEF CallsOK
  <2> QED
    BY <1>3, <2>1 DEF Others, Core, CallsInv
<1> QED
  BY <1>3, <1>4, <1>6, <1>7 DEF Stepped

-----------------------------------------------------------------------------
(* Handlers.                                                               *)

\* What a frame may be, opened once.
LEMMA TopFacts ==
    ASSUME PBInv, NEW t \in Threads, stack[t] # <<>>
    PROVE  LET f == Top(t)
           IN  /\ f \in Frames /\ f.at \in Owners
               /\ f.op \notin {"ClerkPut", "ClerkGet"} => f.at \in Servers
               /\ f.op \in PutOps => f.arg \in Keys \X (1 .. puts)
               /\ f.op \in GetOps => f.arg \in Keys \X (0 .. env.puts)
               /\ f.op = "MoveDB" => f.arg \in [Keys -> 0 .. env.puts]
               /\ f.op = "Tick" => f.arg \in View
               /\ f.op = "Put" /\ f.pc \in {"forward", "wait", "ret"} => f.arg[2] \in stored
               /\ f.pc = "ret" => f.res \in Res /\ MayGet(f, f.res, env, stored)
               /\ FailStop /\ f.op = "Put" /\ f.pc # "start" => pbview[f.at].Primary = f.at
<1>1. FrameOK(Top(t), env, puts, stored)
  BY TopFrame DEF PBInv, Core
<1>2. FailStop /\ Top(t).op = "Put" /\ Top(t).pc # "start" => pbview[Top(t).at].Primary = Top(t).at
  <2>1. Len(stack[t]) \in 1 .. Len(stack[t]) /\ Top(t) = stack[t][Len(stack[t])]
    <3>1. Len(stack[t]) \in Nat \ {0} /\ Top(t) = stack[t][Len(stack[t])]
      BY TopFrame DEF PBInv, Core
    <3> QED
      BY <3>1
  <2> QED
    BY <2>1 DEF PBInv, Core, CallsInv, CallsOK
<1> QED
  BY <1>1, <1>2 DEF FrameOK, ArgOK, PlaceOK, PcOK, Frames

\* The frame below may have the results that the handlers return.
LEMMA CallerMayGet ==
    ASSUME StacksInv, NEW t \in Threads, stack[t] # <<>>, Len(stack[t]) # 1, NEW r,
           \/ Top(t).op = "Get" /\ (r \in {WrongServer, NoKey} \/ (r.err = "OK" /\ r.val \in 0 .. env.puts))
           \/ Top(t).op \in {"Put", "Relay"} /\ MayGet(Top(t), r, env, stored)
           \/ Top(t).op \in {"ForwardPut", "MoveDB"} /\ r = OK
    PROVE  MayGet(stack[t][Len(stack[t]) - 1], r, env, stored)
<1> DEFINE m == Len(stack[t])
           f == stack[t][m - 1]
<1>1. m \in Nat \ {0} /\ StackOK(t, stack[t], env, puts, stored) /\ Top(t) = stack[t][m]
  BY TopFrame
<1>2. m - 1 \in 1 .. m - 1 /\ m - 1 + 1 = m /\ m - 1 \in 1 .. m
  <2> HIDE DEF m
  <2>1. m # 1
    BY DEF m
  <2> QED
    BY <1>1, <2>1
<1>3. FrameOK(f, env, puts, stored) /\ f.pc = "wait" /\ Calls(f, Top(t).op, Top(t).arg)
  BY <1>1, <1>2 DEF StackOK, FramesOK, LinksOK
<1>4. f.op = "Put" => f.arg[2] \in stored
  BY <1>3 DEF FrameOK, PcOK
<1> HIDE DEF f
<1> QED
  BY <1>3, <1>4 DEF MayGet, Calls, PutOps, GetOps, f

\* What a handler leaves alone.
Quiet == UNCHANGED <<vsVars, env, up, pbview, connected, crashes, puts, begun, acked, floor>>

\* What a step of a handler is to keep.
Handled == Stepped /\ TicksKept

\* Handlers only add to what is stored.
LEMMA QuietGrows == ASSUME PBInv, Quiet, stored \subseteq stored' PROVE Grows
<1>1. env.puts \in Nat /\ puts \in 0 .. env.puts
  BY EnvironmentsAssumption DEF PBInv, DataOK, Environment
<1> QED
  BY <1>1 DEF Grows, Quiet

\* Get answers ErrWrongServer, or goes on to read.
LEMMA GetEnterKeeps ==
    ASSUME PBInv, NEW t \in Threads, GetEnter(t)
    PROVE  Handled
<1>1. stack[t] # <<>> /\ Top(t).op = "Get" /\ Top(t).pc = "start"
  BY DEF GetEnter, Running, Top
<1>2. Core /\ Grows /\ up' = up /\ env' = env /\ stored' = stored /\ locked' = locked
  BY QuietGrows DEF PBInv, Quiet, GetEnter, pbVars, clerkVars
<1>3. CASE Goto(t, "lock")
  <2>1. LockStep(t, HoldsAt(Top(t).op, "lock"))
    BY <1>1, <1>2 DEF LockStep, HoldsAt, HoldsLock
  <2>2. PcOK(Top(t), "lock", NoRes, env', stored')
    BY <1>1 DEF PcOK
  <2> QED
    BY <1>1, <1>2, <1>3, <2>1, <2>2, GotoStep, Constants DEF Goto, Handled, Pcs
<1>4. CASE Return(t, WrongServer)
  <2>1. LockStep(t, FALSE)
    BY <1>1, <1>2 DEF LockStep, HoldsLock
  <2>2. Len(stack[t]) # 1 => MayGet(stack[t][Len(stack[t]) - 1], WrongServer, env', stored')
    BY <1>1, <1>2, CallerMayGet DEF Core
  <2> QED
    BY <1>1, <1>2, <1>4, <2>1, <2>2, ReturnStep, Constants DEF Handled
<1> QED
  BY <1>3, <1>4 DEF GetEnter

\* Get reads a value that was Put, or none.
LEMMA GetReadKeeps ==
    ASSUME PBInv, NEW t \in Threads, GetRead(t)
    PROVE  Handled
<1> DEFINE v == db[Top(t).at][Top(t).arg[1]]
           r == IF v = 0 THEN NoKey ELSE [err |-> "OK", val |-> v]
<1>1. stack[t] # <<>> /\ Top(t).op = "Get" /\ Top(t).pc = "lock" /\ Return(t, r)
  BY DEF GetRead, Running, Top
<1>2. Core /\ Grows /\ up' = up /\ env' = env /\ stored' = stored /\ locked' = locked
  BY QuietGrows DEF PBInv, Quiet, GetRead, pbVars, clerkVars
<1>3. v \in 0 .. env.puts /\ v \in Nat
  <2>1. Top(t).at \in Servers /\ Top(t).arg[1] \in Keys
    BY <1>1, TopFacts DEF GetOps
  <2>2. env.puts \in Nat
    BY EnvironmentsAssumption DEF PBInv, DataOK, Environment
  <2> QED
    BY <2>1, <2>2 DEF PBInv, DataOK
<1> HIDE DEF v
<1>4. r \in Res /\ (r \in {WrongServer, NoKey} \/ (r.err = "OK" /\ r.val \in 0 .. env.puts))
  BY <1>3, Constants DEF Res
<1> HIDE DEF r
<1>5. LockStep(t, FALSE)
  BY <1>1, <1>2 DEF LockStep, HoldsLock
<1>6. Len(stack[t]) # 1 => MayGet(stack[t][Len(stack[t]) - 1], r, env', stored')
  BY <1>1, <1>2, <1>4, CallerMayGet DEF Core
<1> QED
  BY <1>1, <1>2, <1>4, <1>5, <1>6, ReturnStep DEF Handled

\* A Put that its server relays goes on as a Relay in the same frame.
LEMMA BecomeKeeps ==
    ASSUME PBInv, NEW t \in Threads, stack[t] # <<>>, Top(t).op = "Put", Top(t).pc = "start",
           Become(t, "Relay"), Grows, up' = up, env' = env, stored' = stored, locked' = locked
    PROVE  Handled
<1> DEFINE st == stack[t]
           g == Frame(Top(t).at, "Relay", Top(t).arg)
           w == Front(st) \o << g >>
           m == Len(st)
<1>1. /\ st \in Seq(Frames) /\ m \in Nat \ {0} /\ StackOK(t, st, env, puts, stored)
      /\ Top(t) = st[m] /\ FrameOK(Top(t), env, puts, stored) /\ StacksInv /\ PlacesInv
  BY TopFrame DEF PBInv, Core
<1>2. g.at = Top(t).at /\ g.op = "Relay" /\ g.arg = Top(t).arg /\ g.pc = "start"
  BY DEF Frame
<1>3. FrameOK(g, env', puts', stored')
  <2>1. FrameOK(Top(t), env', puts', stored')
    BY <1>1, GrownFrame DEF Grows
  <2>2. g \in Frames
    BY <1>1, Constants DEF Frame, Frames, FrameOK, Ops, Pcs
  <2> HIDE DEF g
  <2>3. ArgOK(g.op, g.arg, env', puts') /\ PlaceOK(g.op, g.at) /\ PcOK(g, g.pc, g.res, env', stored')
    BY <1>2, <2>1 DEF FrameOK, ArgOK, PlaceOK, PcOK, PutOps, GetOps
  <2> QED
    BY <2>2, <2>3 DEF FrameOK
<1>4. stack' = [stack EXCEPT ![t] = w]
  BY DEF Become, Top
<1>5. SameBelow(w, st) /\ w[m] = g
  BY <1>1, <1>3, Retopped DEF FrameOK
<1> HIDE DEF w, g
<1>6. w \in Seq(Frames) /\ Len(w) = m /\ w # <<>> /\ \A i \in 1 .. m - 1 : w[i] = st[i]
  BY <1>5 DEF SameBelow
<1>7. /\ \A i \in 1 .. m : i = m \/ (i \in 1 .. m - 1 /\ w[i] = st[i])
      /\ \A i \in 1 .. m - 1 : i \in 1 .. m /\ i + 1 \in 1 .. m /\ i # m
      /\ m # 1 => 1 \in 1 .. m - 1
      /\ m \in 1 .. m
  <2> HIDE DEF m
  <2> QED
    BY <1>1, <1>6
<1>8. Top(t).at \in Servers /\ Top(t).op \notin BottomOps /\ g.op \notin BottomOps
  BY <1>1, <1>2 DEF FrameOK, PlaceOK, BottomOps
<1>9. StackOK(t, w, env', puts', stored')
  <2>1. StackOK(t, st, env', puts', stored')
    BY <1>1, Grown
  <2>2. FramesOK(w, env', puts', stored')
    BY <1>3, <1>5, <1>6, <1>7, <2>1 DEF StackOK, FramesOK
  <2>3. LinksOK(w)
    <3>1. ASSUME NEW i \in 1 .. m - 1
          PROVE  w[i].pc = "wait" /\ Calls(w[i], w[i + 1].op, w[i + 1].arg)
      <4>1. st[i].pc = "wait" /\ Calls(st[i], st[i + 1].op, st[i + 1].arg) /\ w[i] = st[i]
        BY <1>1, <1>6 DEF StackOK, LinksOK
      <4>2. CASE i + 1 = m
        BY <1>1, <1>2, <1>5, <4>1, <4>2 DEF Calls
      <4>3. CASE i + 1 # m
        BY <1>7, <4>1, <4>3
      <4> QED
        BY <4>2, <4>3
    <3> QED
      BY <1>2, <1>5, <1>6, <3>1 DEF LinksOK
  <2>4. BottomOK(t, w)
    <3>1. st # <<>> /\ st[1].at = w[1].at
      <4>1. m = 1 \/ (1 \in 1 .. m - 1 /\ w[1] = st[1])
        BY <1>6, <1>7
      <4> QED
        BY <1>1, <1>2, <1>5, <4>1
    <3>2. ASSUME NEW i \in 1 .. m
          PROVE  w[i].op \in BottomOps <=> (i = 1 /\ t[2] = "live")
      <4>1. st[i].op \in BottomOps <=> (i = 1 /\ t[2] = "live")
        BY <2>1 DEF StackOK, BottomOK
      <4> QED
        BY <1>1, <1>5, <1>7, <1>8, <4>1
    <3> QED
      BY <1>6, <2>1, <3>1, <3>2 DEF StackOK, BottomOK
  <2> QED
    BY <2>2, <2>3, <2>4 DEF StackOK
<1>10. StacksInv' /\ stack'[t] = w /\ Others(t)
  BY <1>1, <1>4, <1>9, OneStack
<1>11. ASSUME NEW i \in 1 .. m
       PROVE  /\ w[i].at = st[i].at
              /\ (~ HoldsLock(w[i]) /\ ~ HoldsLock(st[i])) \/ w[i] = st[i]
              /\ w[i].pc = "start" \/ w[i] = st[i]
              /\ w[i].op \in {"Put", "Tick"} => w[i] = st[i]
  BY <1>1, <1>2, <1>5, <1>7 DEF HoldsLock
<1>12. PlacesInv'
  BY <1>1, <1>6, <1>10, <1>11 DEF PlacesInv, Others
<1>13. MutexOK(stack', locked')
  <2>1. \A u \in Threads, s \in Servers, i \in Nat : Keeps(stack'[u], s, i) <=> Keeps(stack[u], s, i)
    BY <1>6, <1>10, <1>11 DEF Others, Keeps
  <2>2. MutexOK(stack, locked)
    BY DEF PBInv, Core, MutexInv
  <2> QED
    BY <2>1, <2>2 DEF MutexOK
<1>14. FailStop => \A u \in Threads : CallsOK(stack'[u], pbview)
  <2> SUFFICES ASSUME FailStop, NEW u \in Threads PROVE CallsOK(stack'[u], pbview)
    OBVIOUS
  <2>1. CallsOK(stack[u], pbview)
    BY DEF PBInv, Core, CallsInv
  <2>2. CASE u = t
    <3>1. ASSUME NEW i \in 1 .. m
          PROVE  /\ w[i].op = "Put" /\ w[i].pc # "start" => pbview[w[i].at].Primary = w[i].at
                 /\ w[i].op \in {"Put", "Tick"} /\ i # m => w[i + 1].at # w[i].at
      <4>1. w[i].op \in {"Put", "Tick"} => w[i] = st[i]
        BY <1>11
      <4>2. i # m => i + 1 \in 1 .. m /\ w[i + 1].at = st[i + 1].at
        BY <1>1, <1>7, <1>11
      <4>3. /\ st[i].op = "Put" /\ st[i].pc # "start" => pbview[st[i].at].Primary = st[i].at
            /\ st[i].op \in {"Put", "Tick"} /\ i # m => st[i + 1].at # st[i].at
        BY <2>1, <2>2 DEF CallsOK
      <4> QED
        BY <4>1, <4>2, <4>3
    <3>2. CallsOK(w, pbview)
      BY <1>6, <3>1 DEF CallsOK
    <3> QED
      BY <1>10, <2>2, <3>2
  <2>3. CASE u # t
    BY <1>10, <2>1, <2>3 DEF Others
  <2> QED
    BY <2>2, <2>3
<1>15. ASSUME NEW s \in Servers PROVE BottomKept(stack'[Live(s)], stack[Live(s)])
  <2>1. Live(s) \in Threads
    BY DEF Live, Threads, Owners
  <2>2. CASE Live(s) # t
    BY <1>10, <2>1, <2>2 DEF Others, BottomKept
  <2>3. CASE Live(s) = t
    <3>1. m # 1
      <4>1. m = 1 => 1 \in 1 .. m /\ st[1] = Top(t)
        BY <1>1, <1>7
      <4> QED
        BY <1>1, <1>8, <2>3, <4>1 DEF StackOK, BottomOK, Live
    <3>2. w[1] = st[1]
      BY <1>6, <1>7, <3>1
    <3> QED
      BY <1>6, <1>10, <2>3, <3>2 DEF BottomKept
  <2> QED
    BY <2>2, <2>3
<1> QED
  BY <1>10, <1>12, <1>13, <1>14, <1>15 DEF Handled, Stepped, TicksKept

\* Put goes on at the primary of the server's own view only.
LEMMA PutEnterKeeps ==
    ASSUME PBInv, NEW t \in Threads, PutEnter(t)
    PROVE  Handled
<1> DEFINE q == Top(t).at
<1>1. stack[t] # <<>> /\ Top(t).op = "Put" /\ Top(t).pc = "start"
  BY DEF PutEnter, Running, Top
<1>2. Core /\ Grows /\ up' = up /\ env' = env /\ stored' = stored /\ locked' = locked
  BY QuietGrows DEF PBInv, Quiet, PutEnter, pbVars, clerkVars
<1>3. q \in Servers
  BY <1>1, TopFacts
<1>4. CASE ~ connected[q] /\ Return(t, WrongServer)
  <2>1. "lostping" \in env.faults
    BY <1>3, <1>4 DEF PBInv, ConnectedInv
  <2>2. MayGet(Top(t), WrongServer, env, stored)
    BY <1>1, <2>1 DEF MayGet, PutOps
  <2>3. Len(stack[t]) # 1 => MayGet(stack[t][Len(stack[t]) - 1], WrongServer, env', stored')
    BY <1>1, <1>2, <2>2, CallerMayGet DEF Core
  <2>4. LockStep(t, FALSE)
    BY <1>1, <1>2 DEF LockStep, HoldsLock
  <2> QED
    BY <1>1, <1>2, <1>4, <2>3, <2>4, ReturnStep, Constants DEF Handled
<1>5. CASE pbview[q].Primary = q /\ Goto(t, "lock")
  <2>1. LockStep(t, HoldsAt(Top(t).op, "lock"))
    BY <1>1, <1>2 DEF LockStep, HoldsAt, HoldsLock
  <2>2. PcOK(Top(t), "lock", NoRes, env', stored')
    BY <1>1 DEF PcOK
  <2> QED
    BY <1>1, <1>2, <1>5, <2>1, <2>2, GotoStep, Constants DEF Goto, Handled, Pcs
<1>6. CASE Become(t, "Relay")
  BY <1>1, <1>2, <1>6, BecomeKeeps
<1>7. \/ ~ connected[q] /\ Return(t, WrongServer)
      \/ pbview[q].Primary = q /\ Goto(t, "lock")
      \/ Become(t, "Relay")
  <2>1. connected[q] \in BOOLEAN
    BY <1>3 DEF PBInv, DataOK
  <2> QED
    BY <2>1 DEF PutEnter
<1> QED
  BY <1>4, <1>5, <1>6, <1>7

\* Put takes the mutex and stores.
LEMMA PutStoreKeeps ==
    ASSUME PBInv, NEW t \in Threads, PutStore(t)
    PROVE  Handled
<1>1. /\ stack[t] # <<>> /\ Top(t).op = "Put" /\ Top(t).pc = "lock" /\ Goto(t, "forward")
      /\ ~ locked[Top(t).at] /\ locked' = [locked EXCEPT ![Top(t).at] = TRUE]
      /\ stored' = stored \cup {Top(t).arg[2]}
  BY DEF PutStore, Running, Top
<1>2. Core /\ Grows /\ up' = up
  BY <1>1, QuietGrows DEF PBInv, Quiet, PutStore
<1>3. Top(t).at \in Servers /\ (FailStop => pbview[Top(t).at].Primary = Top(t).at)
  BY <1>1, TopFacts
<1>4. LockStep(t, HoldsAt(Top(t).op, "forward"))
  BY <1>1, <1>3 DEF LockStep, HoldsAt
<1>5. PcOK(Top(t), "forward", NoRes, env', stored')
  BY <1>1 DEF PcOK
<1> QED
  BY <1>1, <1>2, <1>3, <1>4, <1>5, GotoStep, Constants DEF Goto, Handled, Pcs

\* Put forwards to another server, or ends and unlocks if there is no backup.
LEMMA PutForwardKeeps ==
    ASSUME PBInv, NEW t \in Threads, PutForward(t)
    PROVE  Handled
<1> DEFINE q == Top(t).at
           b == pbview[q].Backup
<1>1. stack[t] # <<>> /\ Top(t).op = "Put" /\ Top(t).pc = "forward"
  BY DEF PutForward, Running, Top
<1>2. Core /\ Grows /\ up' = up /\ env' = env /\ stored' = stored
  BY QuietGrows DEF PBInv, Quiet, PutForward, clerkVars
<1>3. /\ q \in Servers /\ (FailStop => pbview[q].Primary = q)
      /\ Top(t).arg[2] \in stored /\ Top(t).arg \in Keys \X (1 .. puts)
  BY <1>1, TopFacts DEF PutOps
<1>4. HoldsLock(Top(t))
  BY <1>1 DEF HoldsLock
<1>5. CASE Unlock(q) /\ Return(t, OK)
  <2>1. MayGet(Top(t), OK, env, stored)
    BY <1>1, <1>3 DEF MayGet, PutOps
  <2>2. Len(stack[t]) # 1 => MayGet(stack[t][Len(stack[t]) - 1], OK, env', stored')
    BY <1>1, <1>2, <2>1, CallerMayGet DEF Core
  <2>3. LockStep(t, FALSE)
    BY <1>3, <1>4, <1>5 DEF LockStep, Unlock
  <2> QED
    BY <1>1, <1>2, <1>5, <2>2, <2>3, ReturnStep, Constants DEF Handled
<1>6. CASE b # None /\ Call(t, b, "ForwardPut", Top(t).arg) /\ locked' = locked
  <2>1. b \in Servers
    BY <1>3, <1>6 DEF PBInv, DataOK, View
  <2>2. FrameOK(Frame(b, "ForwardPut", Top(t).arg), env', puts', stored')
    <3>1. Top(t).arg \in Arg /\ puts' = puts
      BY <1>1, TopFacts DEF Frames, PutForward, clerkVars
    <3>2. Frame(b, "ForwardPut", Top(t).arg) \in Frames
      BY <2>1, <3>1, Constants DEF Frame, Frames, Owners, Ops, Pcs
    <3> QED
      BY <1>3, <2>1, <3>1, <3>2 DEF FrameOK, Frame, ArgOK, PlaceOK, PcOK, PutOps, GetOps
  <2>3. FailStop => b # q
    <3>1. DistinctRoles(pbview[q])
      BY <1>3 DEF PBInv, ViewsInv
    <3> QED
      BY <1>3, <2>1, <3>1, Constants DEF DistinctRoles
  <2>4. /\ Calls(Top(t), "ForwardPut", Top(t).arg)
        /\ PcOK(Top(t), "wait", NoRes, env', stored')
        /\ PcOK(Top(t), "ret", Fail, env', stored')
    BY <1>1, <1>2, <1>3 DEF Calls, PcOK, MayGet
  <2>5. LockStep(t, HoldsAt(Top(t).op, "wait"))
    BY <1>1, <1>4, <1>6 DEF LockStep, HoldsAt
  <2>6. "ForwardPut" \notin BottomOps
    BY DEF BottomOps
  <2> QED
    BY <1>1, <1>2, <1>3, <1>6, <2>2, <2>3, <2>4, <2>5, <2>6, CallStep DEF Handled
<1> QED
  BY <1>5, <1>6 DEF PutForward

\* Put tries again, or unlocks and ends with the backup's answer.
LEMMA PutForwardedKeeps ==
    ASSUME PBInv, NEW t \in Threads, PutForwarded(t)
    PROVE  Handled
<1> DEFINE q == Top(t).at
           r == Top(t).res
<1>1. stack[t] # <<>> /\ Top(t).op = "Put" /\ Top(t).pc = "ret"
  BY DEF PutForwarded, Running, Top
<1>2. Core /\ Grows /\ up' = up /\ env' = env /\ stored' = stored
  BY QuietGrows DEF PBInv, Quiet, PutForwarded, clerkVars
<1>3. /\ q \in Servers /\ (FailStop => pbview[q].Primary = q)
      /\ Top(t).arg[2] \in stored /\ MayGet(Top(t), r, env, stored) /\ r \in Res
  BY <1>1, TopFacts
<1>4. HoldsLock(Top(t))
  BY <1>1 DEF HoldsLock
<1>5. CASE Goto(t, "forward") /\ locked' = locked
  <2>1. LockStep(t, HoldsAt(Top(t).op, "forward"))
    BY <1>1, <1>4, <1>5 DEF LockStep, HoldsAt
  <2>2. PcOK(Top(t), "forward", NoRes, env', stored')
    BY <1>1, <1>2, <1>3 DEF PcOK
  <2> QED
    BY <1>1, <1>2, <1>3, <1>5, <2>1, <2>2, GotoStep, Constants DEF Goto, Handled, Pcs
<1>6. CASE Unlock(q) /\ Return(t, r)
  <2>1. Len(stack[t]) # 1 => MayGet(stack[t][Len(stack[t]) - 1], r, env', stored')
    BY <1>1, <1>2, <1>3, CallerMayGet DEF Core
  <2>2. LockStep(t, FALSE)
    BY <1>3, <1>4, <1>6 DEF LockStep, Unlock
  <2> QED
    BY <1>1, <1>2, <1>3, <1>6, <2>1, <2>2, ReturnStep DEF Handled
<1> QED
  BY <1>5, <1>6 DEF PutForwarded

\* A relaying server calls the primary of its view.
LEMMA RelayCallKeeps ==
    ASSUME PBInv, NEW t \in Threads, RelayCall(t)
    PROVE  Handled
<1> DEFINE p == pbview[Top(t).at].Primary
<1>1. /\ stack[t] # <<>> /\ Top(t).op = "Relay" /\ Top(t).pc = "start"
      /\ p # None /\ Call(t, p, "Put", Top(t).arg)
  BY DEF RelayCall, Running, Top
<1>2. /\ Core /\ Grows /\ up' = up /\ env' = env /\ stored' = stored /\ locked' = locked
      /\ puts' = puts
  BY QuietGrows DEF PBInv, Quiet, RelayCall, pbVars, clerkVars
<1>3. /\ Top(t).at \in Servers /\ Top(t).arg \in Arg /\ Top(t).arg \in Keys \X (1 .. puts)
  BY <1>1, TopFacts DEF PutOps, Frames
<1>4. p \in Servers
  BY <1>1, <1>3 DEF PBInv, DataOK, View
<1>5. FrameOK(Frame(p, "Put", Top(t).arg), env', puts', stored')
  <2>1. Frame(p, "Put", Top(t).arg) \in Frames
    BY <1>3, <1>4, Constants DEF Frame, Frames, Owners, Ops, Pcs
  <2> QED
    BY <1>2, <1>3, <1>4, <2>1 DEF FrameOK, Frame, ArgOK, PlaceOK, PcOK, PutOps, GetOps
<1>6. /\ Calls(Top(t), "Put", Top(t).arg)
      /\ PcOK(Top(t), "wait", NoRes, env', stored')
      /\ PcOK(Top(t), "ret", Fail, env', stored')
  BY <1>1 DEF Calls, PcOK, MayGet
<1>7. LockStep(t, HoldsAt(Top(t).op, "wait"))
  BY <1>1, <1>2 DEF LockStep, HoldsAt, HoldsLock
<1>8. "Put" \notin BottomOps
  BY DEF BottomOps
<1> QED
  BY <1>1, <1>2, <1>5, <1>6, <1>7, <1>8, CallStep DEF Handled

\* ... and tries again or passes the answer on.
LEMMA RelayReturnKeeps ==
    ASSUME PBInv, NEW t \in Threads, RelayReturn(t)
    PROVE  Handled
<1> DEFINE r == Top(t).res
<1>1. stack[t] # <<>> /\ Top(t).op = "Relay" /\ Top(t).pc = "ret"
  BY DEF RelayReturn, Running, Top
<1>2. Core /\ Grows /\ up' = up /\ env' = env /\ stored' = stored /\ locked' = locked
  BY QuietGrows DEF PBInv, Quiet, RelayReturn, pbVars, clerkVars
<1>3. MayGet(Top(t), r, env, stored) /\ r \in Res
  BY <1>1, TopFacts
<1>4. CASE Goto(t, "start")
  <2>1. LockStep(t, HoldsAt(Top(t).op, "start"))
    BY <1>1, <1>2 DEF LockStep, HoldsAt, HoldsLock
  <2>2. PcOK(Top(t), "start", NoRes, env', stored')
    BY <1>1 DEF PcOK
  <2> QED
    BY <1>1, <1>2, <1>4, <2>1, <2>2, GotoStep, Constants DEF Goto, Handled, Pcs
<1>5. CASE Return(t, r)
  <2>1. Len(stack[t]) # 1 => MayGet(stack[t][Len(stack[t]) - 1], r, env', stored')
    BY <1>1, <1>2, <1>3, CallerMayGet DEF Core
  <2>2. LockStep(t, FALSE)
    BY <1>1, <1>2 DEF LockStep, HoldsLock
  <2> QED
    BY <1>1, <1>2, <1>3, <1>5, <2>1, <2>2, ReturnStep DEF Handled
<1> QED
  BY <1>4, <1>5 DEF RelayReturn

\* ForwardPut and MoveDB.
LEMMA BackupKeeps ==
    ASSUME PBInv, NEW t \in Threads, ForwardPut(t) \/ MoveDB(t)
    PROVE  Handled
<1>1. stack[t] # <<>> /\ Top(t).op \in {"ForwardPut", "MoveDB"} /\ Return(t, OK)
  BY DEF ForwardPut, MoveDB, Running, Top
<1>2. Core /\ Grows /\ up' = up /\ env' = env /\ stored' = stored /\ locked' = locked
  BY QuietGrows DEF PBInv, Quiet, ForwardPut, MoveDB, clerkVars
<1>3. Len(stack[t]) # 1 => MayGet(stack[t][Len(stack[t]) - 1], OK, env', stored')
  BY <1>1, <1>2, CallerMayGet DEF Core
<1>4. LockStep(t, FALSE)
  BY <1>1, <1>2 DEF LockStep, HoldsLock
<1> QED
  BY <1>1, <1>2, <1>3, <1>4, ReturnStep, Constants DEF Handled

\* The databases hold values that were Put.
LEMMA HandleData ==
    ASSUME PBInv, NEW t \in Threads, Handle(t)
    PROVE  /\ Quiet
           /\ db' \in [Servers -> [Keys -> 0 .. env.puts]]
           /\ locked' \in [Servers -> BOOLEAN]
           /\ stored \subseteq stored' /\ stored' \subseteq 1 .. puts
<1> DEFINE q == Top(t).at
           D == [Keys -> 0 .. env.puts]
<1>1. /\ db \in [Servers -> D] /\ locked \in [Servers -> BOOLEAN]
      /\ stored \subseteq 1 .. puts /\ 1 .. puts \subseteq 0 .. env.puts
  <2>1. env.puts \in Nat /\ puts \in 0 .. env.puts
    BY EnvironmentsAssumption DEF PBInv, DataOK, Environment
  <2> QED
    BY <2>1 DEF PBInv, DataOK, Core
<1>2. CASE GetEnter(t) \/ GetRead(t) \/ PutEnter(t) \/ RelayCall(t) \/ RelayReturn(t)
  BY <1>1, <1>2 DEF GetEnter, GetRead, PutEnter, RelayCall, RelayReturn, Quiet, pbVars, clerkVars
<1>3. CASE PutForward(t) \/ PutForwarded(t)
  BY <1>1, <1>3 DEF PutForward, PutForwarded, Unlock, Quiet, clerkVars
<1>4. ASSUME stack[t] # <<>>, Top(t).op \in {"Put", "ForwardPut"}, Written(t)
      PROVE  db' \in [Servers -> D] /\ Top(t).arg[2] \in 1 .. puts
  <2>1. q \in Servers /\ Top(t).arg \in Keys \X (1 .. puts)
    BY <1>4, TopFacts DEF PutOps
  <2>2. Top(t).arg[1] \in Keys /\ Top(t).arg[2] \in 1 .. puts /\ Top(t).arg[2] \in 0 .. env.puts
    BY <1>1, <2>1
  <2>3. [db[q] EXCEPT ![Top(t).arg[1]] = Top(t).arg[2]] \in D
    BY <1>1, <2>1, <2>2
  <2> QED
    BY <1>1, <1>4, <2>1, <2>2, <2>3 DEF Written
<1>5. CASE PutStore(t)
  <2>1. stack[t] # <<>> /\ Top(t).op \in {"Put", "ForwardPut"} /\ Written(t)
    BY <1>5 DEF PutStore, Running, Top
  <2> QED
    BY <1>1, <1>4, <1>5, <2>1 DEF PutStore, Quiet
<1>6. CASE ForwardPut(t)
  <2>1. stack[t] # <<>> /\ Top(t).op \in {"Put", "ForwardPut"} /\ Written(t)
    BY <1>6 DEF ForwardPut, Running, Top
  <2> QED
    BY <1>1, <1>4, <1>6, <2>1 DEF ForwardPut, Quiet, clerkVars
<1>7. CASE MoveDB(t)
  <2>1. Top(t).arg \in D
    BY <1>7, TopFacts DEF MoveDB, Running, Top
  <2> QED
    BY <1>1, <1>7, <2>1 DEF MoveDB, Quiet, clerkVars
<1> QED
  BY <1>2, <1>3, <1>5, <1>6, <1>7 DEF Handle

\* So every step of a handler keeps Core, and the ticks.
LEMMA HandleKeeps == ASSUME PBInv, NEW t \in Threads, Handle(t) PROVE Handled
  BY GetEnterKeeps, GetReadKeeps, PutEnterKeeps, PutStoreKeeps, PutForwardKeeps,
     PutForwardedKeeps, RelayCallKeeps, RelayReturnKeeps, BackupKeeps DEF Handle

\* The views do not change, and the ticks go on as before.
LEMMA ViewsKept ==
    ASSUME ViewsInv, up \subseteq Servers, TicksKept, UNCHANGED <<vsVars, up, pbview>>
    PROVE  ViewsInv' /\ (PrimaryInv => PrimaryInv')
<1>1. ASSUME NEW s \in Servers
      PROVE  /\ Resting(s)' <=> Resting(s)
             /\ ~ Resting(s) => /\ TickFrame(s).arg' = TickFrame(s).arg
                                /\ (TickFrame(s).pc = "start")' <=> TickFrame(s).pc = "start"
  BY DEF TicksKept, BottomKept, Resting, TickFrame
<1>2. VSInv' /\ \A s \in Servers : DistinctRoles(pbview[s])'
  BY SameInv DEF ViewsInv, vsVars, DistinctRoles
<1>3. ViewsInv'
  <2> SUFFICES ASSUME NEW s \in Servers, ~ Resting(s)'
               PROVE  /\ DistinctRoles(TickFrame(s).arg)' /\ (TickFrame(s).arg.Viewnum # 0)'
                      /\ (TickFrame(s).pc # "start" =>
                             pbview[s] = TickFrame(s).arg /\ pbview[s].Primary = s)'
    BY <1>2 DEF ViewsInv
  <2>1. /\ TickFrame(s).arg' = TickFrame(s).arg
        /\ (TickFrame(s).pc = "start")' <=> TickFrame(s).pc = "start"
        /\ ~ Resting(s)
    BY <1>1
  <2> QED
    BY <2>1 DEF ViewsInv, DistinctRoles
<1>4. ASSUME PrimaryInv PROVE PrimaryInv'
  <2> SUFFICES ASSUME NEW s \in up
               PROVE  /\ s \in {newView.Primary, newView.Backup} =>
                            /\ age[s] <= DeadPings
                            /\ (Resting(s) \/ TickFrame(s).pc # "start" => pbview[s].Viewnum # 0)'
                      /\ view.Primary = s => newView.Primary = s
                      /\ pbview[s].Primary = s => view.Primary = s
                      /\ (~ Resting(s) => (pbview[s].Primary = s => TickFrame(s).arg.Primary = s))'
                      /\ (~ Resting(s) => (TickFrame(s).arg.Primary = s => view.Primary = s))'
    BY DEF PrimaryInv, vsVars
  <2> QED
    BY <1>1, <1>4 DEF PrimaryInv, vsVars
<1> QED
  BY <1>3, <1>4

\* What is left to show of the invariant after a step that changes no view.
LEMMA QuietKeeps ==
    ASSUME PBInv, Stepped, TicksKept, UNCHANGED <<vsVars, env, up, pbview, crashes>>,
           locked' \in [Servers -> BOOLEAN],
           connected' = connected,
           db' \in [Servers -> [Keys -> 0 .. env.puts]],
           puts' \in puts .. env.puts, stored \subseteq stored', stored' \subseteq 1 .. puts',
           begun' \in [1 .. puts' -> [key : Keys, after : SUBSET (1 .. puts')]],
           acked' \subseteq 1 .. puts', floor' \in [Keys -> 0 .. env.puts],
           "lostping" \notin env.faults /\ AckedIsStored => AckedIsStored'
    PROVE  PBInv'
<1>1. ViewsInv' /\ (PrimaryInv => PrimaryInv')
  BY ViewsKept DEF PBInv, DataOK
<1>2. FailStop' <=> FailStop
  BY DEF FailStop
<1>3. Core'
  <2>1. MutexInv'
    BY DEF Stepped, MutexInv, MutexOK
  <2>2. FailStop => CallsInv'
    BY DEF Stepped, CallsInv, CallsOK
  <2> QED
    BY <1>2, <2>1, <2>2 DEF Core, Stepped
<1>4. ConnectedInv'
  BY DEF PBInv, ConnectedInv
<1>5. DataOK'
  <2>1. VSTypeOK' /\ env' = env /\ up' = up /\ pbview' = pbview /\ crashes' = crashes
    BY DEF PBInv, DataOK, VSTypeOK, vsVars
  <2>2. puts' \in 0 .. env.puts
    <3>1. puts \in 0 .. env.puts /\ env.puts \in Nat
      BY EnvironmentsAssumption DEF PBInv, DataOK, Environment
    <3> QED
      BY <3>1
  <2> QED
    BY <2>1, <2>2 DEF PBInv, DataOK
<1> QED
  BY <1>1, <1>2, <1>3, <1>4, <1>5 DEF PBInv

\* Every step of a handler keeps the invariant.
LEMMA HandleInv == ASSUME PBInv, NEW t \in Threads, Handle(t) PROVE PBInv'
<1>1. Handled
  BY HandleKeeps
<1>2. /\ Quiet /\ db' \in [Servers -> [Keys -> 0 .. env.puts]]
      /\ locked' \in [Servers -> BOOLEAN]
      /\ stored \subseteq stored' /\ stored' \subseteq 1 .. puts
  BY HandleData
<1>3. /\ puts \in 0 .. env.puts /\ env.puts \in Nat /\ acked \subseteq 1 .. puts /\ floor \in [Keys -> 0 .. env.puts]
      /\ begun \in [1 .. puts -> [key : Keys, after : SUBSET (1 .. puts)]]
  BY EnvironmentsAssumption DEF PBInv, DataOK, Environment
<1>4. puts' \in puts .. env.puts
  BY <1>2, <1>3 DEF Quiet
<1>5. AckedIsStored => AckedIsStored'
  BY <1>2 DEF AckedIsStored, Quiet
<1> QED
  BY <1>1, <1>2, <1>3, <1>4, <1>5, QuietKeeps DEF Handled, Quiet

-----------------------------------------------------------------------------
(* Clerks.                                                                 *)

\* A clerk's own frame is the only one of its kind in the thread.
LEMMA ClerkFrame ==
    ASSUME PBInv, NEW c \in Clerks, stack[Live(c)] # <<>>,
           Top(Live(c)).op \in {"ClerkPut", "ClerkGet"}
    PROVE  Live(c) \in Threads /\ Len(stack[Live(c)]) = 1
<1> DEFINE t == Live(c)
           m == Len(stack[t])
<1>1. t \in Threads
  BY DEF Live, Threads, Owners
<1>2. m \in Nat \ {0} /\ StackOK(t, stack[t], env, puts, stored) /\ Top(t) = stack[t][m]
  BY <1>1, TopFrame DEF PBInv, Core
<1>3. m \in 1 .. m
  BY <1>2
<1>4. m = 1
  BY <1>2, <1>3 DEF StackOK, BottomOK, BottomOps
<1> QED
  BY <1>1, <1>4

\* A clerk is not one of the servers that tick.
LEMMA ClerkTicks ==
    ASSUME NEW c \in Clerks, Others(Live(c))
    PROVE  TicksKept
<1>1. \A s \in Servers : Live(s) \in Threads /\ Live(s) # Live(c)
  BY Constants DEF Live, Threads, Owners
<1> QED
  BY <1>1 DEF Others, TicksKept, BottomKept

\* A Put that begins is noted, with its key and the Puts that had returned.
LEMMA StartPutBegun ==
    ASSUME PBInv, NEW c \in Clerks, StartPut(c)
    PROVE  /\ begun' \in [1 .. puts' -> [key : Keys, after : SUBSET (1 .. puts')]]
           /\ \A v \in 1 .. puts : begun'[v] = begun[v]
           /\ puts' = puts + 1 /\ puts' \notin 1 .. puts /\ Len(begun') = puts'
           /\ \E k \in Keys :
                 /\ begun' = Append(begun, [key |-> k, after |-> acked])
                 /\ begun'[puts'] = [key |-> k, after |-> acked]
                 /\ stack' = [stack EXCEPT ![Live(c)] = << Frame(c, "ClerkPut", <<k, puts'>>) >>]
<1> DEFINE Put == [key : Keys, after : SUBSET (1 .. puts')]
<1>1. /\ puts \in 0 .. env.puts /\ env.puts \in Nat /\ acked \subseteq 1 .. puts
      /\ begun \in [1 .. puts -> [key : Keys, after : SUBSET (1 .. puts)]]
  BY EnvironmentsAssumption DEF PBInv, DataOK, Environment
<1>2. puts' = puts + 1 /\ puts \in Nat /\ 1 .. puts \subseteq 1 .. puts'
  BY <1>1 DEF StartPut
<1>3. PICK k \in Keys :
         /\ begun' = Append(begun, [key |-> k, after |-> acked])
         /\ stack' = [stack EXCEPT ![Live(c)] = << Frame(c, "ClerkPut", <<k, puts'>>) >>]
  BY DEF StartPut
<1>4. [key |-> k, after |-> acked] \in Put
  BY <1>1, <1>2
<1>5. begun \in Seq(Put) /\ Len(begun) = puts
  <2>1. \A v \in 1 .. puts : begun[v] \in Put
    BY <1>1, <1>2
  <2> HIDE DEF Put
  <2>2. begun \in [1 .. puts -> Put]
    BY <1>1, <2>1
  <2> QED
    BY <1>2, <2>2
<1> HIDE DEF Put
<1>6. begun' \in Seq(Put) /\ Len(begun') = puts'
  BY <1>2, <1>3, <1>4, <1>5
<1>7. begun' \in [1 .. puts' -> Put]
  BY <1>6
<1>8. \A v \in 1 .. puts : begun'[v] = begun[v]
  BY <1>2, <1>3, <1>4, <1>5
<1>9. begun'[puts'] = [key |-> k, after |-> acked] /\ puts' \notin 1 .. puts
  BY <1>2, <1>3, <1>4, <1>5
<1> QED
  BY <1>2, <1>3, <1>6, <1>7, <1>8, <1>9 DEF Put

\* A Put begins.
LEMMA StartPutInv == ASSUME PBInv, NEW c \in Clerks, StartPut(c) PROVE PBInv'
<1> DEFINE t == Live(c)
<1>1. PICK k \in Keys : stack' = [stack EXCEPT ![t] = << Frame(c, "ClerkPut", <<k, puts'>>) >>]
  BY DEF StartPut
<1> DEFINE f == Frame(c, "ClerkPut", <<k, puts'>>)
<1>2. /\ puts \in 0 .. env.puts /\ env.puts \in Nat /\ acked \subseteq 1 .. puts /\ stored \subseteq 1 .. puts
      /\ floor \in [Keys -> 0 .. env.puts]
      /\ begun \in [1 .. puts -> [key : Keys, after : SUBSET (1 .. puts)]]
  BY EnvironmentsAssumption DEF PBInv, DataOK, Environment
<1>3. /\ stack[t] = <<>> /\ puts < env.puts /\ puts' = puts + 1
      /\ UNCHANGED <<vsVars, pbVars, stored, acked, floor>>
  BY DEF StartPut
<1>4. /\ puts' \in Nat /\ puts' \in 1 .. puts' /\ puts' \in puts .. env.puts
      /\ 1 .. puts \subseteq 1 .. puts'
  BY <1>2, <1>3
<1>5. Grows
  BY <1>2, <1>3, <1>4 DEF Grows, pbVars
<1>6. FrameOK(f, env', puts', stored')
  <2>1. <<k, puts'>> \in Arg
    BY <1>4 DEF Arg
  <2>2. f \in Frames
    BY <2>1, Constants DEF Frame, Frames, Owners, Ops, Pcs
  <2> QED
    BY <1>4, <2>2 DEF FrameOK, Frame, ArgOK, PlaceOK, PcOK, PutOps, GetOps
<1>7. t \in Threads /\ t[1] = c /\ t[2] = "live"
  BY DEF Live, Threads, Owners
<1>8. f.pc = "start" /\ f.at = c /\ f.op \in BottomOps
  BY DEF Frame, BottomOps
<1> HIDE DEF f, t
<1>9. Stepped /\ Others(t)
  BY <1>1, <1>3, <1>5, <1>6, <1>7, <1>8, NewStep DEF PBInv, pbVars, f
<1>10. TicksKept
  BY <1>9, ClerkTicks DEF t
<1>11. AckedIsStored => AckedIsStored'
  BY <1>3 DEF AckedIsStored
<1>12. db \in [Servers -> [Keys -> 0 .. env.puts]] /\ locked \in [Servers -> BOOLEAN]
  BY DEF PBInv, DataOK, Core
<1>13. begun' \in [1 .. puts' -> [key : Keys, after : SUBSET (1 .. puts')]]
  BY <1>3, StartPutBegun
<1> QED
  BY <1>2, <1>3, <1>4, <1>9, <1>10, <1>11, <1>12, <1>13, QuietKeeps DEF pbVars

\* A Get begins.
LEMMA StartGetInv == ASSUME PBInv, NEW c \in Clerks, StartGet(c) PROVE PBInv'
<1> DEFINE t == Live(c)
<1>1. PICK k \in Keys : stack' = [stack EXCEPT ![t] = << Frame(c, "ClerkGet", <<k, floor[k]>>) >>]
  BY DEF StartGet
<1> DEFINE f == Frame(c, "ClerkGet", <<k, floor[k]>>)
<1>2. /\ puts \in 0 .. env.puts /\ env.puts \in Nat /\ acked \subseteq 1 .. puts /\ stored \subseteq 1 .. puts
      /\ floor \in [Keys -> 0 .. env.puts]
      /\ begun \in [1 .. puts -> [key : Keys, after : SUBSET (1 .. puts)]]
  BY EnvironmentsAssumption DEF PBInv, DataOK, Environment
<1>3. stack[t] = <<>> /\ UNCHANGED <<vsVars, pbVars, clerkVars>>
  BY DEF StartGet
<1>4. Grows
  BY <1>3, QuietGrows DEF Quiet, pbVars, clerkVars
<1>5. FrameOK(f, env', puts', stored')
  <2>1. floor[k] \in 0 .. env.puts /\ floor[k] \in Nat
    BY <1>2
  <2>2. <<k, floor[k]>> \in Arg /\ <<k, floor[k]>> \in Keys \X (0 .. env'.puts)
    BY <1>3, <2>1 DEF Arg, pbVars
  <2>3. f \in Frames
    BY <2>2, Constants DEF Frame, Frames, Owners, Ops, Pcs
  <2> QED
    BY <2>2, <2>3 DEF FrameOK, Frame, ArgOK, PlaceOK, PcOK, PutOps, GetOps
<1>6. t \in Threads /\ t[1] = c /\ t[2] = "live"
  BY DEF Live, Threads, Owners
<1>7. f.pc = "start" /\ f.at = c /\ f.op \in BottomOps
  BY DEF Frame, BottomOps
<1> HIDE DEF f, t
<1>8. Stepped /\ Others(t)
  BY <1>1, <1>3, <1>4, <1>5, <1>6, <1>7, NewStep DEF PBInv, pbVars, f
<1>9. TicksKept
  BY <1>8, ClerkTicks DEF t
<1>10. AckedIsStored => AckedIsStored'
  BY <1>3 DEF AckedIsStored, clerkVars
<1>11. puts' \in puts .. env.puts
  BY <1>2, <1>3 DEF clerkVars
<1>12. db \in [Servers -> [Keys -> 0 .. env.puts]] /\ locked \in [Servers -> BOOLEAN]
  BY DEF PBInv, DataOK, Core
<1> QED
  BY <1>2, <1>3, <1>8, <1>9, <1>10, <1>11, <1>12, QuietKeeps DEF pbVars, clerkVars

\* A clerk calls the primary.
LEMMA ClerkCallInv == ASSUME PBInv, NEW c \in Clerks, ClerkCall(c) PROVE PBInv'
<1> DEFINE t == Live(c)
           f == Top(t)
           p == view.Primary
<1>1. PICK op \in {"Put", "Get"} :
         /\ stack[t] # <<>> /\ f.pc = "start" /\ Call(t, p, op, f.arg)
         /\ op = "Put" => f.op = "ClerkPut"
         /\ op = "Get" => f.op = "ClerkGet"
  BY DEF ClerkCall, Running, Top
<1>2. /\ puts \in 0 .. env.puts /\ env.puts \in Nat /\ acked \subseteq 1 .. puts /\ stored \subseteq 1 .. puts
      /\ floor \in [Keys -> 0 .. env.puts]
      /\ begun \in [1 .. puts -> [key : Keys, after : SUBSET (1 .. puts)]]
  BY EnvironmentsAssumption DEF PBInv, DataOK, Environment
<1>3. p # None /\ UNCHANGED <<vsVars, pbVars, clerkVars>>
  BY DEF ClerkCall
<1>4. Grows
  BY <1>3, QuietGrows DEF Quiet, pbVars, clerkVars
<1>5. t \in Threads /\ p \in Servers
  BY <1>3 DEF Live, Threads, Owners, PBInv, DataOK, VSTypeOK, View
<1>6. /\ f.arg \in Arg
      /\ f.op = "ClerkPut" => f.arg \in Keys \X (1 .. puts)
      /\ f.op = "ClerkGet" => f.arg \in Keys \X (0 .. env.puts)
  BY <1>1, <1>5, TopFacts DEF Frames, PutOps, GetOps
<1>7. FrameOK(Frame(p, op, f.arg), env', puts', stored')
  <2>1. Frame(p, op, f.arg) \in Frames
    BY <1>5, <1>6, Constants DEF Frame, Frames, Owners, Ops, Pcs
  <2> QED
    BY <1>1, <1>3, <1>5, <1>6, <2>1
    DEF FrameOK, Frame, ArgOK, PlaceOK, PcOK, PutOps, GetOps, pbVars, clerkVars
<1>8. /\ Calls(f, op, f.arg) /\ op \notin BottomOps
      /\ PcOK(f, "wait", NoRes, env', stored') /\ PcOK(f, "ret", Fail, env', stored')
  BY <1>1 DEF Calls, PcOK, MayGet, BottomOps
<1>9. LockStep(t, HoldsAt(f.op, "wait"))
  BY <1>1, <1>3 DEF LockStep, HoldsAt, HoldsLock, pbVars
<1>10. Stepped /\ TicksKept
  BY <1>1, <1>3, <1>4, <1>5, <1>7, <1>8, <1>9, CallStep DEF PBInv, pbVars
<1>11. AckedIsStored => AckedIsStored'
  BY <1>3 DEF AckedIsStored, clerkVars
<1>12. puts' \in puts .. env.puts
  BY <1>2, <1>3 DEF clerkVars
<1>13. db \in [Servers -> [Keys -> 0 .. env.puts]] /\ locked \in [Servers -> BOOLEAN]
  BY DEF PBInv, DataOK, Core
<1> QED
  BY <1>2, <1>3, <1>10, <1>11, <1>12, <1>13, QuietKeeps DEF pbVars, clerkVars

\* A clerk's operation is tried again, or ends with what its call had.
LEMMA ClerkReturnKeeps ==
    ASSUME PBInv, NEW c \in Clerks, stack[Live(c)] # <<>>,
           Top(Live(c)).op \in {"ClerkPut", "ClerkGet"}, Top(Live(c)).pc = "ret",
           Goto(Live(c), "start") \/ Return(Live(c), OK),
           UNCHANGED <<vsVars, pbVars, puts, stored>>
    PROVE  Stepped /\ TicksKept
<1> DEFINE t == Live(c)
<1>1. t \in Threads /\ Len(stack[t]) = 1
  BY ClerkFrame
<1>2. Grows
  <2>1. puts \in Nat
    BY EnvironmentsAssumption DEF PBInv, DataOK, Environment
  <2> QED
    BY <2>1 DEF Grows, pbVars
<1>3. CASE Goto(t, "start")
  <2>1. LockStep(t, HoldsAt(Top(t).op, "start")) /\ PcOK(Top(t), "start", NoRes, env', stored')
    BY DEF LockStep, HoldsAt, HoldsLock, PcOK, pbVars
  <2> QED
    BY <1>1, <1>2, <1>3, <2>1, GotoStep, Constants DEF Goto, Pcs, PBInv, pbVars
<1>4. CASE Return(t, OK)
  <2>1. LockStep(t, FALSE)
    BY DEF LockStep, HoldsLock, pbVars
  <2> QED
    BY <1>1, <1>2, <1>4, <2>1, ReturnStep, Constants DEF PBInv, pbVars
<1> QED
  BY <1>3, <1>4

\* What a clerk knows is the number of a Put.
LEMMA KnownType ==
    ASSUME floor \in [Keys -> 0 .. env.puts], env.puts \in Nat,
           NEW k \in Keys, NEW v \in 0 .. env.puts, Known(k, v)
    PROVE  floor' \in [Keys -> 0 .. env.puts]
<1>1. (IF v > floor[k] THEN v ELSE floor[k]) \in 0 .. env.puts
  OBVIOUS
<1> QED
  BY <1>1 DEF Known

\* A clerk's Put tries again, or returns: then it is stored, or was refused.
LEMMA ClerkPutReturnInv == ASSUME PBInv, NEW c \in Clerks, ClerkPutReturn(c) PROVE PBInv'
<1> DEFINE t == Live(c)
           f == Top(t)
<1>1. /\ stack[t] # <<>> /\ f.op = "ClerkPut" /\ f.pc = "ret"
      /\ Goto(t, "start") \/ Return(t, OK)
      /\ UNCHANGED <<vsVars, pbVars, puts, begun, stored>>
  BY DEF ClerkPutReturn, Running, Top
<1>2. /\ puts \in 0 .. env.puts /\ env.puts \in Nat /\ acked \subseteq 1 .. puts /\ stored \subseteq 1 .. puts
      /\ floor \in [Keys -> 0 .. env.puts]
      /\ begun \in [1 .. puts -> [key : Keys, after : SUBSET (1 .. puts)]]
  BY EnvironmentsAssumption DEF PBInv, DataOK, Environment
<1>3. Stepped /\ TicksKept
  BY <1>1, ClerkReturnKeeps
<1>4. t \in Threads
  BY <1>1, ClerkFrame
<1>5. f.arg \in Keys \X (1 .. puts) /\ MayGet(f, f.res, env, stored)
  BY <1>1, <1>4, TopFacts DEF PutOps
<1>6. \/ UNCHANGED <<acked, floor>>
      \/ f.res.err # "fail" /\ acked' = acked \cup {f.arg[2]} /\ Known(f.arg[1], f.arg[2])
  BY DEF ClerkPutReturn
<1>7. acked' \subseteq 1 .. puts /\ floor' \in [Keys -> 0 .. env.puts]
  <2>1. f.arg[1] \in Keys /\ f.arg[2] \in 1 .. puts /\ f.arg[2] \in 0 .. env.puts
    BY <1>2, <1>5
  <2> QED
    BY <1>2, <1>6, <2>1, KnownType
<1>8. "lostping" \notin env.faults /\ AckedIsStored => AckedIsStored'
  <2>1. f.res.err # "fail" /\ "lostping" \notin env.faults => f.arg[2] \in stored
    BY <1>1, <1>5 DEF MayGet, PutOps, Fail, OK
  <2> QED
    BY <1>1, <1>6, <2>1 DEF AckedIsStored
<1>9. puts' \in puts .. env.puts
  BY <1>1, <1>2
<1>10. db \in [Servers -> [Keys -> 0 .. env.puts]] /\ locked \in [Servers -> BOOLEAN]
  BY DEF PBInv, DataOK, Core
<1> QED
  BY <1>1, <1>2, <1>3, <1>7, <1>8, <1>9, <1>10, QuietKeeps DEF pbVars

\* A clerk's Get tries again, or returns a value.
LEMMA ClerkGetReturnInv == ASSUME PBInv, NEW c \in Clerks, ClerkGetReturn(c) PROVE PBInv'
<1> DEFINE t == Live(c)
           f == Top(t)
<1>1. /\ stack[t] # <<>> /\ f.op = "ClerkGet" /\ f.pc = "ret"
      /\ Goto(t, "start") \/ Return(t, OK)
      /\ UNCHANGED <<vsVars, pbVars, puts, begun, stored, acked>>
  BY DEF ClerkGetReturn, Running, Top
<1>2. /\ puts \in 0 .. env.puts /\ env.puts \in Nat /\ acked \subseteq 1 .. puts /\ stored \subseteq 1 .. puts
      /\ floor \in [Keys -> 0 .. env.puts]
      /\ begun \in [1 .. puts -> [key : Keys, after : SUBSET (1 .. puts)]]
  BY EnvironmentsAssumption DEF PBInv, DataOK, Environment
<1>3. Stepped /\ TicksKept
  BY <1>1, ClerkReturnKeeps
<1>4. t \in Threads
  BY <1>1, ClerkFrame
<1>5. f.arg \in Keys \X (0 .. env.puts) /\ MayGet(f, f.res, env, stored)
  BY <1>1, <1>4, TopFacts DEF GetOps
<1>6. floor' = floor \/ (f.res.err = "OK" /\ Known(f.arg[1], f.res.val))
  BY DEF ClerkGetReturn
<1>7. floor' \in [Keys -> 0 .. env.puts]
  <2>1. f.arg[1] \in Keys
    BY <1>5
  <2>2. f.res.err = "OK" => f.res.val \in 0 .. env.puts
    BY <1>1, <1>5 DEF MayGet, PutOps, Fail, WrongServer, NoKey
  <2> QED
    BY <1>2, <1>6, <2>1, <2>2, KnownType
<1>8. AckedIsStored => AckedIsStored'
  BY <1>1 DEF AckedIsStored
<1>9. puts' \in puts .. env.puts
  BY <1>1, <1>2
<1>10. db \in [Servers -> [Keys -> 0 .. env.puts]] /\ locked \in [Servers -> BOOLEAN]
  BY DEF PBInv, DataOK, Core
<1> QED
  BY <1>1, <1>2, <1>3, <1>7, <1>8, <1>9, <1>10, QuietKeeps DEF pbVars

-----------------------------------------------------------------------------
(* Ticks.                                                                  *)

\* What is left to show of the invariant after a step that no clerk notices.
LEMMA ServiceKeeps ==
    ASSUME PBInv, UNCHANGED <<env, clerkVars>>,
           StacksInv', PlacesInv', MutexOK(stack', locked'), FailStop => CallsInv',
           VSTypeOK', ViewsInv', FailStop => PrimaryInv',
           up' \subseteq Servers, pbview' \in [Servers -> View],
           connected' \in [Servers -> BOOLEAN], locked' \in [Servers -> BOOLEAN],
           db' \in [Servers -> [Keys -> 0 .. env.puts]], crashes' \in 0 .. env.crashes,
           "lostping" \in env.faults \/ \A s \in Servers : connected[s] => connected'[s]
    PROVE  PBInv'
<1>1. FailStop' <=> FailStop
  BY DEF FailStop
<1>2. Core'
  <2>1. MutexInv'
    BY DEF MutexInv, MutexOK
  <2> QED
    BY <1>1, <2>1 DEF Core
<1>3. ConnectedInv'
  BY DEF PBInv, ConnectedInv, AckedIsStored, clerkVars
<1>4. DataOK'
  BY DEF PBInv, DataOK, clerkVars
<1> QED
  BY <1>1, <1>2, <1>3, <1>4 DEF PBInv

\* The data that ticks leave alone.
LEMMA ServiceData ==
    ASSUME PBInv
    PROVE  /\ VSTypeOK /\ up \subseteq Servers /\ pbview \in [Servers -> View]
           /\ connected \in [Servers -> BOOLEAN] /\ locked \in [Servers -> BOOLEAN]
           /\ db \in [Servers -> [Keys -> 0 .. env.puts]] /\ crashes \in 0 .. env.crashes
           /\ env.puts \in Nat /\ env.crashes \in Nat /\ puts \in Nat
           /\ stack \in [Threads -> Seq(Frames)]
<1>1. env.puts \in Nat /\ env.crashes \in Nat
  BY EnvironmentsAssumption DEF PBInv, DataOK, Environment
<1>2. puts \in 0 .. env.puts
  BY DEF PBInv, DataOK
<1> QED
  BY <1>1, <1>2 DEF PBInv, DataOK, Core, StacksInv

\* Ticks and faults leave Puts alone.
LEMMA NoClerkGrows == ASSUME PBInv, UNCHANGED <<env, clerkVars>> PROVE Grows
  BY ServiceData DEF Grows, clerkVars

\* A server ticks in its own thread, while it runs.
LEMMA TickThread ==
    ASSUME PBInv, NEW s \in Servers
    PROVE  LET t == Live(s)
           IN  /\ t \in Threads /\ t[1] = s /\ t[2] = "live"
               /\ stack[t] # <<>> =>
                     /\ s \in up /\ TickFrame(s).at = s
                     /\ Top(t).op = "Tick" =>
                           Len(stack[t]) = 1 /\ Top(t) = TickFrame(s) /\ Top(t).arg \in View
<1> DEFINE t == Live(s)
           m == Len(stack[t])
<1>1. t \in Threads /\ t[1] = s /\ t[2] = "live"
  BY DEF Live, Threads, Owners
<1>2. ASSUME stack[t] # <<>>
      PROVE  /\ s \in up /\ TickFrame(s).at = s
             /\ Top(t).op = "Tick" => m = 1 /\ Top(t) = TickFrame(s) /\ Top(t).arg \in View
  <2>1. m \in Nat \ {0} /\ StackOK(t, stack[t], env, puts, stored) /\ Top(t) = stack[t][m]
    BY <1>1, <1>2, TopFrame DEF PBInv, Core
  <2>2. 1 \in 1 .. m /\ m \in 1 .. m
    BY <2>1
  <2>3. stack[t][1].at = s /\ s \in up
    BY <1>1, <1>2, <2>1, <2>2, Constants DEF StackOK, BottomOK, PBInv, Core, PlacesInv
  <2>4. Top(t).op = "Tick" => m = 1 /\ Top(t).arg \in View
    BY <1>1, <1>2, <2>1, <2>2, TopFacts DEF StackOK, BottomOK, BottomOps
  <2> QED
    BY <2>1, <2>3, <2>4 DEF TickFrame
<1> QED
  BY <1>1, <1>2

\* The other servers tick in threads of their own.
LEMMA OtherTicks ==
    ASSUME PBInv, NEW s \in Servers, Others(Live(s)), NEW q \in Servers, q # s
    PROVE  stack'[Live(q)] = stack[Live(q)]
<1>1. Live(q) \in Threads /\ Live(q) # Live(s)
  BY DEF Live, Threads, Owners
<1> QED
  BY <1>1 DEF Others

\* A ping gives a role to no one but the server that pings; of the servers Q, a
\* primary in both views keeps its role, if it does not ping with 0.
LEMMA PingRoles ==
    ASSUME VSTypeOK, VSInv, NEW s \in Servers, NEW n \in Nat, PingAccepted(s, n),
           NEW Q \in SUBSET Servers,
           \A q \in Q : view.Primary = q => newView.Primary = q,
           view.Primary = s => n # 0
    PROVE  /\ \A q \in Servers : q \in {newView'.Primary, newView'.Backup} =>
                 q = s \/ q \in {newView.Primary, newView.Backup}
           /\ \A q \in Q : view.Primary = q => view'.Primary = q
           /\ \A q \in Q : view'.Primary = q => newView'.Primary = q
           /\ age' = [age EXCEPT ![s] = 0]
<1> DEFINE w == WithoutRestarted(s, n)
           p == Prepared(s, n)
<1>1. newView \in View /\ view \in View /\ None \notin Servers
  BY Constants DEF VSTypeOK
<1>2. w = newView \/ w = [newView EXCEPT !.Primary = None]
  BY DEF WithoutRestarted
<1>3. \A q \in Servers : q \in {w.Primary, w.Backup} => q \in {newView.Primary, newView.Backup}
  BY <1>1, <1>2 DEF View
<1>4. \A q \in Q : view.Primary = q => w.Primary = q
  BY <1>1 DEF WithoutRestarted
<1>5. w \in View
  BY <1>1, <1>2 DEF View
<1> HIDE DEF w
<1>6. /\ \A q \in Servers : q \in {p.Primary, p.Backup} => q = s \/ q \in {w.Primary, w.Backup}
      /\ \A q \in Servers : w.Primary = q => p.Primary = q
      /\ p \in View
  BY <1>1, <1>5, ReassignFacts DEF Prepared, Reassign, View, w
<1> HIDE DEF p
<1>7. age' = [age EXCEPT ![s] = 0]
  BY DEF PingAccepted, PingFirst, PingAdopt, PingKeep, Touch
<1>8. CASE PingFirst(s, n)
  <2>1. newView = NoView /\ view = NoView
    BY <1>1, <1>8 DEF PingFirst, VSInv, FreshView
  <2>2. newView' = [Viewnum |-> 1, Primary |-> s, Backup |-> None] /\ view' = newView'
    BY <1>8, <2>1 DEF PingFirst, NoView
  <2> QED
    BY <1>1, <1>7, <2>1, <2>2 DEF NoView
<1>9. CASE PingAdopt(s, n)
  <2>1. newView' = Renumbered(p, view.Viewnum + 1) /\ view' = newView'
    BY <1>9 DEF PingAdopt, p
  <2>2. /\ newView'.Primary = p.Primary /\ newView'.Backup = p.Backup
        /\ newView'.Viewnum = view.Viewnum + 1 /\ view.Viewnum \in Nat
    BY <1>1, <2>1 DEF Renumbered, View
  <2> QED
    BY <1>3, <1>4, <1>6, <1>7, <2>1, <2>2
<1>10. CASE PingKeep(s, n)
  <2>1. newView' = p /\ view' = view /\ view.Viewnum # 0
    BY <1>10 DEF PingKeep, p
  <2> QED
    BY <1>3, <1>4, <1>6, <1>7, <2>1
<1> QED
  BY <1>8, <1>9, <1>10 DEF PingAccepted

\* The view that a ping replies is numbered.
LEMMA PingNumber ==
    ASSUME VSTypeOK, VSInv, NEW s \in Servers, NEW n \in Nat, PingAccepted(s, n)
    PROVE  view'.Viewnum # 0
<1>1. view.Viewnum \in Nat
  BY DEF VSTypeOK, View
<1>2. CASE PingFirst(s, n)
  <2>1. newView' = [Viewnum |-> 1, Primary |-> s, Backup |-> None] /\ view' = newView'
    BY <1>2 DEF PingFirst, VSInv, FreshView, NoView
  <2> QED
    BY <2>1
<1>3. CASE PingAdopt(s, n) \/ PingKeep(s, n)
  BY <1>1, <1>3 DEF PingAdopt, PingKeep, Renumbered
<1> QED
  BY <1>2, <1>3 DEF PingAccepted

\* A ping, accepted: the server is about to adopt the view served, and one
\* that was the primary still is.
LEMMA TickPingInv == ASSUME PBInv, NEW s \in Servers, TickPing(s) PROVE PBInv'
<1> DEFINE t == Live(s)
           n == pbview[s].Viewnum
           f == Frame(s, "Tick", view')
<1>1. /\ s \in up /\ stack[t] = <<>> /\ PingAccepted(s, n)
      /\ stack' = [stack EXCEPT ![t] = << f >>]
      /\ UNCHANGED <<pbVars, clerkVars>>
  BY DEF TickPing
<1>2. VSTypeOK /\ VSInv /\ n \in Nat /\ pbview \in [Servers -> View] /\ None \notin Servers
  BY ServiceData, Constants DEF PBInv, ViewsInv, View
<1>3. VSTypeOK' /\ VSInv'
  BY <1>1, <1>2, PingType, PingInv
<1>4. t \in Threads /\ t[1] = s /\ t[2] = "live"
  BY TickThread
<1>5. Stepped /\ stack'[t] = << f >> /\ Others(t)
  <2>1. f \in Frames
    BY <1>3, Constants DEF VSTypeOK, Frame, Frames, Owners, Ops, Pcs, Arg
  <2>2. FrameOK(f, env', puts', stored')
    BY <1>3, <2>1 DEF VSTypeOK, FrameOK, Frame, ArgOK, PlaceOK, PcOK, PutOps, GetOps
  <2>3. f.pc = "start" /\ f.at = s /\ f.op \in BottomOps
    BY DEF Frame, BottomOps
  <2>4. Grows
    BY <1>1, NoClerkGrows DEF pbVars
  <2> HIDE DEF f
  <2> QED
    BY <1>1, <1>4, <2>2, <2>3, <2>4, NewStep DEF PBInv, pbVars
<1>6. f.arg = view' /\ f.pc = "start" /\ <<f>>[1] = f /\ <<f>> # <<>>
  BY DEF Frame
<1> HIDE DEF f, n
<1>7. /\ Resting(s) /\ ~ Resting(s)' /\ TickFrame(s)' = f
      /\ \A q \in Servers : q # s => /\ Resting(q)' <=> Resting(q)
                                     /\ TickFrame(q)' = TickFrame(q)
  BY <1>1, <1>5, <1>6, OtherTicks DEF Resting, TickFrame
<1>8. ViewsInv'
  <2>1. view'.Viewnum # 0
    BY <1>1, <1>2, PingNumber
  <2>2. DistinctRoles(view')
    BY <1>3 DEF VSInv, RolesDistinct, DistinctRoles
  <2>3. \A q \in Servers : DistinctRoles(pbview[q]) /\ pbview'[q] = pbview[q]
    BY <1>1 DEF PBInv, ViewsInv, pbVars
  <2> SUFFICES ASSUME NEW q \in Servers, ~ Resting(q)'
               PROVE  /\ DistinctRoles(TickFrame(q).arg)' /\ (TickFrame(q).arg.Viewnum # 0)'
                      /\ (TickFrame(q).pc # "start" =>
                             pbview[q] = TickFrame(q).arg /\ pbview[q].Primary = q)'
    BY <1>3, <2>3 DEF ViewsInv, DistinctRoles
  <2>4. CASE q = s
    BY <1>6, <1>7, <2>1, <2>2, <2>4 DEF DistinctRoles
  <2>5. CASE q # s
    BY <1>7, <2>3, <2>5 DEF PBInv, ViewsInv, DistinctRoles
  <2> QED
    BY <2>4, <2>5
<1>9. ASSUME FailStop PROVE PrimaryInv'
  <2>1. PrimaryInv /\ up \subseteq Servers /\ up' = up /\ pbview' = pbview
    BY <1>1, <1>9, ServiceData DEF PBInv, pbVars
  <2>2. (\A q \in up : view.Primary = q => newView.Primary = q) /\ (view.Primary = s => n # 0)
    BY <1>1, <1>7, <2>1 DEF PrimaryInv, n
  <2>3. /\ \A q \in Servers : q \in {newView'.Primary, newView'.Backup} =>
              q = s \/ q \in {newView.Primary, newView.Backup}
        /\ \A q \in up : view.Primary = q => view'.Primary = q
        /\ \A q \in up : view'.Primary = q => newView'.Primary = q
        /\ age' = [age EXCEPT ![s] = 0]
    BY <1>1, <1>2, <2>1, <2>2, PingRoles
  <2>4. age'[s] = 0 /\ 0 <= DeadPings /\ \A q \in Servers : q # s => age'[q] = age[q]
    BY <1>2, <2>3, DeadPingsAssumption DEF VSTypeOK
  <2> SUFFICES ASSUME NEW q \in up
               PROVE  /\ q \in {newView'.Primary, newView'.Backup} =>
                            /\ age'[q] <= DeadPings
                            /\ (Resting(q) \/ TickFrame(q).pc # "start")' => pbview[q].Viewnum # 0
                      /\ view'.Primary = q => newView'.Primary = q
                      /\ pbview[q].Primary = q => view'.Primary = q
                      /\ ~ Resting(q)' => (pbview[q].Primary = q => TickFrame(q)'.arg.Primary = q)
                      /\ ~ Resting(q)' => (TickFrame(q)'.arg.Primary = q => view'.Primary = q)
    BY <2>1 DEF PrimaryInv
  <2>5. q \in Servers
    BY <2>1
  <2>6. pbview[q].Primary = q => view'.Primary = q
    BY <2>1, <2>3 DEF PrimaryInv
  <2>7. CASE q = s
    BY <1>6, <1>7, <2>3, <2>4, <2>6, <2>7
  <2>8. CASE q # s
    <3>1. /\ Resting(q)' <=> Resting(q)
          /\ TickFrame(q)' = TickFrame(q)
          /\ age'[q] = age[q]
      BY <1>7, <2>4, <2>5, <2>8
    <3>2. q \in {newView'.Primary, newView'.Backup} => q \in {newView.Primary, newView.Backup}
      BY <2>3, <2>5, <2>8
    <3> QED
      BY <2>1, <2>3, <2>6, <3>1, <3>2 DEF PrimaryInv
  <2> QED
    BY <2>7, <2>8
<1> QED
  <2>1. FailStop => CallsInv'
    BY <1>1, <1>5 DEF Stepped, CallsInv, CallsOK, pbVars
  <2> QED
    BY <1>1, <1>3, <1>5, <1>8, <1>9, <2>1, ServiceKeeps, ServiceData DEF Stepped, pbVars

\* A ping that fails only loses the connection; then pings are being lost.
LEMMA TickPingFailsInv == ASSUME PBInv, NEW s \in Servers, TickPingFails(s) PROVE PBInv'
<1> DEFINE t == Live(s)
<1>1. /\ "lostping" \in env.faults
      /\ stack[t] = <<>> \/ (stack[t] # <<>> /\ Top(t).op = "Tick" /\ Top(t).pc = "start")
      /\ connected' = [connected EXCEPT ![s] = FALSE]
      /\ stack' = [stack EXCEPT ![t] = <<>>]
      /\ UNCHANGED <<vsVars, env, up, pbview, db, locked, crashes, clerkVars>>
  BY DEF TickPingFails, Running, Top
<1>2. t \in Threads
  BY TickThread
<1>3. \A q \in Servers, i \in Nat : ~ Keeps(stack[t], q, i)
  <2>1. CASE stack[t] = <<>>
    <3>1. Len(stack[t]) = 0
      BY <2>1
    <3> QED
      BY <3>1 DEF Keeps
  <2>2. CASE stack[t] # <<>> /\ Top(t).op = "Tick" /\ Top(t).pc = "start"
    <3>1. Len(stack[t]) = 1 /\ Top(t) = stack[t][1]
      BY <2>2, TickThread DEF TickFrame
    <3>2. \A i \in 1 .. 1 : i = 1
      OBVIOUS
    <3> QED
      BY <2>2, <3>1, <3>2 DEF Keeps, HoldsLock
  <2> QED
    BY <1>1, <2>1, <2>2
<1>4. Stepped /\ stack'[t] = <<>> /\ Others(t)
  <2>1. Grows
    BY <1>1, NoClerkGrows
  <2> QED
    BY <1>1, <1>2, <1>3, <2>1, GoneStep DEF PBInv
<1>5. ViewsInv'
  <2>1. \A q \in Servers : ~ Resting(q)' => ~ Resting(q) /\ TickFrame(q)' = TickFrame(q)
    BY <1>4, OtherTicks DEF Resting, TickFrame
  <2>2. VSInv' /\ \A q \in Servers : DistinctRoles(pbview[q]) /\ pbview'[q] = pbview[q]
    BY <1>1, SameInv DEF PBInv, ViewsInv, vsVars
  <2> QED
    BY <2>1, <2>2 DEF PBInv, ViewsInv, DistinctRoles
<1>6. ~ FailStop
  BY <1>1 DEF FailStop
<1>7. VSTypeOK'
  BY <1>1, ServiceData DEF vsVars, VSTypeOK
<1>8. connected' \in [Servers -> BOOLEAN]
  BY <1>1, ServiceData
<1> QED
  BY <1>1, <1>4, <1>5, <1>6, <1>7, <1>8, ServiceKeeps, ServiceData DEF Stepped

\* A tick that installs a view ends, or goes on to fill the new backup.
LEMMA TickViewStep ==
    ASSUME PBInv, NEW s \in Servers, TickView(s)
    PROVE  LET t == Live(s)
               v == TickFrame(s).arg
               fills == v.Primary = s /\ v.Backup \notin {pbview[s].Backup, None}
           IN  /\ t \in Threads /\ s \in up /\ ~ Resting(s) /\ TickFrame(s).pc = "start"
               /\ v \in View /\ pbview' = [pbview EXCEPT ![s] = v]
               /\ connected' = [connected EXCEPT ![s] = TRUE]
               /\ UNCHANGED <<vsVars, env, up, db, locked, crashes, clerkVars>>
               /\ Stepped /\ Others(t) /\ Len(stack[t]) = 1 /\ Top(t) = TickFrame(s)
               /\ \/ ~ fills /\ stack'[t] = <<>>
                  \/ fills /\ Len(stack'[t]) = 1 /\ Like(stack'[t][1], stack[t][1], "lock", NoRes)
<1> DEFINE t == Live(s)
           v == Top(t).arg
           fills == v.Primary = s /\ v.Backup \notin {pbview[s].Backup, None}
<1>1. /\ stack[t] # <<>> /\ Top(t).op = "Tick" /\ Top(t).pc = "start"
      /\ pbview' = [pbview EXCEPT ![s] = v]
      /\ connected' = [connected EXCEPT ![s] = TRUE]
      /\ (fills /\ Goto(t, "lock")) \/ (~ fills /\ Return(t, OK))
      /\ UNCHANGED <<vsVars, env, up, db, locked, crashes, clerkVars>>
  BY DEF TickView, Running, Top
<1>2. /\ t \in Threads /\ s \in up /\ TickFrame(s).at = s
      /\ Len(stack[t]) = 1 /\ Top(t) = TickFrame(s) /\ v \in View
  BY <1>1, TickThread
<1>3. Core /\ Grows
  BY <1>1, NoClerkGrows DEF PBInv
<1> HIDE DEF fills
<1>4. /\ Stepped /\ Others(t)
      /\ \/ ~ fills /\ stack'[t] = <<>>
         \/ fills /\ Len(stack'[t]) = 1 /\ Like(stack'[t][1], stack[t][1], "lock", NoRes)
  <2>1. CASE fills /\ Goto(t, "lock")
    <3>1. LockStep(t, HoldsAt(Top(t).op, "lock")) /\ PcOK(Top(t), "lock", NoRes, env', stored')
      BY <1>1 DEF LockStep, HoldsAt, HoldsLock, PcOK
    <3>2. Stepped /\ Others(t) /\ Moved(stack'[t], stack[t], "lock", NoRes)
      BY <1>1, <1>2, <1>3, <2>1, <3>1, GotoStep, Constants DEF Goto, Pcs
    <3>3. Like(stack'[t][1], stack[t][1], "lock", NoRes) /\ Len(stack'[t]) = 1
      BY <1>2, <3>2 DEF Moved
    <3> QED
      BY <2>1, <3>2, <3>3
  <2>2. CASE ~ fills /\ Return(t, OK)
    <3>1. LockStep(t, FALSE)
      BY <1>1 DEF LockStep, HoldsLock
    <3>2. Stepped /\ Others(t) /\ Ended(stack'[t], stack[t], OK)
      BY <1>1, <1>2, <1>3, <2>2, <3>1, ReturnStep, Constants
    <3> QED
      BY <1>2, <2>2, <3>2 DEF Ended
  <2> QED
    BY <1>1, <2>1, <2>2
<1> QED
  BY <1>1, <1>2, <1>4 DEF Resting, fills

\* The view is adopted: the server was not the primary, or stays it.
LEMMA TickViewInv == ASSUME PBInv, NEW s \in Servers, TickView(s) PROVE PBInv'
<1> DEFINE t == Live(s)
           v == TickFrame(s).arg
<1>1. /\ t \in Threads /\ s \in up /\ ~ Resting(s) /\ TickFrame(s).pc = "start"
      /\ v \in View /\ pbview' = [pbview EXCEPT ![s] = v]
      /\ connected' = [connected EXCEPT ![s] = TRUE]
      /\ UNCHANGED <<vsVars, env, up, db, locked, crashes, clerkVars>>
  BY TickViewStep
<1>2. /\ Stepped /\ Others(t)
      /\ \/ stack'[t] = <<>>
         \/ v.Primary = s /\ stack'[t] # <<>> /\ Like(stack'[t][1], stack[t][1], "lock", NoRes)
  <2>1. Len(<<>>) = 0
    OBVIOUS
  <2> QED
    BY <2>1, TickViewStep
<1>3. DistinctRoles(v) /\ v.Viewnum # 0
  BY <1>1 DEF PBInv, ViewsInv
<1>4. /\ pbview'[s] = v
      /\ \A q \in Servers : q # s => /\ pbview'[q] = pbview[q]
                                     /\ Resting(q)' <=> Resting(q)
                                     /\ TickFrame(q)' = TickFrame(q)
      /\ ~ Resting(s)' => /\ v.Primary = s /\ TickFrame(s)'.arg = v /\ TickFrame(s)'.pc = "lock"
  <2>1. pbview \in [Servers -> View]
    BY ServiceData
  <2>2. ~ Resting(s)' => v.Primary = s /\ TickFrame(s)'.arg = v /\ TickFrame(s)'.pc = "lock"
    BY <1>2 DEF Resting, TickFrame, Like
  <2> QED
    BY <1>1, <1>2, <2>1, <2>2, OtherTicks DEF Resting, TickFrame
<1> HIDE DEF v
<1>5. ViewsInv'
  <2>1. VSInv'
    BY <1>1, SameInv DEF PBInv, ViewsInv, vsVars
  <2> SUFFICES ASSUME NEW q \in Servers
               PROVE  /\ DistinctRoles(pbview'[q])
                      /\ ~ Resting(q)' =>
                            /\ DistinctRoles(TickFrame(q)'.arg) /\ TickFrame(q)'.arg.Viewnum # 0
                            /\ TickFrame(q)'.pc # "start" =>
                                  pbview'[q] = TickFrame(q)'.arg /\ pbview'[q].Primary = q
    BY <2>1 DEF ViewsInv, DistinctRoles
  <2>2. CASE q = s
    BY <1>3, <1>4, <2>2
  <2>3. CASE q # s
    BY <1>4, <2>3 DEF PBInv, ViewsInv
  <2> QED
    BY <2>2, <2>3
<1>6. ASSUME FailStop PROVE PrimaryInv' /\ (pbview[s].Primary = s => v.Primary = s)
  <2>1. PrimaryInv /\ up \subseteq Servers /\ ~ Resting(s)
    BY <1>1, <1>6, ServiceData DEF PBInv, Resting
  <2>2. (v.Primary = s => view.Primary = s) /\ (pbview[s].Primary = s => v.Primary = s)
    BY <1>1, <2>1 DEF PrimaryInv, v
  <2>3. UNCHANGED <<view, newView, age, up>>
    BY <1>1 DEF vsVars
  <2> SUFFICES ASSUME NEW q \in up
               PROVE  /\ q \in {newView.Primary, newView.Backup} =>
                            /\ age[q] <= DeadPings
                            /\ (Resting(q) \/ TickFrame(q).pc # "start")' => pbview'[q].Viewnum # 0
                      /\ view.Primary = q => newView.Primary = q
                      /\ pbview'[q].Primary = q => view.Primary = q
                      /\ ~ Resting(q)' => (pbview'[q].Primary = q => TickFrame(q)'.arg.Primary = q)
                      /\ ~ Resting(q)' => (TickFrame(q)'.arg.Primary = q => view.Primary = q)
    BY <2>2, <2>3 DEF PrimaryInv
  <2>4. CASE q = s
    BY <1>3, <1>4, <2>1, <2>2, <2>4 DEF PrimaryInv
  <2>5. CASE q # s
    BY <1>4, <2>1, <2>5 DEF PrimaryInv
  <2> QED
    BY <2>4, <2>5
<1>7. ASSUME FailStop PROVE CallsInv'
  <2> SUFFICES ASSUME NEW u \in Threads, NEW i \in 1 .. Len(stack'[u])
               PROVE  LET f == stack'[u][i]
                      IN  /\ f.op = "Put" /\ f.pc # "start" => pbview'[f.at].Primary = f.at
                          /\ f.op \in {"Put", "Tick"} /\ i # Len(stack'[u]) => stack'[u][i + 1].at # f.at
    BY DEF CallsInv, CallsOK
  <2> DEFINE f == stack'[u][i]
  <2>1. /\ f.op = "Put" /\ f.pc # "start" => pbview[f.at].Primary = f.at
        /\ f.op \in {"Put", "Tick"} /\ i # Len(stack'[u]) => stack'[u][i + 1].at # f.at
    BY <1>2, <1>7 DEF Stepped, CallsOK
  <2>2. f.op = "Put" => f.at \in Servers
    BY <1>2 DEF Stepped, StacksInv, StackOK, FramesOK, FrameOK, PlaceOK
  <2>3. \A q \in Servers : pbview[q].Primary = q => pbview'[q].Primary = q
    BY <1>4, <1>6, <1>7
  <2> QED
    BY <2>1, <2>2, <2>3
<1>8. /\ VSTypeOK' /\ pbview' \in [Servers -> View] /\ connected' \in [Servers -> BOOLEAN]
      /\ \A q \in Servers : connected[q] => connected'[q]
  BY <1>1, ServiceData DEF vsVars, VSTypeOK, v
<1> QED
  BY <1>1, <1>2, <1>5, <1>6, <1>7, <1>8, ServiceKeeps, ServiceData DEF Stepped

\* The primary takes its mutex and sends its database to another server.
LEMMA TickMoveStep ==
    ASSUME PBInv, NEW s \in Servers, TickMove(s)
    PROVE  LET t == Live(s)
               b == pbview[s].Backup
               g == Frame(b, "MoveDB", db[s])
           IN  /\ t \in Threads /\ s \in up /\ ~ Resting(s) /\ TickFrame(s).pc = "lock"
               /\ ~ locked[s] /\ locked' = [locked EXCEPT ![s] = TRUE]
               /\ Call(t, b, "MoveDB", db[s])
               /\ UNCHANGED <<vsVars, env, up, pbview, connected, db, crashes, clerkVars>>
               /\ Stepped /\ (Called(stack'[t], stack[t], g) \/ Failed(t)) /\ OthersOr(t, g)
               /\ TicksKept /\ b # s /\ Len(stack[t]) = 1 /\ Top(t) = TickFrame(s) /\ Top(t).op = "Tick"
<1> DEFINE t == Live(s)
           b == pbview[s].Backup
           g == Frame(b, "MoveDB", db[s])
<1>1. /\ stack[t] # <<>> /\ Top(t).op = "Tick" /\ Top(t).pc = "lock"
      /\ ~ locked[s] /\ locked' = [locked EXCEPT ![s] = TRUE]
      /\ Call(t, b, "MoveDB", db[s])
      /\ UNCHANGED <<vsVars, env, up, pbview, connected, db, crashes, clerkVars>>
  BY DEF TickMove, Running, Top
<1>2. /\ t \in Threads /\ s \in up /\ TickFrame(s).at = s
      /\ Len(stack[t]) = 1 /\ Top(t) = TickFrame(s)
  BY <1>1, TickThread
<1>3. Core /\ Grows
  BY <1>1, NoClerkGrows DEF PBInv
<1>4. DistinctRoles(pbview[s]) /\ pbview[s].Primary = s
  BY <1>1, <1>2 DEF PBInv, ViewsInv, Resting
<1>5. b # s
  BY <1>4, Constants DEF DistinctRoles
<1>6. b \in up => FrameOK(g, env', puts', stored')
  <2>1. db[s] \in [Keys -> 0 .. env.puts] /\ env' = env /\ up \subseteq Servers
    BY <1>1, ServiceData
  <2>2. db[s] \in Arg
    <3>1. 0 .. env.puts \subseteq Nat
      BY ServiceData
    <3>2. [Keys -> 0 .. env.puts] \subseteq [Keys -> Nat]
      BY <3>1
    <3> QED
      BY <2>1, <3>2 DEF Arg
  <2>3. b \in up => g \in Frames
    BY <2>1, <2>2, Constants DEF Frame, Frames, Owners, Ops, Pcs
  <2> QED
    BY <2>1, <2>3 DEF FrameOK, Frame, ArgOK, PlaceOK, PcOK, PutOps, GetOps
<1>7. /\ Calls(Top(t), "MoveDB", db[s]) /\ "MoveDB" \notin BottomOps
      /\ PcOK(Top(t), "wait", NoRes, env', stored') /\ PcOK(Top(t), "ret", Fail, env', stored')
  BY <1>1 DEF Calls, PcOK, MayGet, BottomOps
<1>8. LockStep(t, HoldsAt(Top(t).op, "wait"))
  BY <1>1, <1>2 DEF LockStep, HoldsAt
<1>9. Stepped /\ (Called(stack'[t], stack[t], g) \/ Failed(t)) /\ OthersOr(t, g)
  BY <1>1, <1>2, <1>3, <1>5, <1>6, <1>7, <1>8, CallStep
<1>10. TicksKept
  <2>1. stack'[t] # <<>> /\ stack'[t][1].arg = stack[t][1].arg /\ stack'[t][1].pc # "start"
    <3>1. Len(<<>>) = 0
      OBVIOUS
    <3> QED
      BY <1>2, <1>9, <3>1 DEF Called, Failed, Moved, Like
  <2>2. BottomKept(stack'[t], stack[t])
    BY <1>1, <1>2, <2>1 DEF BottomKept, TickFrame
  <2>3. ASSUME NEW q \in Servers, q # s PROVE stack'[Live(q)] = stack[Live(q)]
    <3>1. Live(q) \in Threads /\ Live(q) # t /\ Live(q)[2] # "left"
      BY <2>3 DEF Live, Threads, Owners
    <3> QED
      BY <1>9, <3>1 DEF OthersOr, Starts
  <2> QED
    BY <2>2, <2>3 DEF TicksKept, BottomKept
<1> QED
  BY <1>1, <1>2, <1>5, <1>9, <1>10 DEF Resting

\* ... which keeps the invariant.
LEMMA TickMoveInv == ASSUME PBInv, NEW s \in Servers, TickMove(s) PROVE PBInv'
<1> DEFINE t == Live(s)
<1>1. /\ t \in Threads /\ ~ Resting(s) /\ TickFrame(s).pc = "lock"
      /\ locked' = [locked EXCEPT ![s] = TRUE]
      /\ UNCHANGED <<vsVars, env, up, pbview, connected, db, crashes, clerkVars>>
  BY TickMoveStep
<1>2. Stepped /\ TicksKept
  BY TickMoveStep
<1>3. ViewsInv' /\ (PrimaryInv => PrimaryInv')
  BY <1>1, <1>2, ViewsKept, ServiceData DEF PBInv
<1>4. FailStop => CallsInv'
  BY <1>1, <1>2 DEF Stepped, CallsInv, CallsOK
<1>5. VSTypeOK' /\ locked' \in [Servers -> BOOLEAN]
  BY <1>1, ServiceData DEF vsVars, VSTypeOK
<1> QED
  BY <1>1, <1>2, <1>3, <1>4, <1>5, ServiceKeeps, ServiceData DEF Stepped, PBInv

\* The tick unlocks and ends.
LEMMA TickMovedStep ==
    ASSUME PBInv, NEW s \in Servers, TickMoved(s)
    PROVE  LET t == Live(s)
           IN  /\ t \in Threads /\ s \in up /\ ~ Resting(s) /\ TickFrame(s).pc = "ret"
               /\ locked' = [locked EXCEPT ![s] = FALSE]
               /\ UNCHANGED <<vsVars, env, up, pbview, connected, db, crashes, clerkVars>>
               /\ Stepped /\ Others(t) /\ stack'[t] = <<>>
               /\ Len(stack[t]) = 1 /\ Top(t) = TickFrame(s) /\ Top(t).op = "Tick"
<1> DEFINE t == Live(s)
<1>1. /\ stack[t] # <<>> /\ Top(t).op = "Tick" /\ Top(t).pc = "ret"
      /\ locked' = [locked EXCEPT ![s] = FALSE] /\ Return(t, OK)
      /\ UNCHANGED <<vsVars, env, up, pbview, connected, db, crashes, clerkVars>>
  BY DEF TickMoved, Running, Top, Unlock
<1>2. /\ t \in Threads /\ s \in up /\ TickFrame(s).at = s
      /\ Len(stack[t]) = 1 /\ Top(t) = TickFrame(s)
  BY <1>1, TickThread
<1>3. Core /\ Grows
  BY <1>1, NoClerkGrows DEF PBInv
<1>4. LockStep(t, FALSE)
  BY <1>1, <1>2 DEF LockStep, HoldsLock
<1>5. Stepped /\ Others(t) /\ stack'[t] = <<>>
  <2>1. Stepped /\ Others(t) /\ Ended(stack'[t], stack[t], OK)
    BY <1>1, <1>2, <1>3, <1>4, ReturnStep, Constants
  <2> QED
    BY <1>2, <2>1 DEF Ended
<1> QED
  BY <1>1, <1>2, <1>5 DEF Resting

\* ... and gives no role up.
LEMMA TickMovedInv == ASSUME PBInv, NEW s \in Servers, TickMoved(s) PROVE PBInv'
<1> DEFINE t == Live(s)
<1>1. /\ ~ Resting(s) /\ TickFrame(s).pc = "ret"
      /\ locked' = [locked EXCEPT ![s] = FALSE]
      /\ UNCHANGED <<vsVars, env, up, pbview, connected, db, crashes, clerkVars>>
      /\ Stepped /\ Others(t) /\ stack'[t] = <<>>
  BY TickMovedStep
<1>2. /\ Resting(s)'
      /\ \A q \in Servers : q # s => /\ Resting(q)' <=> Resting(q)
                                     /\ TickFrame(q)' = TickFrame(q)
  BY <1>1, OtherTicks DEF Resting, TickFrame
<1>3. ViewsInv'
  <2>1. VSInv' /\ \A q \in Servers : DistinctRoles(pbview[q]) /\ pbview'[q] = pbview[q]
    BY <1>1, SameInv DEF PBInv, ViewsInv, vsVars
  <2>2. \A q \in Servers : ~ Resting(q)' => ~ Resting(q) /\ TickFrame(q)' = TickFrame(q)
    BY <1>2
  <2> QED
    BY <2>1, <2>2 DEF PBInv, ViewsInv, DistinctRoles
<1>4. ASSUME FailStop PROVE PrimaryInv'
  <2>1. PrimaryInv /\ up \subseteq Servers /\ ~ Resting(s) /\ TickFrame(s).pc # "start"
    BY <1>1, <1>2, <1>4, ServiceData DEF PBInv, Resting
  <2>2. UNCHANGED <<view, newView, age, up, pbview>>
    BY <1>1 DEF vsVars
  <2> SUFFICES ASSUME NEW q \in up
               PROVE  /\ q \in {newView.Primary, newView.Backup} =>
                            /\ age[q] <= DeadPings
                            /\ (Resting(q) \/ TickFrame(q).pc # "start")' => pbview[q].Viewnum # 0
                      /\ view.Primary = q => newView.Primary = q
                      /\ pbview[q].Primary = q => view.Primary = q
                      /\ ~ Resting(q)' => (pbview[q].Primary = q => TickFrame(q)'.arg.Primary = q)
                      /\ ~ Resting(q)' => (TickFrame(q)'.arg.Primary = q => view.Primary = q)
    BY <2>2 DEF PrimaryInv
  <2>3. CASE q = s
    BY <1>2, <2>1, <2>3 DEF PrimaryInv
  <2>4. CASE q # s
    BY <1>2, <2>1, <2>4 DEF PrimaryInv
  <2> QED
    BY <2>3, <2>4
<1>5. FailStop => CallsInv'
  BY <1>1 DEF Stepped, CallsInv, CallsOK
<1>6. VSTypeOK' /\ locked' \in [Servers -> BOOLEAN]
  BY <1>1, ServiceData DEF vsVars, VSTypeOK
<1> QED
  BY <1>1, <1>3, <1>4, <1>5, <1>6, ServiceKeeps, ServiceData DEF Stepped

-----------------------------------------------------------------------------
(* Time, restarts and crashes.                                             *)

\* Steps of which the threads notice nothing.
LEMMA StacksSame ==
    ASSUME PBInv, UNCHANGED <<env, pbview, locked, stack, clerkVars>>, up \subseteq up'
    PROVE  /\ StacksInv' /\ PlacesInv' /\ MutexOK(stack', locked') /\ (FailStop => CallsInv')
           /\ \A s \in Servers : (Resting(s)' <=> Resting(s)) /\ TickFrame(s)' = TickFrame(s)
<1>1. StacksInv /\ PlacesInv /\ MutexOK(stack, locked) /\ (FailStop => CallsInv)
  BY DEF PBInv, Core, MutexInv
<1>2. StacksInv' /\ PlacesInv'
  BY <1>1 DEF StacksInv, PlacesInv, clerkVars
<1>3. MutexOK(stack', locked')
  BY <1>1
<1>4. FailStop => CallsInv'
  BY <1>1 DEF CallsInv
<1>5. \A s \in Servers : (Resting(s)' <=> Resting(s)) /\ TickFrame(s)' = TickFrame(s)
  BY DEF Resting, TickFrame
<1> QED
  BY <1>2, <1>3, <1>4, <1>5

\* ... notice no change of view either.
LEMMA ViewsSame ==
    ASSUME PBInv, VSInv', pbview' = pbview,
           \A s \in Servers : (Resting(s)' <=> Resting(s)) /\ TickFrame(s)' = TickFrame(s)
    PROVE  ViewsInv'
  BY DEF PBInv, ViewsInv, DistinctRoles

\* A server comes back, with the state a crash has left.
LEMMA RestartInv == ASSUME PBInv, NEW s \in Servers, Restart(s) PROVE PBInv'
<1>1. /\ "restart" \in env.faults /\ up' = up \cup {s}
      /\ UNCHANGED <<vsVars, env, pbview, connected, db, locked, crashes, stack, clerkVars>>
  BY DEF Restart
<1>2. /\ StacksInv' /\ PlacesInv' /\ MutexOK(stack', locked') /\ (FailStop => CallsInv')
      /\ \A q \in Servers : (Resting(q)' <=> Resting(q)) /\ TickFrame(q)' = TickFrame(q)
  BY <1>1, StacksSame
<1>3. ViewsInv'
  <2>1. VSInv'
    BY <1>1, SameInv DEF PBInv, ViewsInv, vsVars
  <2> QED
    BY <1>1, <1>2, <2>1, ViewsSame
<1>4. ~ FailStop
  BY <1>1 DEF FailStop
<1>5. VSTypeOK' /\ up' \subseteq Servers
  BY <1>1, ServiceData DEF vsVars, VSTypeOK
<1> QED
  BY <1>1, <1>2, <1>3, <1>4, <1>5, ServiceKeeps, ServiceData

\* The view server's own steps keep PrimaryInv if no primary or backup that
\* runs is late, and a primary that runs keeps its role.
LEMMA PrimarySame ==
    ASSUME PrimaryInv, up \subseteq Servers, view' = view, pbview' = pbview, up' = up,
           \A s \in Servers : (Resting(s)' <=> Resting(s)) /\ TickFrame(s)' = TickFrame(s),
           \A s \in up : s \in {newView'.Primary, newView'.Backup} =>
              s \in {newView.Primary, newView.Backup} /\ age'[s] <= DeadPings,
           \A s \in up : newView.Primary = s /\ age[s] <= DeadPings => newView'.Primary = s
    PROVE  PrimaryInv'
<1> SUFFICES ASSUME NEW s \in up
             PROVE  /\ s \in {newView'.Primary, newView'.Backup} =>
                          /\ age'[s] <= DeadPings
                          /\ (Resting(s) \/ TickFrame(s).pc # "start")' => pbview[s].Viewnum # 0
                    /\ view.Primary = s => newView'.Primary = s
                    /\ pbview[s].Primary = s => view.Primary = s
                    /\ ~ Resting(s)' => (pbview[s].Primary = s => TickFrame(s)'.arg.Primary = s)
                    /\ ~ Resting(s)' => (TickFrame(s)'.arg.Primary = s => view.Primary = s)
  BY DEF PrimaryInv
<1>1. (Resting(s)' <=> Resting(s)) /\ TickFrame(s)' = TickFrame(s)
  OBVIOUS
<1> QED
  BY <1>1 DEF PrimaryInv

\* The view server's tick takes the role of no primary that runs, if servers
\* at worst crash.
LEMMA VSTickInv == ASSUME PBInv, VSTick PROVE PBInv'
<1>1. Tick /\ UNCHANGED <<pbVars, stack, clerkVars>>
  BY DEF VSTick
<1>2. /\ StacksInv' /\ PlacesInv' /\ MutexOK(stack', locked') /\ (FailStop => CallsInv')
      /\ \A q \in Servers : (Resting(q)' <=> Resting(q)) /\ TickFrame(q)' = TickFrame(q)
  BY <1>1, StacksSame DEF pbVars
<1>3. VSTypeOK /\ VSInv /\ VSTypeOK' /\ VSInv'
  BY <1>1, TickType, TickInv, ServiceData DEF PBInv, ViewsInv
<1>4. ViewsInv'
  BY <1>1, <1>2, <1>3, ViewsSame DEF pbVars
<1>5. ASSUME FailStop PROVE PrimaryInv'
  <2>1. PrimaryInv /\ up \subseteq Servers /\ None \notin Servers
    BY <1>5, ServiceData, Constants DEF PBInv
  <2>2. /\ newView'.Primary = IF Expired(newView.Primary) THEN None ELSE newView.Primary
        /\ newView'.Backup = IF Expired(newView.Backup) THEN None ELSE newView.Backup
        /\ view' = view /\ age' = age
    BY <1>1 DEF Tick
  <2>3. \A s \in up : s \in {newView'.Primary, newView'.Backup} =>
           s \in {newView.Primary, newView.Backup} /\ age'[s] <= DeadPings
    BY <2>1, <2>2 DEF PrimaryInv
  <2>4. \A s \in up : newView.Primary = s /\ age[s] <= DeadPings => newView'.Primary = s
    <3>1. \A s \in Servers : age[s] \in Int
      BY <1>3, DeadPingsAssumption DEF VSTypeOK
    <3> QED
      BY <2>1, <2>2, <3>1, DeadPingsAssumption DEF Expired
  <2> QED
    BY <1>1, <1>2, <2>1, <2>2, <2>3, <2>4, PrimarySame DEF pbVars
<1> QED
  BY <1>1, <1>2, <1>3, <1>4, <1>5, ServiceKeeps, ServiceData DEF pbVars

\* Then time passes only once those that run have pinged.
LEMMA TimePassesInv == ASSUME PBInv, TimePasses PROVE PBInv'
<1>1. /\ Elapse /\ UNCHANGED <<pbVars, stack, clerkVars>>
      /\ FailStop => \A s \in up : age[s] # DeadPings
  BY DEF TimePasses, FailStop
<1>2. /\ StacksInv' /\ PlacesInv' /\ MutexOK(stack', locked') /\ (FailStop => CallsInv')
      /\ \A q \in Servers : (Resting(q)' <=> Resting(q)) /\ TickFrame(q)' = TickFrame(q)
  BY <1>1, StacksSame DEF pbVars
<1>3. VSTypeOK /\ VSInv /\ VSTypeOK' /\ VSInv'
  BY <1>1, ElapseType, SameInv, ServiceData DEF PBInv, ViewsInv, Elapse
<1>4. ViewsInv'
  BY <1>1, <1>2, <1>3, ViewsSame DEF pbVars
<1>5. ASSUME FailStop PROVE PrimaryInv'
  <2>1. PrimaryInv /\ up \subseteq Servers
    BY <1>5, ServiceData DEF PBInv
  <2>2. newView' = newView /\ view' = view
    BY <1>1 DEF Elapse
  <2>3. ASSUME NEW s \in up, s \in {newView.Primary, newView.Backup}
        PROVE  age'[s] <= DeadPings
    <3>1. age[s] \in 0 .. DeadPings + 1 /\ age[s] # DeadPings /\ age[s] <= DeadPings
      BY <1>1, <1>3, <1>5, <2>1, <2>3 DEF VSTypeOK, PrimaryInv
    <3>2. age'[s] = IF age[s] > DeadPings THEN DeadPings + 1 ELSE age[s] + 1
      BY <1>1, <2>1 DEF Elapse
    <3> QED
      BY <3>1, <3>2, DeadPingsAssumption
  <2> QED
    BY <1>1, <1>2, <2>1, <2>2, <2>3, PrimarySame DEF pbVars
<1> QED
  BY <1>1, <1>2, <1>3, <1>4, <1>5, ServiceKeeps, ServiceData DEF pbVars

\* The first frame at s, if any, is the k-th.
LEMMA MinFacts ==
    ASSUME NEW I \in SUBSET Nat, I # {}
    PROVE  Min(I) \in I /\ \A j \in I : Min(I) <= j
<1>1. \E i \in I : \A j \in I : i <= j
  BY Least
<1> QED
  BY <1>1 DEF Min

IsFirst(st, s, k) ==
    /\ k \in 0 .. Len(st)
    /\ k = 0 => \A i \in 1 .. Len(st) : st[i].at # s
    /\ k # 0 => st[k].at = s /\ \A i \in 1 .. k - 1 : st[i].at # s

\* FirstAt finds it.
LEMMA FirstFacts ==
    ASSUME NEW st \in Seq(Frames), NEW s
    PROVE  IsFirst(st, s, FirstAt(st, s))
<1> DEFINE m == Len(st)
           I == {i \in 1 .. m : st[i].at = s}
           k == FirstAt(st, s)
<1>1. k = IF I # {} THEN Min(I) ELSE 0
  BY DEF FirstAt, SelectInSeq
<1>2. m \in Nat /\ I \in SUBSET Nat
  OBVIOUS
<1>3. CASE I # {}
  <2>1. k \in I /\ \A j \in I : k <= j
    <3> HIDE DEF I, k
    <3> QED
      BY <1>1, <1>2, <1>3, MinFacts
  <2> HIDE DEF k
  <2>2. k \in 1 .. m /\ st[k].at = s
    BY <2>1
  <2> HIDE DEF m
  <2>3. ASSUME NEW i \in 1 .. k - 1 PROVE st[i].at # s
    <3>1. i \in 1 .. m /\ ~ (k <= i)
      BY <1>2, <2>2
    <3> QED
      BY <2>1, <3>1
  <2>4. k \in 0 .. m /\ k # 0
    BY <1>2, <2>2
  <2> QED
    BY <2>2, <2>3, <2>4 DEF IsFirst, k, m
<1>4. CASE I = {}
  BY <1>1, <1>2, <1>4 DEF IsFirst
<1> QED
  BY <1>3, <1>4

\* Rest(st, s) is what comes after the a-th frame; from the k-th to the a-th
\* all are at s.
RestAt(st, s) == Len(st) - Len(Rest(st, s))
IsRest(w, st, s, k, a) ==
    /\ a \in 0 .. Len(st) /\ PartOf(w, st, a, Len(st) - a)
    /\ w # <<>> => w[1].at # s /\ k # 0
    /\ k # 0 => k <= a /\ \A i \in k .. a : st[i].at = s

\* Rest finds what follows them.
LEMMA RestFacts ==
    ASSUME NEW st \in Seq(Frames), NEW s
    PROVE  IsRest(Rest(st, s), st, s, FirstAt(st, s), RestAt(st, s))
<1> DEFINE m == Len(st)
           k == FirstAt(st, s)
           above == IF k = 0 THEN <<>> ELSE SubSeq(st, k + 1, m)
           n == Len(above)
           I == {i \in 1 .. n : above[i].at # s}
           d == IF I # {} THEN Min(I) ELSE 0
           w == Rest(st, s)
           a == RestAt(st, s)
<1>1. w = IF d = 0 THEN <<>> ELSE SubSeq(above, d, n)
  BY DEF Rest, SelectInSeq
<1>2. a = m - Len(w)
  BY DEF RestAt
<1>3. m \in Nat /\ IsFirst(st, s, k)
  BY FirstFacts
<1>4. Len(<<>>) = 0 /\ PartOf(<<>>, st, m, 0)
  BY DEF PartOf
<1> HIDE DEF w, a, k
<1>5. ASSUME w = <<>> PROVE a = m /\ a \in 0 .. m /\ PartOf(w, st, a, m - a)
  <2>1. a = m - 0
    BY <1>2, <1>4, <1>5
  <2> HIDE DEF m
  <2>2. a = m /\ a \in 0 .. m /\ m - a = 0
    BY <1>3, <2>1
  <2> QED
    BY <1>4, <1>5, <2>2
<1>6. CASE k = 0
  <2>1. n = 0 /\ I = {}
    BY <1>4, <1>6
  <2>2. w = <<>>
    BY <1>1, <2>1
  <2> QED
    BY <1>5, <1>6, <2>2 DEF IsRest, w, a, k
<1>7. CASE k # 0
  <2>1. k \in 1 .. m /\ st[k].at = s /\ k \in Nat
    BY <1>3, <1>7 DEF IsFirst
  <2>2. PartOf(above, st, k, m - k)
    <3>1. k \in 0 .. m /\ m \in k .. m
      <4> HIDE DEF m
      <4> QED
        BY <1>3, <2>1
    <3> QED
      BY <1>7, <3>1, Parts
  <2> HIDE DEF above
  <2>3. above \in Seq(Frames) /\ n = m - k /\ n \in Nat /\ \A i \in 1 .. n : above[i] = st[k + i]
    BY <2>2 DEF PartOf
  <2> HIDE DEF n, m
  <2>4. CASE I = {}
    <3>1. w = <<>>
      BY <1>1, <2>4
    <3>2. ASSUME NEW i \in k .. m PROVE st[i].at = s
      <4>1. CASE i = k
        BY <2>1, <4>1
      <4>2. CASE i # k
        <5>1. i - k \in 1 .. n /\ k + (i - k) = i
          BY <1>3, <2>1, <2>3, <4>2
        <5>2. above[i - k] = st[i]
          BY <2>3, <5>1
        <5> QED
          BY <2>4, <5>1, <5>2
      <4> QED
        BY <4>1, <4>2
    <3>3. a = m /\ a \in 0 .. m /\ PartOf(w, st, a, m - a) /\ k <= m
      BY <1>5, <2>1, <3>1
    <3> QED
      BY <3>1, <3>2, <3>3 DEF IsRest, w, a, k, m
  <2>5. CASE I # {}
    <3>1. d \in I /\ \A j \in I : d <= j
      <4>1. I \in SUBSET Nat /\ d = Min(I)
        BY <2>3, <2>5
      <4> HIDE DEF I, d
      <4> QED
        BY <2>5, <4>1, MinFacts
    <3> HIDE DEF d
    <3>2. d \in 1 .. n /\ above[d].at # s /\ \A j \in 1 .. d - 1 : above[j].at = s
      <4>1. d \in 1 .. n /\ above[d].at # s
        BY <3>1
      <4>2. ASSUME NEW j \in 1 .. d - 1 PROVE above[j].at = s
        <5>1. j \in 1 .. n /\ ~ (d <= j)
          BY <2>3, <4>1
        <5> QED
          BY <3>1, <5>1
      <4> QED
        BY <4>1, <4>2
    <3>3. PartOf(w, above, d - 1, n - (d - 1))
      <4>1. d - 1 \in 0 .. n /\ n \in d - 1 .. n /\ d - 1 + 1 = d /\ d # 0
        BY <2>3, <3>2
      <4>2. PartOf(SubSeq(above, d - 1 + 1, n), above, d - 1, n - (d - 1))
        <5>1. d - 1 \in 0 .. Len(above) /\ n \in d - 1 .. Len(above)
          BY <4>1 DEF n
        <5> QED
          BY <2>3, <5>1, Parts
      <4> QED
        BY <1>1, <4>1, <4>2
    <3>4. /\ w \in Seq(Frames) /\ Len(w) = n - (d - 1)
          /\ \A j \in 1 .. Len(w) : w[j] = above[d - 1 + j]
      BY <3>3 DEF PartOf
    <3>5. /\ a = k + d - 1 /\ a \in 0 .. m /\ k <= a /\ m - a = Len(w) /\ 1 \in 1 .. Len(w)
          /\ Len(w) \in Nat
      BY <1>2, <1>3, <2>1, <2>3, <3>2, <3>4
    <3>6. ASSUME NEW j \in 1 .. Len(w) PROVE w[j] = st[a + j]
      <4>1. d - 1 + j \in 1 .. n /\ k + (d - 1 + j) = a + j
        BY <2>1, <2>3, <3>2, <3>4, <3>5
      <4> QED
        BY <2>3, <3>4, <4>1
    <3>7. PartOf(w, st, a, m - a)
      BY <3>4, <3>5, <3>6 DEF PartOf
    <3>8. w[1].at # s
      <4>1. d - 1 + 1 = d
        BY <3>2
      <4> QED
        BY <3>2, <3>4, <3>5, <4>1
    <3>9. ASSUME NEW i \in k .. a PROVE st[i].at = s
      <4>1. CASE i = k
        BY <2>1, <4>1
      <4>2. CASE i # k
        <5>1. i - k \in 1 .. d - 1 /\ i - k \in 1 .. n /\ k + (i - k) = i
          BY <2>1, <2>3, <3>2, <3>5, <4>2
        <5> QED
          BY <2>3, <3>2, <5>1
      <4> QED
        BY <4>1, <4>2
    <3> QED
      BY <1>7, <3>5, <3>7, <3>8, <3>9 DEF IsRest, w, a, k, m
  <2> QED
    BY <2>4, <2>5
<1> QED
  BY <1>6, <1>7

\* What is left over runs on as before.
LEMMA PartOK ==
    ASSUME NEW t \in Threads, NEW l \in Threads, l[2] = "left", NEW e, NEW n, NEW S, NEW st,
           StackOK(t, st, e, n, S), NEW a \in 1 .. Len(st),
           NEW w, PartOf(w, st, a, Len(st) - a)
    PROVE  StackOK(l, w, e, n, S)
<1> DEFINE m == Len(st)
<1>1. m \in Nat /\ a \in Nat \ {0} /\ a <= m
  BY DEF StackOK, FramesOK
<1>2. w \in Seq(Frames) /\ Len(w) = m - a /\ \A i \in 1 .. m - a : w[i] = st[a + i]
  BY DEF PartOf
<1>3. FramesOK(st, e, n, S) /\ LinksOK(st) /\ BottomOK(t, st)
  BY DEF StackOK
<1> HIDE DEF m
<1>4. ASSUME NEW i \in 1 .. m - a
      PROVE  w[i] = st[a + i] /\ a + i \in 1 .. m /\ a + i # 1 /\ (i = m - a <=> a + i = m)
  BY <1>1, <1>2
<1>5. FramesOK(w, e, n, S)
  BY <1>2, <1>3, <1>4 DEF FramesOK, m
<1>6. LinksOK(w)
  <2>1. ASSUME NEW i \in 1 .. m - a - 1
        PROVE  w[i].pc = "wait" /\ Calls(w[i], w[i + 1].op, w[i + 1].arg)
    <3>1. /\ i \in 1 .. m - a /\ i + 1 \in 1 .. m - a
          /\ a + i \in 1 .. m - 1 /\ a + (i + 1) = (a + i) + 1
      BY <1>1
    <3> QED
      BY <1>2, <1>3, <3>1 DEF LinksOK, m
  <2>2. ASSUME w # <<>> PROVE w[Len(w)].pc # "wait"
    <3>1. m - a \in 1 .. m - a /\ m # 0
      BY <1>1, <1>2, <2>2, EmptySeq
    <3>2. st # <<>>
      BY <1>1, <3>1 DEF m
    <3> QED
      BY <1>2, <1>3, <1>4, <3>1, <3>2 DEF LinksOK, m
  <2> QED
    BY <1>2, <2>1, <2>2 DEF LinksOK
<1>7. BottomOK(l, w)
  BY <1>2, <1>3, <1>4 DEF BottomOK, m
<1> QED
  BY <1>5, <1>6, <1>7 DEF StackOK

\* A frame of which a crash has at most cut the call.
Kept(g, f) ==
    /\ g.at = f.at /\ g.op = f.op /\ g.arg = f.arg
    /\ g.pc = "start" <=> f.pc = "start"
    /\ HoldsLock(g) <=> HoldsLock(f)
    /\ g = f \/ (f.pc = "wait" /\ g.pc = "ret" /\ g.res = Fail)

\* w is what a crash of s has left of the frames of st after the a-th.
PieceOf(w, st, a, s) ==
    /\ w \in Seq(Frames) /\ a \in Nat /\ a + Len(w) <= Len(st)
    /\ \A i \in 1 .. Len(w) : Kept(w[i], st[a + i]) /\ w[i].at # s

\* The calls below the crashed server fail.
LEMMA BelowOK ==
    ASSUME NEW t \in Threads, NEW e, NEW n, NEW S, NEW st, NEW s, StackOK(t, st, e, n, S)
    PROVE  StackOK(t, Below(st, s), e, n, S)
<1> DEFINE k == FirstAt(st, s)
           m == Len(st)
<1>1. st \in Seq(Frames) /\ m \in Nat
  BY DEF StackOK, FramesOK
<1>2. IsFirst(st, s, k)
  BY <1>1, FirstFacts
<1>3. Below(st, s) = CASE k = 0 -> st [] k = 1 -> <<>> [] OTHER -> Cut(st, k - 1, Fail)
  BY DEF Below, Cut
<1> HIDE DEF k
<1>4. CASE k = 0
  BY <1>3, <1>4
<1>5. CASE k = 1
  <2>1. Below(st, s) = <<>> /\ Len(<<>>) = 0 /\ <<>> \in Seq(Frames)
    BY <1>3, <1>5
  <2> QED
    BY <2>1 DEF StackOK, FramesOK, LinksOK, BottomOK
<1>6. CASE k \notin {0, 1}
  <2>1. k \in 0 .. m
    BY <1>2 DEF IsFirst
  <2> HIDE DEF m
  <2>2. k - 1 \in 1 .. m - 1
    BY <1>1, <1>6, <2>1
  <2>3. MayGet(st[k - 1], Fail, e, S)
    BY DEF MayGet
  <2>4. StackOK(t, Cut(st, k - 1, Fail), e, n, S)
    BY <2>2, <2>3, CutOK, Constants DEF m
  <2> QED
    BY <1>3, <1>6, <2>4
<1> QED
  BY <1>4, <1>5, <1>6

\* ... and nothing else changes in them.
LEMMA BelowPiece ==
    ASSUME NEW st \in Seq(Frames), LinksOK(st), NEW s
    PROVE  LET k == FirstAt(st, s)
           IN  /\ PieceOf(Below(st, s), st, 0, s)
               /\ Len(Below(st, s)) = IF k = 0 THEN Len(st) ELSE k - 1
<1> DEFINE k == FirstAt(st, s)
           m == Len(st)
           w == Below(st, s)
<1>1. m \in Nat
  OBVIOUS
<1>2. IsFirst(st, s, k)
  BY FirstFacts
<1>3. w = CASE k = 0 -> st [] k = 1 -> <<>> [] OTHER -> Cut(st, k - 1, Fail)
  BY DEF Below, Cut
<1> HIDE DEF k, w
<1>4. CASE k = 0
  <2>1. w = st /\ \A i \in 1 .. m : st[i].at # s /\ 0 + i = i
    BY <1>2, <1>3, <1>4 DEF IsFirst
  <2> QED
    BY <1>1, <1>4, <2>1 DEF PieceOf, Kept, w, k
<1>5. CASE k = 1
  <2>1. w = <<>> /\ Len(w) = 0 /\ w \in Seq(Frames)
    BY <1>3, <1>5
  <2> QED
    BY <1>1, <1>5, <2>1 DEF PieceOf, w, k
<1>6. CASE k \notin {0, 1}
  <2>1. k \in 0 .. m /\ \A i \in 1 .. k - 1 : st[i].at # s
    BY <1>2, <1>6 DEF IsFirst
  <2> HIDE DEF m
  <2>2. k - 1 \in 1 .. m - 1 /\ k - 1 \in 1 .. m /\ k - 1 \in Nat /\ 0 + (k - 1) <= m
    BY <1>1, <1>6, <2>1
  <2>3. CutAt(w, st, k - 1, Fail)
    BY <1>3, <1>6, <2>2, CutFacts, Constants DEF m
  <2>4. w \in Seq(Frames) /\ Len(w) = k - 1
    BY <2>3 DEF CutAt
  <2>5. ASSUME NEW i \in 1 .. k - 1 PROVE Kept(w[i], st[i]) /\ w[i].at # s /\ 0 + i = i
    <3>1. CASE i = k - 1
      <4>1. Like(w[i], st[i], "ret", Fail) /\ st[i].pc = "wait"
        BY <2>2, <2>3, <3>1 DEF CutAt, LinksOK, m
      <4> QED
        BY <2>1, <4>1 DEF Like, Kept, HoldsLock
    <3>2. CASE i # k - 1
      <4>1. i \in 1 .. k - 1 - 1
        BY <2>2, <3>2
      <4> QED
        BY <2>1, <2>3, <4>1 DEF CutAt, Kept
    <3> QED
      BY <3>1, <3>2
  <2>6. PieceOf(w, st, 0, s)
    BY <2>2, <2>4, <2>5 DEF PieceOf, m
  <2> QED
    BY <1>6, <2>4, <2>6 DEF w, k
<1> QED
  BY <1>4, <1>5, <1>6

\* The frames above the crashed server run on; those that are at it again are
\* gone, with all above them.
LEMMA AbovePiece ==
    ASSUME NEW st \in Seq(Frames), LinksOK(st), NEW s
    PROVE  LET a == RestAt(st, s)
               k == FirstAt(st, s)
               w == Above(st, s)
           IN  /\ PieceOf(w, st, a, s)
               /\ w # <<>> => k # 0 /\ k <= a /\ a \in 1 .. Len(st)
               /\ Rest(Rest(st, s), s) = <<>> \/ w = <<>> =>
                     \A i \in 1 .. Len(st) : a < i /\ st[i].at # s => i <= a + Len(w)
<1> DEFINE a == RestAt(st, s)
           k == FirstAt(st, s)
           w == Above(st, s)
           v == Rest(st, s)
           m == Len(st)
           d == FirstAt(v, s)
           b == RestAt(v, s)
<1>1. IsRest(v, st, s, k, a) /\ m \in Nat
  BY RestFacts
<1>2. w = Below(v, s)
  BY DEF Above
<1> HIDE DEF a, k, v, w
<1>3. /\ a \in 0 .. m /\ v \in Seq(Frames) /\ Len(v) = m - a
      /\ \A i \in 1 .. m - a : v[i] = st[a + i]
      /\ v # <<>> => v[1].at # s /\ k # 0
      /\ k # 0 => k <= a
  BY <1>1 DEF IsRest, PartOf, m
<1> HIDE DEF m
<1>4. a \in Nat /\ a <= m /\ a + (m - a) = m
  BY <1>1, <1>3
<1>5. LinksOK(v)
  <2>1. ASSUME NEW i \in 1 .. m - a - 1
        PROVE  v[i].pc = "wait" /\ Calls(v[i], v[i + 1].op, v[i + 1].arg)
    <3>1. /\ i \in 1 .. m - a /\ i + 1 \in 1 .. m - a
          /\ a + i \in 1 .. m - 1 /\ a + (i + 1) = (a + i) + 1
      BY <1>1, <1>4
    <3> QED
      BY <1>3, <3>1 DEF LinksOK, m
  <2>2. ASSUME v # <<>> PROVE v[Len(v)].pc # "wait"
    <3>1. m - a \in 1 .. m - a /\ m # 0
      BY <1>1, <1>3, <1>4, <2>2, EmptySeq
    <3>2. st # <<>> /\ v[m - a] = st[m]
      BY <1>1, <1>3, <1>4, <3>1 DEF m
    <3> QED
      BY <1>3, <3>2 DEF LinksOK, m
  <2> QED
    BY <1>3, <2>1, <2>2 DEF LinksOK
<1>6. PieceOf(w, v, 0, s) /\ Len(w) = IF d = 0 THEN Len(v) ELSE d - 1
  BY <1>2, <1>3, <1>5, BelowPiece
<1>7. IsFirst(v, s, d) /\ IsRest(Rest(v, s), v, s, d, b)
  BY <1>3, FirstFacts, RestFacts
<1> HIDE DEF d, b
<1>8. /\ w \in Seq(Frames) /\ Len(w) \in Nat /\ Len(w) <= m - a
      /\ \A i \in 1 .. Len(w) : Kept(w[i], v[i]) /\ w[i].at # s
  <2>1. /\ w \in Seq(Frames) /\ 0 + Len(w) <= m - a
        /\ \A i \in 1 .. Len(w) : Kept(w[i], v[0 + i]) /\ w[i].at # s
    BY <1>3, <1>6 DEF PieceOf
  <2>2. Len(w) \in Nat /\ \A i \in 1 .. Len(w) : 0 + i = i
    BY <2>1
  <2> QED
    BY <2>1, <2>2
<1>9. PieceOf(w, st, a, s)
  <2>1. \A i \in 1 .. Len(w) : i \in 1 .. m - a
    BY <1>1, <1>4, <1>8
  <2>2. a + Len(w) <= m
    BY <1>1, <1>4, <1>8
  <2> QED
    BY <1>3, <1>4, <1>8, <2>1, <2>2 DEF PieceOf, m
<1>10. ASSUME w # <<>> PROVE k # 0 /\ k <= a /\ a \in 1 .. m
  <2>1. Len(w) # 0
    BY <1>8, <1>10, EmptySeq
  <2>2. v # <<>>
    <3>1. m - a # 0
      BY <1>1, <1>4, <1>8, <2>1
    <3> QED
      BY <1>3, <3>1
  <2>3. k # 0 /\ k <= a
    BY <1>3, <2>2
  <2>4. k \in 0 .. m
    BY FirstFacts DEF IsFirst, k, m
  <2> QED
    BY <1>4, <2>3, <2>4
<1>11. ASSUME Rest(v, s) = <<>> \/ w = <<>>, NEW i \in 1 .. m, a < i, st[i].at # s
       PROVE  i <= a + Len(w)
  <2> DEFINE j == i - a
  <2>1. j \in 1 .. m - a /\ a + j = i
    BY <1>1, <1>4, <1>11
  <2>2. v[j] = st[i]
    BY <1>3, <2>1
  <2> HIDE DEF j
  <2>3. CASE d = 0
    <3>1. Len(w) = m - a
      BY <1>3, <1>6, <2>3
    <3> QED
      BY <1>1, <1>4, <3>1
  <2>4. CASE d # 0
    <3>1. Len(w) = d - 1 /\ d \in 1 .. m - a
      BY <1>3, <1>4, <1>6, <1>7, <2>4, <1>1 DEF IsFirst
    <3>2. CASE w = <<>>
      <4>1. d = 1 /\ v # <<>>
        BY <1>1, <1>3, <1>4, <3>1, <3>2
      <4> QED
        BY <1>3, <1>7, <4>1 DEF IsFirst
    <3>3. CASE Rest(v, s) = <<>>
      <4>1. b = m - a
        <5>1. b \in 0 .. m - a /\ m - a - b = 0
          BY <1>3, <1>7, <3>3 DEF IsRest, PartOf
        <5> QED
          BY <1>1, <1>4, <5>1
      <4>2. \A x \in d .. m - a : v[x].at = s
        BY <1>7, <2>4, <4>1 DEF IsRest
      <4>3. ~ (d <= j)
        BY <1>1, <1>4, <1>11, <2>1, <2>2, <3>1, <4>2
      <4> QED
        BY <1>4, <2>1, <3>1, <4>3
    <3> QED
      BY <1>11, <3>2, <3>3
  <2> QED
    BY <2>3, <2>4
<1> QED
  BY <1>9, <1>10, <1>11 DEF a, k, w, v, m

\* Where the frames of t are from after a crash of s: from those of From(t)
\* after the first Offset(t, s).
From(t) == IF t[2] = "left" /\ stack[t] = <<>> THEN Live(t[1]) ELSE t
Offset(t, s) == IF t[2] = "left" /\ stack[t] = <<>> THEN RestAt(stack[Live(t[1])], s) ELSE 0

\* What a crash of s leaves of the threads: the frames that are not at s, each
\* once, with their calls cut.
Survive(s) ==
    /\ \A t \in Threads :
          From(t) \in Threads /\ PieceOf(stack'[t], stack[From(t)], Offset(t, s), s)
    /\ \A u \in Threads, j \in Nat : j \in 1 .. Len(stack[u]) /\ stack[u][j].at # s =>
          \E t \in Threads, i \in Nat : i \in 1 .. Len(stack'[t]) /\ From(t) = u /\ j = Offset(t, s) + i
    /\ \A t, u \in Threads, i, j \in Nat :
          i \in 1 .. Len(stack'[t]) /\ j \in 1 .. Len(stack'[u])
          /\ From(t) = From(u) /\ Offset(t, s) + i = Offset(u, s) + j => t = u /\ i = j

CrashedStack(s) ==
    stack' = [t \in Threads |->
       IF t[2] = "left" /\ stack[t] = <<>> THEN Above(stack[Live(t[1])], s) ELSE Below(stack[t], s)]

\* A left-over thread that rested has what was above the frames at s, any other
\* what was below.
TakesOver(t, s) ==
    /\ t[2] = "left" /\ stack[t] = <<>>
    /\ stack'[t] = Above(stack[Live(t[1])], s)
    /\ From(t) = Live(t[1]) /\ Offset(t, s) = RestAt(stack[Live(t[1])], s)
Stays(t, s) ==
    /\ ~ (t[2] = "left" /\ stack[t] = <<>>)
    /\ stack'[t] = Below(stack[t], s)
    /\ From(t) = t /\ Offset(t, s) = 0

\* Each thread does one or the other.
LEMMA ThreadParts ==
    ASSUME NEW s, CrashedStack(s), NEW t \in Threads
    PROVE  /\ t[1] \in Owners /\ t[2] \in {"live", "left"} /\ t = <<t[1], t[2]>>
           /\ Live(t[1]) \in Threads /\ Left(t[1]) \in Threads /\ From(t) \in Threads
           /\ t = Live(t[1]) \/ t = Left(t[1])
           /\ TakesOver(t, s) \/ Stays(t, s)
<1>1. /\ t[1] \in Owners /\ t[2] \in {"live", "left"} /\ t = <<t[1], t[2]>>
      /\ Live(t[1]) \in Threads /\ Left(t[1]) \in Threads
      /\ t = Live(t[1]) \/ t = Left(t[1])
  BY DEF Threads, Live, Left
<1>2. stack'[t] = IF t[2] = "left" /\ stack[t] = <<>>
                  THEN Above(stack[Live(t[1])], s) ELSE Below(stack[t], s)
  BY DEF CrashedStack
<1>3. CASE t[2] = "left" /\ stack[t] = <<>>
  BY <1>1, <1>2, <1>3 DEF From, Offset, TakesOver
<1>4. CASE ~ (t[2] = "left" /\ stack[t] = <<>>)
  BY <1>1, <1>2, <1>4 DEF From, Offset, Stays
<1> QED
  BY <1>1, <1>3, <1>4

\* A crash leaves each frame that is not at s once.
LEMMA Survivors ==
    ASSUME StacksInv, NEW s, CrashedStack(s), LeavesOnePart(s)
    PROVE  Survive(s)
<1>1. ASSUME NEW t \in Threads PROVE stack[t] \in Seq(Frames) /\ LinksOK(stack[t])
  BY DEF StacksInv, StackOK
<1>2. ASSUME NEW t \in Threads
      PROVE  From(t) \in Threads /\ PieceOf(stack'[t], stack[From(t)], Offset(t, s), s)
  <2>1. Live(t[1]) \in Threads /\ From(t) \in Threads /\ (TakesOver(t, s) \/ Stays(t, s))
    BY ThreadParts
  <2>2. CASE TakesOver(t, s)
    BY <1>1, <2>1, <2>2, AbovePiece DEF TakesOver
  <2>3. CASE Stays(t, s)
    BY <1>1, <2>1, <2>3, BelowPiece DEF Stays
  <2> QED
    BY <2>1, <2>2, <2>3
<1>3. ASSUME NEW u \in Threads, NEW j \in Nat, j \in 1 .. Len(stack[u]), stack[u][j].at # s
      PROVE  \E t \in Threads, i \in Nat : i \in 1 .. Len(stack'[t]) /\ From(t) = u /\ j = Offset(t, s) + i
  <2> DEFINE st == stack[u]
             k == FirstAt(st, s)
             o == u[1]
  <2>1. st \in Seq(Frames) /\ LinksOK(st) /\ IsFirst(st, s, k) /\ Len(st) \in Nat
    BY <1>1, FirstFacts
  <2>2. ~ (u[2] = "left" /\ st = <<>>)
    <3>1. Len(<<>>) = 0
      OBVIOUS
    <3> QED
      BY <1>3, <3>1
  <2>3. From(u) = u /\ Offset(u, s) = 0 /\ stack'[u] = Below(st, s)
    BY <2>2, ThreadParts DEF Stays, TakesOver
  <2>4. Len(stack'[u]) = IF k = 0 THEN Len(st) ELSE k - 1
    BY <2>1, <2>3, BelowPiece
  <2>5. k \in 0 .. Len(st) /\ (k # 0 => st[k].at = s)
    BY <2>1 DEF IsFirst
  <2>6. CASE k = 0 \/ j < k
    <3>1. j \in 1 .. Len(stack'[u]) /\ j = 0 + j
      <4> HIDE DEF k
      <4> QED
        BY <1>3, <2>1, <2>4, <2>5, <2>6
    <3> QED
      BY <2>3, <3>1
  <2>7. CASE k # 0 /\ ~ (j < k)
    <3> DEFINE a == RestAt(st, s)
               w == Above(st, s)
    <3>1. /\ IsRest(Rest(st, s), st, s, k, a)
          /\ w \in Seq(Frames)
          /\ w # <<>> => a \in 1 .. Len(st)
          /\ Rest(Rest(st, s), s) = <<>> \/ w = <<>> =>
                \A i \in 1 .. Len(st) : a < i /\ st[i].at # s => i <= a + Len(w)
      BY <2>1, RestFacts, AbovePiece DEF PieceOf
    <3>2. u[2] = "live" => Rest(Rest(st, s), s) = <<>> /\ (w # <<>> => stack[Left(o)] = <<>>)
      <4>1. u[2] = "live" => u = Live(o)
        BY ThreadParts DEF Left
      <4>2. o \in Owners
        BY ThreadParts
      <4> HIDE DEF o
      <4> QED
        BY <4>1, <4>2 DEF LeavesOnePart
    <3>3. u[2] = "left" => w = <<>>
      <4>1. u[2] = "left" => u = Left(o)
        BY ThreadParts DEF Live
      <4>2. o \in Owners
        BY ThreadParts
      <4> HIDE DEF o
      <4> QED
        BY <4>1, <4>2 DEF LeavesOnePart
    <3>4. u[2] \in {"live", "left"} /\ Left(o) \in Threads /\ o \in Owners
      BY ThreadParts
    <3> HIDE DEF a, w, k
    <3>5. k <= a /\ a \in 0 .. Len(st) /\ \A i \in k .. a : st[i].at = s
      BY <2>7, <3>1 DEF IsRest
    <3>6. a < j
      <4>1. j \notin k .. a
        BY <1>3, <3>5
      <4> QED
        BY <2>1, <2>5, <2>7, <3>5, <4>1
    <3>7. j <= a + Len(w)
      BY <1>3, <3>1, <3>2, <3>3, <3>4, <3>6
    <3>8. Len(w) \in Nat /\ j - a \in 1 .. Len(w) /\ a + (j - a) = j
      BY <3>1, <3>5, <3>6, <3>7
    <3>9. w # <<>>
      <4>1. Len(<<>>) = 0
        OBVIOUS
      <4> QED
        BY <3>8, <4>1
    <3>10. u[2] = "live" /\ stack[Left(o)] = <<>>
      BY <3>2, <3>3, <3>4, <3>9
    <3>11. Left(o)[1] = o /\ Left(o)[2] = "left" /\ Live(o) = u
      BY <3>10, ThreadParts DEF Left, Live
    <3>12. From(Left(o)) = u /\ Offset(Left(o), s) = a /\ stack'[Left(o)] = w
      <4>1. TakesOver(Left(o), s)
        BY <3>4, <3>10, <3>11, ThreadParts DEF Stays
      <4> QED
        BY <3>11, <4>1 DEF TakesOver, a, w
    <3>13. j - a \in Nat
      BY <3>8
    <3> QED
      BY <3>4, <3>8, <3>12, <3>13
  <2> QED
    BY <2>6, <2>7
<1>4. ASSUME NEW t \in Threads, NEW u \in Threads, NEW i \in Nat, NEW j \in Nat,
             i \in 1 .. Len(stack'[t]), j \in 1 .. Len(stack'[u]),
             t[2] = "left" /\ stack[t] = <<>>, ~ (u[2] = "left" /\ stack[u] = <<>>),
             From(t) = From(u)
      PROVE  Offset(t, s) + i # Offset(u, s) + j
  <2> DEFINE st == stack[u]
             k == FirstAt(st, s)
             a == RestAt(st, s)
  <2>1. /\ From(u) = u /\ Offset(u, s) = 0 /\ stack'[u] = Below(st, s)
        /\ From(t) = u /\ stack'[t] = Above(st, s) /\ Offset(t, s) = a
    <3>1. TakesOver(t, s) /\ Stays(u, s)
      BY <1>4, ThreadParts DEF TakesOver, Stays
    <3> QED
      BY <1>4, <3>1 DEF TakesOver, Stays
  <2>2. stack'[t] # <<>>
    <3>1. Len(<<>>) = 0
      OBVIOUS
    <3> QED
      BY <1>4, <3>1
  <2>3. st \in Seq(Frames) /\ LinksOK(st)
    BY <1>1
  <2>4. k # 0 /\ k <= a /\ a \in 1 .. Len(st) /\ k \in 0 .. Len(st) /\ Len(st) \in Nat
    <3>1. k # 0 /\ k <= a /\ a \in 1 .. Len(st)
      BY <2>1, <2>2, <2>3, AbovePiece
    <3>2. k \in 0 .. Len(st) /\ Len(st) \in Nat
      BY <2>3, FirstFacts DEF IsFirst
    <3> QED
      BY <3>1, <3>2
  <2>5. Len(stack'[u]) = k - 1
    BY <2>1, <2>3, <2>4, BelowPiece
  <2> HIDE DEF k, a
  <2> QED
    BY <1>4, <2>1, <2>4, <2>5
<1>5. ASSUME NEW t \in Threads, NEW u \in Threads, NEW i \in Nat, NEW j \in Nat,
             i \in 1 .. Len(stack'[t]), j \in 1 .. Len(stack'[u]),
             From(t) = From(u), Offset(t, s) + i = Offset(u, s) + j
      PROVE  t = u /\ i = j
  <2>1. t = u
    <3>1. CASE t[2] = "left" /\ stack[t] = <<>>
      <4>1. u[2] = "left" /\ stack[u] = <<>>
        BY <1>4, <1>5, <3>1
      <4>2. Live(t[1]) = Live(u[1])
        <5>1. TakesOver(t, s) /\ TakesOver(u, s)
          BY <3>1, <4>1, ThreadParts DEF Stays
        <5> QED
          BY <1>5, <5>1 DEF TakesOver
      <4>3. t[1] = u[1] /\ t[2] = u[2]
        BY <3>1, <4>1, <4>2 DEF Live
      <4>4. t = <<t[1], t[2]>> /\ u = <<u[1], u[2]>>
        BY ThreadParts
      <4> QED
        BY <4>3, <4>4
    <3>2. CASE ~ (t[2] = "left" /\ stack[t] = <<>>)
      <4>1. ~ (u[2] = "left" /\ stack[u] = <<>>)
        BY <1>4, <1>5, <3>2
      <4>2. Stays(t, s) /\ Stays(u, s)
        BY <3>2, <4>1, ThreadParts DEF TakesOver
      <4> QED
        BY <1>5, <4>2 DEF Stays
    <3> QED
      BY <3>1, <3>2
  <2>2. Offset(t, s) \in Nat
    BY <1>2 DEF PieceOf
  <2> QED
    BY <1>5, <2>1, <2>2
<1> QED
  BY <1>2, <1>3, <1>5 DEF Survive

\* What a crash leaves are stacks in order.
LEMMA CrashStacks ==
    ASSUME StacksInv, NEW s, CrashedStack(s), UNCHANGED <<env, clerkVars>>
    PROVE  StacksInv'
<1>1. ASSUME NEW t \in Threads
      PROVE  stack[t] \in Seq(Frames) /\ StackOK(t, stack[t], env, puts, stored)
  BY DEF StacksInv
<1>2. ASSUME NEW t \in Threads
      PROVE  StackOK(t, stack'[t], env, puts, stored)
  <2>1. CASE TakesOver(t, s)
    <3> DEFINE u == Live(t[1])
               st == stack[u]
               v == Rest(st, s)
               a == RestAt(st, s)
               k == FirstAt(st, s)
    <3>1. u \in Threads /\ t[2] = "left" /\ stack'[t] = Above(st, s)
      BY <2>1, ThreadParts DEF TakesOver
    <3>2. st \in Seq(Frames) /\ StackOK(u, st, env, puts, stored)
      BY <1>1, <3>1
    <3>3. IsRest(v, st, s, k, a) /\ IsFirst(st, s, k)
      BY <3>2, RestFacts, FirstFacts
    <3> HIDE DEF u, st, v, a, k
    <3>4. StackOK(t, v, env, puts, stored)
      <4>1. CASE v = <<>>
        <5>1. Len(<<>>) = 0 /\ <<>> \in Seq(Frames)
          OBVIOUS
        <5> QED
          BY <4>1, <5>1 DEF StackOK, FramesOK, LinksOK, BottomOK
      <4>2. CASE v # <<>>
        <5>1. a \in 1 .. Len(st) /\ PartOf(v, st, a, Len(st) - a)
          <6>1. /\ k # 0 /\ k <= a /\ a \in 0 .. Len(st) /\ k \in 0 .. Len(st)
                /\ Len(st) \in Nat /\ PartOf(v, st, a, Len(st) - a)
            BY <3>2, <3>3, <4>2 DEF IsRest, IsFirst
          <6> QED
            BY <6>1
        <5> QED
          BY <3>1, <3>2, <5>1, PartOK
      <4> QED
        BY <4>1, <4>2
    <3>5. stack'[t] = Below(v, s)
      BY <3>1 DEF Above, v
    <3> QED
      BY <3>4, <3>5, BelowOK
  <2>2. CASE Stays(t, s)
    BY <1>1, <2>2, BelowOK DEF Stays
  <2> QED
    BY <2>1, <2>2, ThreadParts
<1>3. stack' \in [Threads -> Seq(Frames)]
  <2>1. \A t \in Threads : stack'[t] \in Seq(Frames)
    BY <1>2 DEF StackOK, FramesOK
  <2> QED
    BY <2>1 DEF CrashedStack
<1> QED
  BY <1>2, <1>3 DEF StacksInv, clerkVars

\* Nothing is left at the crashed server.
LEMMA CrashPlaces ==
    ASSUME PlacesInv, NEW s, Survive(s), up' = up \ {s}
    PROVE  PlacesInv'
<1> SUFFICES ASSUME NEW t \in Threads, NEW i \in 1 .. Len(stack'[t])
             PROVE  stack'[t][i].at \in up' \cup Clerks
  BY DEF PlacesInv
<1> DEFINE u == From(t)
           a == Offset(t, s)
<1>1. u \in Threads /\ PieceOf(stack'[t], stack[u], a, s)
  BY DEF Survive
<1> HIDE DEF u, a
<1>2. /\ a \in Nat /\ Len(stack'[t]) \in Nat /\ a + Len(stack'[t]) <= Len(stack[u])
      /\ stack'[t][i].at = stack[u][a + i].at /\ stack'[t][i].at # s
  BY <1>1 DEF PieceOf, Kept
<1>3. a + i \in 1 .. Len(stack[u])
  <2>1. CASE Len(stack[u]) \in Nat
    BY <1>2, <2>1
  <2> QED
    BY <1>2, <2>1
<1> QED
  BY <1>1, <1>2, <1>3 DEF PlacesInv

\* Its mutex is free, and the other mutexes have the holders they had.
LEMMA CrashMutex ==
    ASSUME StacksInv, MutexOK(stack, locked), locked \in [Servers -> BOOLEAN],
           NEW s \in Servers, Survive(s), locked' = [locked EXCEPT ![s] = FALSE]
    PROVE  MutexOK(stack', locked')
<1>1. ASSUME NEW t \in Threads
      PROVE  /\ From(t) \in Threads /\ Offset(t, s) \in Nat /\ Len(stack'[t]) \in Nat
             /\ \A i \in 1 .. Len(stack'[t]) :
                   /\ Offset(t, s) + i \in 1 .. Len(stack[From(t)])
                   /\ Kept(stack'[t][i], stack[From(t)][Offset(t, s) + i]) /\ stack'[t][i].at # s
  <2> DEFINE u == From(t)
             a == Offset(t, s)
  <2>1. u \in Threads /\ PieceOf(stack'[t], stack[u], a, s)
    BY DEF Survive
  <2>2. Len(stack[u]) \in Nat
    <3>1. stack[u] \in Seq(Frames)
      BY <2>1 DEF StacksInv
    <3> QED
      BY <3>1
  <2> HIDE DEF u, a
  <2>3. /\ a \in Nat /\ Len(stack'[t]) \in Nat /\ a + Len(stack'[t]) <= Len(stack[u])
        /\ \A i \in 1 .. Len(stack'[t]) : Kept(stack'[t][i], stack[u][a + i]) /\ stack'[t][i].at # s
    BY <2>1 DEF PieceOf
  <2>4. \A i \in 1 .. Len(stack'[t]) : a + i \in 1 .. Len(stack[u])
    BY <2>2, <2>3
  <2> QED
    BY <2>1, <2>3, <2>4 DEF u, a
<1>2. ASSUME NEW t \in Threads, NEW q \in Servers, NEW i \in Nat
      PROVE  Keeps(stack'[t], q, i) <=>
                q # s /\ i \in 1 .. Len(stack'[t]) /\ Keeps(stack[From(t)], q, Offset(t, s) + i)
  BY <1>1 DEF Keeps, Kept
<1>3. ASSUME NEW q \in Servers, NEW u \in Threads, NEW j \in Nat, Keeps(stack[u], q, j), q # s
      PROVE  \E t \in Threads, i \in Nat : Keeps(stack'[t], q, i)
  <2>1. j \in 1 .. Len(stack[u]) /\ stack[u][j].at # s
    BY <1>3 DEF Keeps
  <2>2. PICK t \in Threads, i \in Nat :
           i \in 1 .. Len(stack'[t]) /\ From(t) = u /\ j = Offset(t, s) + i
    BY <2>1 DEF Survive
  <2>3. Keeps(stack'[t], q, i)
    BY <1>2, <1>3, <2>2
  <2> QED
    BY <2>3
<1>4. ASSUME NEW q \in Servers, NEW t \in Threads, NEW u \in Threads, NEW i \in Nat, NEW j \in Nat,
             Keeps(stack'[t], q, i), Keeps(stack'[u], q, j)
      PROVE  t = u /\ i = j
  <2>1. /\ i \in 1 .. Len(stack'[t]) /\ Keeps(stack[From(t)], q, Offset(t, s) + i)
        /\ j \in 1 .. Len(stack'[u]) /\ Keeps(stack[From(u)], q, Offset(u, s) + j)
    BY <1>2, <1>4
  <2>2. /\ From(t) \in Threads /\ From(u) \in Threads
        /\ Offset(t, s) + i \in Nat /\ Offset(u, s) + j \in Nat
    BY <1>1
  <2>3. From(t) = From(u) /\ Offset(t, s) + i = Offset(u, s) + j
    BY <2>1, <2>2 DEF MutexOK
  <2> QED
    BY <2>1, <2>3 DEF Survive
<1>5. ASSUME NEW q \in Servers
      PROVE  locked'[q] <=> \E t \in Threads, i \in Nat : Keeps(stack'[t], q, i)
  <2>1. CASE q = s
    BY <1>2, <2>1
  <2>2. CASE q # s
    <3>1. locked'[q] = locked[q]
      BY <2>2
    <3>2. locked[q] <=> \E t \in Threads, i \in Nat : Keeps(stack[t], q, i)
      BY DEF MutexOK
    <3>3. \A t \in Threads, i \in Nat : Keeps(stack'[t], q, i) =>
             \E u \in Threads, j \in Nat : Keeps(stack[u], q, j)
      <4> SUFFICES ASSUME NEW t \in Threads, NEW i \in Nat, Keeps(stack'[t], q, i)
                   PROVE  \E u \in Threads, j \in Nat : Keeps(stack[u], q, j)
        OBVIOUS
      <4>1. From(t) \in Threads /\ Offset(t, s) + i \in Nat /\ Keeps(stack[From(t)], q, Offset(t, s) + i)
        BY <1>1, <1>2
      <4> QED
        BY <4>1
    <3> QED
      BY <1>3, <2>2, <3>1, <3>2, <3>3
  <2> QED
    BY <2>1, <2>2
<1> QED
  BY <1>4, <1>5 DEF MutexOK

\* The calls that are left are between the servers they were between.
LEMMA CrashCalls ==
    ASSUME StacksInv, CallsInv, pbview \in [Servers -> View], NEW s \in Servers, Survive(s),
           pbview' = [pbview EXCEPT ![s] = NoView]
    PROVE  CallsInv'
<1> SUFFICES ASSUME NEW t \in Threads, NEW i \in 1 .. Len(stack'[t])
             PROVE  LET f == stack'[t][i]
                    IN  /\ f.op = "Put" /\ f.pc # "start" => pbview'[f.at].Primary = f.at
                        /\ f.op \in {"Put", "Tick"} /\ i # Len(stack'[t]) =>
                              stack'[t][i + 1].at # f.at
  BY DEF CallsInv, CallsOK
<1> DEFINE u == From(t)
           a == Offset(t, s)
           n == Len(stack'[t])
           m == Len(stack[u])
           f == stack'[t][i]
           g == stack[u][a + i]
<1>1. u \in Threads /\ PieceOf(stack'[t], stack[u], a, s)
  BY DEF Survive
<1>2. m \in Nat /\ StackOK(u, stack[u], env, puts, stored) /\ CallsOK(stack[u], pbview)
  <2>1. stack[u] \in Seq(Frames) /\ StackOK(u, stack[u], env, puts, stored)
    BY <1>1 DEF StacksInv
  <2> QED
    BY <1>1, <2>1 DEF CallsInv
<1>3. /\ a \in Nat /\ n \in Nat /\ a + n <= m
      /\ \A j \in 1 .. n : Kept(stack'[t][j], stack[u][a + j]) /\ stack'[t][j].at # s
  BY <1>1 DEF PieceOf
<1>4. /\ f.at = g.at /\ f.op = g.op /\ f.at # s
      /\ f.pc = "start" <=> g.pc = "start"
  BY <1>3 DEF Kept
<1> HIDE DEF u, a, n, m, f
<1>5. a + i \in 1 .. m /\ (i # n => i + 1 \in 1 .. n /\ a + (i + 1) = a + i + 1 /\ a + i # m)
  BY <1>2, <1>3 DEF n
<1>6. ASSUME f.op = "Put", f.pc # "start" PROVE pbview'[f.at].Primary = f.at
  <2>1. pbview[g.at].Primary = g.at
    BY <1>2, <1>4, <1>5, <1>6 DEF CallsOK, m
  <2>2. g.at \in Servers
    BY <1>2, <1>4, <1>5, <1>6 DEF StackOK, FramesOK, FrameOK, PlaceOK, m
  <2> QED
    BY <1>4, <2>1, <2>2
<1>7. ASSUME f.op \in {"Put", "Tick"}, i # n PROVE stack'[t][i + 1].at # f.at
  <2>1. stack[u][a + i + 1].at # g.at
    BY <1>2, <1>4, <1>5, <1>7 DEF CallsOK, m
  <2>2. stack'[t][i + 1].at = stack[u][a + i + 1].at
    BY <1>3, <1>5, <1>7 DEF Kept
  <2> QED
    BY <1>4, <2>1, <2>2
<1> QED
  BY <1>6, <1>7 DEF f, n

\* The tick of the crashed server is gone, the others are at most cut.
LEMMA CrashTicks ==
    ASSUME StacksInv, NEW s \in Servers, CrashedStack(s)
    PROVE  /\ Resting(s)'
           /\ \A q \in Servers : q # s => BottomKept(stack'[Live(q)], stack[Live(q)])
<1>1. ASSUME NEW q \in Servers
      PROVE  LET st == stack[Live(q)]
             IN  /\ st \in Seq(Frames) /\ LinksOK(st) /\ stack'[Live(q)] = Below(st, s)
                 /\ st # <<>> => st[1].at = q
  <2>1. Live(q) \in Threads /\ Live(q)[2] = "live" /\ Live(q)[1] = q /\ Live(q)[2] # "left"
    BY DEF Live, Threads, Owners
  <2>2. StackOK(Live(q), stack[Live(q)], env, puts, stored) /\ stack[Live(q)] \in Seq(Frames)
    BY <2>1 DEF StacksInv
  <2>3. stack'[Live(q)] = Below(stack[Live(q)], s)
    BY <2>1 DEF CrashedStack
  <2> QED
    BY <2>1, <2>2, <2>3 DEF StackOK, BottomOK
<1>2. ASSUME NEW q \in Servers, stack[Live(q)] # <<>>
      PROVE  LET st == stack[Live(q)]
             IN  1 \in 1 .. Len(st) /\ FirstAt(st, s) \in 0 .. Len(st) /\ (FirstAt(st, s) = 1 <=> q = s)
  <2> DEFINE st == stack[Live(q)]
             k == FirstAt(st, s)
  <2>1. st \in Seq(Frames) /\ st[1].at = q
    BY <1>1, <1>2
  <2>2. IsFirst(st, s, k) /\ Len(st) \in Nat \ {0}
    BY <1>2, <2>1, FirstFacts, EmptySeq
  <2> HIDE DEF st, k
  <2>3. 1 \in 1 .. Len(st) /\ k \in 0 .. Len(st) /\ (k # 0 /\ k # 1 => 1 \in 1 .. k - 1)
    BY <2>2 DEF IsFirst
  <2>4. k = 1 <=> q = s
    BY <2>1, <2>2, <2>3 DEF IsFirst
  <2> QED
    BY <2>3, <2>4 DEF st, k
<1>3. Resting(s)'
  <2> DEFINE st == stack[Live(s)]
             w == stack'[Live(s)]
  <2>1. w \in Seq(Frames) /\ Len(w) = IF FirstAt(st, s) = 0 THEN Len(st) ELSE FirstAt(st, s) - 1
    BY <1>1, BelowPiece DEF PieceOf
  <2>2. CASE st = <<>>
    <3>1. Len(st) = 0
      BY <2>2
    <3>2. FirstAt(st, s) \in 0 .. 0
      BY <1>1, <3>1, FirstFacts DEF IsFirst
    <3>3. Len(w) = 0
      BY <2>1, <3>1, <3>2
    <3> QED
      BY <2>1, <3>3, EmptySeq DEF Resting
  <2>3. CASE st # <<>>
    <3>1. Len(w) = 0
      BY <1>2, <2>1, <2>3
    <3> QED
      BY <2>1, <3>1, EmptySeq DEF Resting
  <2> QED
    BY <2>2, <2>3
<1>4. ASSUME NEW q \in Servers, q # s
      PROVE  BottomKept(stack'[Live(q)], stack[Live(q)])
  <2> DEFINE st == stack[Live(q)]
             w == stack'[Live(q)]
             k == FirstAt(st, s)
  <2>1. st \in Seq(Frames) /\ LinksOK(st) /\ w = Below(st, s) /\ IsFirst(st, s, k)
    BY <1>1, FirstFacts
  <2>2. PieceOf(w, st, 0, s) /\ Len(w) = IF k = 0 THEN Len(st) ELSE k - 1
    BY <2>1, BelowPiece
  <2>3. st # <<>> => 1 \in 1 .. Len(st) /\ k \in 0 .. Len(st) /\ k # 1
    BY <1>2, <1>4
  <2> HIDE DEF st, w, k
  <2>4. CASE st = <<>>
    <3>1. Len(st) = 0 /\ k \in 0 .. Len(st)
      BY <2>1, <2>4 DEF IsFirst
    <3>2. Len(w) = 0 /\ w \in Seq(Frames)
      BY <2>2, <3>1 DEF PieceOf
    <3> QED
      BY <2>4, <3>2, EmptySeq DEF BottomKept, st, w
  <2>5. CASE st # <<>>
    <3>1. 1 \in 1 .. Len(w) /\ Len(<<>>) = 0
      BY <2>1, <2>2, <2>3, <2>5
    <3>2. w # <<>>
      BY <3>1
    <3>3. Kept(w[1], st[0 + 1]) /\ 0 + 1 = 1
      BY <2>2, <3>1 DEF PieceOf
    <3> QED
      BY <2>5, <3>2, <3>3 DEF BottomKept, Kept, st, w
  <2> QED
    BY <2>4, <2>5
<1> QED
  BY <1>3, <1>4

\* A crash keeps the invariant.
LEMMA CrashInv == ASSUME PBInv, NEW s \in Servers, Crash(s) PROVE PBInv'
<1>1. /\ s \in up /\ crashes < env.crashes /\ LeavesOnePart(s) /\ CrashedStack(s)
      /\ up' = up \ {s} /\ pbview' = [pbview EXCEPT ![s] = NoView]
      /\ connected' = [connected EXCEPT ![s] = TRUE] /\ db' = [db EXCEPT ![s] = Empty]
      /\ locked' = [locked EXCEPT ![s] = FALSE] /\ crashes' = crashes + 1
      /\ UNCHANGED <<vsVars, env, clerkVars>>
  BY DEF Crash, CrashedStack, Unlock
<1>2. /\ StacksInv /\ PlacesInv /\ MutexOK(stack, locked) /\ (FailStop => CallsInv)
      /\ ViewsInv /\ (FailStop => PrimaryInv)
  BY DEF PBInv, Core, MutexInv
<1>3. Survive(s)
  BY <1>1, <1>2, Survivors
<1>4. StacksInv' /\ PlacesInv' /\ MutexOK(stack', locked') /\ (FailStop => CallsInv')
  BY <1>1, <1>2, <1>3, CrashStacks, CrashPlaces, CrashMutex, CrashCalls, ServiceData
<1>5. /\ Resting(s)'
      /\ \A q \in Servers : q # s => BottomKept(stack'[Live(q)], stack[Live(q)])
  BY <1>1, <1>2, CrashTicks
<1>6. ASSUME NEW q \in Servers, q # s
      PROVE  /\ Resting(q)' <=> Resting(q)
             /\ ~ Resting(q) => /\ TickFrame(q)'.arg = TickFrame(q).arg
                                /\ TickFrame(q)'.pc = "start" <=> TickFrame(q).pc = "start"
             /\ pbview'[q] = pbview[q]
  BY <1>1, <1>5, <1>6, ServiceData DEF BottomKept, Resting, TickFrame
<1>7. pbview'[s] = NoView /\ NoView \in View /\ DistinctRoles(NoView)
  BY <1>1, ServiceData DEF NoView, View, DistinctRoles
<1>8. ViewsInv'
  <2>1. VSInv'
    BY <1>1, <1>2, SameInv DEF ViewsInv, vsVars
  <2> SUFFICES ASSUME NEW q \in Servers
               PROVE  /\ DistinctRoles(pbview'[q])
                      /\ ~ Resting(q)' =>
                            /\ DistinctRoles(TickFrame(q)'.arg) /\ TickFrame(q)'.arg.Viewnum # 0
                            /\ TickFrame(q)'.pc # "start" =>
                                  pbview'[q] = TickFrame(q)'.arg /\ pbview'[q].Primary = q
    BY <2>1 DEF ViewsInv, DistinctRoles
  <2>2. CASE q = s
    BY <1>5, <1>7, <2>2
  <2>3. CASE q # s
    BY <1>2, <1>6, <2>3 DEF ViewsInv
  <2> QED
    BY <2>2, <2>3
<1>9. ASSUME FailStop PROVE PrimaryInv'
  <2>1. PrimaryInv /\ up \subseteq Servers
    BY <1>2, <1>9, ServiceData
  <2>2. UNCHANGED <<view, newView, age>>
    BY <1>1 DEF vsVars
  <2> SUFFICES ASSUME NEW q \in up, q # s
               PROVE  /\ q \in {newView.Primary, newView.Backup} =>
                            /\ age[q] <= DeadPings
                            /\ (Resting(q) \/ TickFrame(q).pc # "start")' => pbview'[q].Viewnum # 0
                      /\ view.Primary = q => newView.Primary = q
                      /\ pbview'[q].Primary = q => view.Primary = q
                      /\ ~ Resting(q)' => (pbview'[q].Primary = q => TickFrame(q)'.arg.Primary = q)
                      /\ ~ Resting(q)' => (TickFrame(q)'.arg.Primary = q => view.Primary = q)
    BY <1>1, <2>2 DEF PrimaryInv
  <2> QED
    BY <1>6, <2>1 DEF PrimaryInv
<1>10. /\ VSTypeOK' /\ up' \subseteq Servers /\ pbview' \in [Servers -> View]
       /\ connected' \in [Servers -> BOOLEAN] /\ locked' \in [Servers -> BOOLEAN]
       /\ \A q \in Servers : connected[q] => connected'[q]
  BY <1>1, <1>7, ServiceData DEF vsVars, VSTypeOK
<1>11. db' \in [Servers -> [Keys -> 0 .. env.puts]] /\ crashes' \in 0 .. env.crashes
  <2>1. Empty \in [Keys -> 0 .. env.puts]
    BY ServiceData DEF Empty
  <2>2. db' \in [Servers -> [Keys -> 0 .. env.puts]]
    BY <1>1, <2>1, ServiceData
  <2>3. crashes' \in 0 .. env.crashes
    BY <1>1, ServiceData
  <2> QED
    BY <2>2, <2>3
<1> QED
  BY <1>1, <1>4, <1>8, <1>9, <1>10, <1>11, ServiceKeeps

-----------------------------------------------------------------------------
(* The theorems.                                                           *)

\* No thread, no call, no role, at first.
LEMMA InitInv == Init => PBInv
<1> SUFFICES ASSUME Init PROVE PBInv
  OBVIOUS
<1>1. /\ VSTypeOK /\ VSInv /\ newView = NoView /\ view = NoView
      /\ env \in Environments /\ env.puts \in Nat /\ env.crashes \in Nat
  BY StartType, StartInv, EnvironmentsAssumption DEF Init, VSInit, Environment
<1>2. /\ stack = [t \in Threads |-> <<>>] /\ Len(<<>>) = 0 /\ <<>> \in Seq(Frames)
      /\ \A t \in Threads : stack[t] = <<>> /\ Len(stack[t]) = 0
  BY DEF Init
<1>3. NoView \in View /\ DistinctRoles(NoView)
  BY DEF NoView, View, DistinctRoles
<1>4. DataOK
  <2>1. Empty \in [Keys -> 0 .. env.puts] /\ 0 \in 0 .. env.puts /\ 0 \in 0 .. env.crashes
    BY <1>1 DEF Empty
  <2> QED
    BY <1>1, <1>3, <2>1 DEF Init, DataOK
<1>5. StacksInv
  <2>1. stack \in [Threads -> Seq(Frames)]
    BY <1>2
  <2>2. \A t \in Threads : StackOK(t, stack[t], env, puts, stored)
    BY <1>2 DEF StackOK, FramesOK, LinksOK, BottomOK
  <2> QED
    BY <2>1, <2>2 DEF StacksInv
<1>6. PlacesInv /\ CallsInv
  BY <1>2 DEF PlacesInv, CallsInv, CallsOK
<1>7. MutexInv /\ locked \in [Servers -> BOOLEAN]
  BY <1>2 DEF Init, MutexInv, MutexOK, Keeps
<1>8. ConnectedInv
  BY DEF Init, ConnectedInv, AckedIsStored
<1>9. \A s \in Servers : Resting(s) /\ pbview[s] = NoView
  <2>1. \A s \in Servers : Live(s) \in Threads
    BY DEF Live, Threads, Owners
  <2> QED
    BY <1>2, <2>1 DEF Init, Resting
<1>10. ViewsInv
  BY <1>1, <1>3, <1>9 DEF ViewsInv
<1>11. PrimaryInv
  BY <1>1, <1>9, Constants DEF Init, PrimaryInv, NoView
<1> QED
  BY <1>4, <1>5, <1>6, <1>7, <1>8, <1>10, <1>11 DEF PBInv, Core

\* Every step keeps it.
LEMMA NextInv == PBInv /\ [Next]_vars => PBInv'
<1> SUFFICES ASSUME PBInv, [Next]_vars PROVE PBInv'
  OBVIOUS
<1>1. ASSUME NEW c \in Clerks, StartPut(c) \/ StartGet(c) \/ ClerkStep(c) PROVE PBInv'
  BY <1>1, StartPutInv, StartGetInv, ClerkCallInv, ClerkPutReturnInv, ClerkGetReturnInv DEF ClerkStep
<1>2. ASSUME NEW t \in Threads, Handle(t) PROVE PBInv'
  BY <1>2, HandleInv
<1>3. ASSUME NEW s \in Servers, TickPing(s) \/ TickPingFails(s) \/ TickStep(s) PROVE PBInv'
  BY <1>3, TickPingInv, TickPingFailsInv, TickViewInv, TickMoveInv, TickMovedInv DEF TickStep
<1>4. ASSUME NEW s \in Servers, Crash(s) \/ Restart(s) PROVE PBInv'
  BY <1>4, CrashInv, RestartInv
<1>5. CASE VSTick \/ TimePasses
  BY <1>5, VSTickInv, TimePassesInv
<1>6. CASE UNCHANGED vars
  <2>1. UNCHANGED <<vsVars, env, up, pbview, connected, db, locked, crashes, stack, clerkVars>>
    BY <1>6 DEF vars, pbVars
  <2>2. /\ StacksInv' /\ PlacesInv' /\ MutexOK(stack', locked') /\ (FailStop => CallsInv')
        /\ \A q \in Servers : (Resting(q)' <=> Resting(q)) /\ TickFrame(q)' = TickFrame(q)
    BY <2>1, StacksSame
  <2>3. VSTypeOK' /\ VSInv'
    BY <2>1, SameInv, ServiceData DEF PBInv, ViewsInv, vsVars, VSTypeOK
  <2>4. ViewsInv'
    BY <2>1, <2>2, <2>3, ViewsSame
  <2>5. FailStop => PrimaryInv'
    BY <2>1, <2>2, PrimarySame, ServiceData DEF PBInv, PrimaryInv, vsVars
  <2> QED
    BY <2>1, <2>2, <2>3, <2>4, <2>5, ServiceKeeps, ServiceData
<1> QED
  BY <1>1, <1>2, <1>3, <1>4, <1>5, <1>6 DEF Next

\* So it always holds.
LEMMA SystemInv == Spec => []PBInv
  BY InitInv, NextInv, PTL DEF Spec

\* Every variable keeps its type: frames are at the clerks and servers and do
\* what those do, numbers stay within the environment's bounds.
THEOREM TypeCorrect == Spec => []TypeOK
<1>1. ASSUME PBInv PROVE TypeOK
  <2>1. DataOK /\ locked \in [Servers -> BOOLEAN] /\ StacksInv
    BY <1>1 DEF PBInv, Core
  <2>2. ASSUME NEW t \in Threads, NEW i \in 1 .. Len(stack[t])
        PROVE  stack[t][i].at \in Owners /\ stack[t][i].op \in Ops
    <3>1. stack[t][i] \in Frames
      BY <2>1 DEF StacksInv, StackOK, FramesOK, FrameOK
    <3> QED
      BY <3>1 DEF Frames
  <2> QED
    BY <2>1, <2>2 DEF DataOK, TypeOK
<1> QED
  BY <1>1, SystemInv, PTL

\* The holders of a mutex are the frames that keep it.
LEMMA HoldersFacts ==
    ASSUME StacksInv, NEW s, NEW x
    PROVE  x \in Holders(s) <=>
              \E t \in Threads, i \in Nat : x = <<t, i>> /\ s \in Servers /\ Keeps(stack[t], s, i)
<1>1. ASSUME NEW t \in Threads
      PROVE  /\ DOMAIN stack[t] = 1 .. Len(stack[t])
             /\ \A i \in 1 .. Len(stack[t]) :
                   i \in Nat /\ (HoldsLock(stack[t][i]) => stack[t][i].at \in Servers)
  <2>1. stack[t] \in Seq(Frames) /\ StackOK(t, stack[t], env, puts, stored)
    BY DEF StacksInv
  <2>2. ASSUME NEW i \in 1 .. Len(stack[t]), HoldsLock(stack[t][i]) PROVE stack[t][i].at \in Servers
    BY <2>1, <2>2 DEF StackOK, FramesOK, FrameOK, PlaceOK, HoldsLock
  <2> QED
    BY <2>1, <2>2
<1>2. ASSUME x \in Holders(s)
      PROVE  \E t \in Threads, i \in Nat : x = <<t, i>> /\ s \in Servers /\ Keeps(stack[t], s, i)
  <2>1. PICK t \in Threads : x \in {t} \X DOMAIN stack[t]
    BY <1>2 DEF Holders
  <2>2. PICK i \in 1 .. Len(stack[t]) : x = <<t, i>>
    BY <1>1, <2>1
  <2>3. stack[t][i].at = s /\ HoldsLock(stack[t][i])
    BY <1>2, <2>2 DEF Holders
  <2> QED
    BY <1>1, <2>2, <2>3 DEF Keeps
<1>3. ASSUME NEW t \in Threads, NEW i \in Nat, x = <<t, i>>, Keeps(stack[t], s, i)
      PROVE  x \in Holders(s)
  <2>1. i \in DOMAIN stack[t] /\ stack[t][i].at = s /\ HoldsLock(stack[t][i])
    BY <1>1, <1>3 DEF Keeps
  <2>2. x \in UNION { {u} \X DOMAIN stack[u] : u \in Threads }
    BY <1>3, <2>1
  <2> QED
    BY <1>3, <2>1, <2>2 DEF Holders
<1> QED
  BY <1>2, <1>3

\* A server's mutex is held exactly while one handler or tick is in its
\* critical section, through crashes, lost calls and concurrent ticks.
THEOREM MutexesSound == Spec => []MutexSound
<1>1. ASSUME PBInv PROVE MutexSound
  <2>1. StacksInv /\ MutexOK(stack, locked)
    BY <1>1 DEF PBInv, Core, MutexInv
  <2> SUFFICES ASSUME NEW s \in Servers
               PROVE  /\ locked[s] <=> Holders(s) # {}
                      /\ \A x, y \in Holders(s) : x = y
    BY DEF MutexSound
  <2>2. \A x : x \in Holders(s) <=> \E t \in Threads, i \in Nat : x = <<t, i>> /\ Keeps(stack[t], s, i)
    BY <2>1, HoldersFacts
  <2>3. locked[s] <=> Holders(s) # {}
    BY <2>1, <2>2 DEF MutexOK
  <2>4. \A x, y \in Holders(s) : x = y
    BY <2>1, <2>2 DEF MutexOK
  <2> QED
    BY <2>3, <2>4
<1> QED
  BY <1>1, SystemInv, PTL

\* While no ping fails, a Put that returned to its clerk is stored by a server
\* that took itself for the primary.
THEOREM PutsAreStored == Spec => []AckedWhileConnected
<1>1. ASSUME PBInv PROVE AckedWhileConnected
  BY <1>1 DEF PBInv, ConnectedInv, AckedWhileConnected
<1> QED
  BY <1>1, SystemInv, PTL

\* If servers at worst crash, only the primary's mutex is ever held.
LEMMA OnlyPrimaryHolds ==
    ASSUME PBInv, FailStop, NEW s \in Servers, NEW t \in Threads, NEW i \in Nat, Keeps(stack[t], s, i)
    PROVE  s = view.Primary
<1> DEFINE f == stack[t][i]
<1>1. /\ StacksInv /\ PlacesInv /\ ViewsInv /\ PrimaryInv /\ CallsOK(stack[t], pbview)
      /\ i \in 1 .. Len(stack[t]) /\ f.at = s /\ HoldsLock(f)
  BY DEF PBInv, Core, CallsInv, Keeps
<1>2. s \in up
  BY <1>1, Constants DEF PlacesInv
<1>3. pbview[s].Primary = s
  <2>1. CASE f.op = "Put"
    BY <1>1, <2>1 DEF HoldsLock, CallsOK
  <2>2. CASE f.op = "Tick"
    <3>1. BottomOK(t, stack[t]) /\ stack[t] # <<>>
      <4>1. Len(<<>>) = 0
        OBVIOUS
      <4> QED
        BY <1>1, <4>1 DEF StacksInv, StackOK
    <3>2. i = 1 /\ t[2] = "live" /\ t[1] = s
      BY <1>1, <2>2, <3>1 DEF BottomOK, BottomOps
    <3>3. t = Live(s)
      BY <3>2 DEF Threads, Live
    <3>4. ~ Resting(s) /\ TickFrame(s).pc # "start"
      BY <1>1, <2>2, <3>1, <3>2, <3>3 DEF Resting, TickFrame, HoldsLock
    <3> QED
      BY <1>1, <3>4 DEF ViewsInv
  <2> QED
    BY <1>1, <2>1, <2>2 DEF HoldsLock
<1> QED
  BY <1>1, <1>2, <1>3 DEF PrimaryInv

\* ... and a thread that holds it does not wait for it: it calls other servers.
LEMMA NoSelfWait ==
    ASSUME PBInv, FailStop, NEW t \in Threads, Waits(t), NEW i \in Nat,
           Keeps(stack[t], Top(t).at, i)
    PROVE  FALSE
<1> DEFINE st == stack[t]
           m == Len(st)
           f == st[i]
           g == st[i + 1]
<1>1. st # <<>> /\ (Top(t).pc = "lock" \/ Top(t).op \in {"ForwardPut", "MoveDB"})
  BY DEF Waits
<1>2. /\ m \in Nat \ {0} /\ Top(t) = st[m] /\ StackOK(t, st, env, puts, stored)
      /\ CallsOK(st, pbview)
  BY <1>1, TopFrame DEF PBInv, Core, CallsInv
<1>3. i \in 1 .. m /\ f.at = Top(t).at /\ HoldsLock(f)
  BY DEF Keeps
<1>4. i # m
  BY <1>1, <1>2, <1>3 DEF HoldsLock
<1>5. i \in 1 .. m - 1 /\ i + 1 \in 1 .. m /\ (i + 1 # m => i + 1 \in 1 .. m - 1)
  <2> HIDE DEF m
  <2> QED
    BY <1>2, <1>3, <1>4
<1>6. Calls(f, g.op, g.arg) /\ FrameOK(g, env, puts, stored)
  BY <1>2, <1>5 DEF StackOK, LinksOK, FramesOK
<1>7. f.op \in {"Put", "Tick"} /\ g.op \in {"ForwardPut", "MoveDB"}
  BY <1>3, <1>6 DEF HoldsLock, Calls
<1>8. g.pc = "start"
  BY <1>6, <1>7 DEF FrameOK, PcOK
<1>9. i + 1 = m
  <2>1. i + 1 \in 1 .. m - 1 => g.pc = "wait"
    BY <1>2 DEF StackOK, LinksOK
  <2> QED
    BY <1>5, <1>8, <2>1
<1>10. g.at # f.at
  BY <1>2, <1>3, <1>4, <1>7 DEF CallsOK
<1> QED
  BY <1>2, <1>3, <1>9, <1>10

\* No two handlers or ticks wait for each other's mutex, as long as servers do
\* nothing worse than crash: there is one primary, and the backup holds nothing.
THEOREM MutexesAcyclic == Spec => []NoMutexCycle
<1>1. ASSUME PBInv PROVE NoMutexCycle
  <2> SUFFICES ASSUME FailStop, NEW t \in Threads, NEW u \in Threads, WaitsFor(t, u), WaitsFor(u, t)
               PROVE  FALSE
    BY DEF NoMutexCycle
  <2>1. StacksInv /\ MutexOK(stack, locked)
    BY <1>1 DEF PBInv, Core, MutexInv
  <2>2. ASSUME NEW a \in Threads, NEW b \in Threads, WaitsFor(a, b)
        PROVE  Waits(a) /\ Top(a).at \in Servers /\ \E j \in Nat : Keeps(stack[b], Top(a).at, j)
    <3>1. Waits(a) /\ \E x \in Holders(Top(a).at) : x[1] = b
      BY <2>2 DEF WaitsFor
    <3>2. PICK x \in Holders(Top(a).at) : x[1] = b
      BY <3>1
    <3>3. \E c \in Threads, j \in Nat :
             x = <<c, j>> /\ Top(a).at \in Servers /\ Keeps(stack[c], Top(a).at, j)
      BY <2>1, <3>2, HoldersFacts
    <3> QED
      BY <3>1, <3>2, <3>3
  <2>3. Waits(t) /\ Top(t).at \in Servers
    BY <2>2
  <2>4. PICK j \in Nat : Keeps(stack[u], Top(t).at, j)
    BY <2>2
  <2>5. Top(u).at \in Servers
    BY <2>2
  <2>6. PICK i \in Nat : Keeps(stack[t], Top(u).at, i)
    BY <2>2
  <2>7. Top(t).at = view.Primary /\ Top(u).at = view.Primary
    BY <1>1, <2>3, <2>4, <2>5, <2>6, OnlyPrimaryHolds
  <2> QED
    BY <1>1, <2>3, <2>6, <2>7, NoSelfWait
<1> QED
  BY <1>1, SystemInv, PTL

=============================================================================
