------------------------------- MODULE RDT_proofs -------------------------------
(***************************************************************************)
(* Theorems about the reliable data transfer layer, for windows, buffers   *)
(* and sequence numbers of any size: it is a FIFO channel, and its         *)
(* bookkeeping is sound.                                                   *)
(***************************************************************************)
EXTENDS RDT, DataLemmas, SequenceTheorems

-----------------------------------------------------------------------------
(* The inductive invariant.  Everything is said in terms of the ids of the *)
(* packets, their positions in the stream: those up to Acked are known to  *)
(* the sender to have arrived, those up to Out have gone out, the others   *)
(* wait in the buffer; those up to Handed have been handed up.  Packet i   *)
(* has its sequence number and its place in a window from i alone.         *)

Acked == sent - n_buf - n_snd_win
Out == sent - n_buf
Handed == Len(delivered)

Pkt(i) == [seq |-> (i - 1) % SeqMod, id |-> i]
Place(i) == (i - 1) % WIN_SIZE

\* The sender: its window has the packets from Acked to Out, its buffer the
\* rest.
SenderInv ==
    /\ Acked \in Nat
    /\ snd_win_t = Acked % WIN_SIZE
    /\ next_seq = sent % SeqMod
    /\ \A i \in Acked + 1 .. Out : win[Place(i)] = Pkt(i)
    /\ \A j \in 0 .. n_buf - 1 : buffer[(buf_t + j) % BSIZE] = Pkt(Out + 1 + j)
    /\ TimerArmed
    /\ WindowFirst

\* The receiver: what it has handed up is the beginning of the stream, its
\* window has packets of the next WIN_SIZE that have gone out, but not the
\* next one.
ReceiverInv ==
    /\ delivered = [i \in 1 .. Handed |-> i]
    /\ expected_ack = Handed % SeqMod
    /\ rcv_win_tailer = Handed % WIN_SIZE
    /\ \A i \in Handed + 1 .. Handed + WIN_SIZE :
          \/ rcv_win[Place(i)] = 0
          \/ rcv_win[Place(i)] = i /\ i <= Out
    /\ rcv_win[Place(Handed + 1)] = 0
    /\ CountsElements

\* A packet under way has gone out, and is not too old for its sequence
\* number.  Only the oldest packet of the sender's window is sent again, so
\* any later one is under way once, and not yet in the receiver's window.
DataSound(acked, out) ==
    \A p \in BagToSet(data) :
        /\ p.id \in 1 .. out
        /\ p = Pkt(p.id)
        /\ Handed <= p.id + Lifetime
        /\ p.id > acked + 1 => data[p] = 1
        /\ p.id > acked + 1 /\ p.id > Handed => rcv_win[Place(p.id)] = 0
DataInv == DataSound(Acked, Out)

\* An ack under way names the last packet that had been handed up when it was
\* sent, and is not too old for its sequence number.
AcksInv ==
    \A a \in BagToSet(acks) :
        /\ a.last <= Handed
        /\ a.seq = (a.last + MAX_SEQ) % SeqMod
        /\ Handed <= a.last + Lifetime

RDTInv ==
    /\ TypeOK
    /\ SenderInv
    /\ ReceiverInv
    /\ Acked <= Handed /\ Handed <= Out
    /\ DataInv
    /\ AcksInv
-----------------------------------------------------------------------------
(* The operators of the model.                                             *)

\* What the assumption says of the constants, one fact each.
LEMMA Constants ==
    /\ SeqMod \in Nat \ {0} /\ WIN_SIZE \in Nat \ {0} /\ BSIZE \in Nat \ {0}
    /\ MAX_SEQ \in Nat /\ SeqMod = MAX_SEQ + 1
    /\ Lifetime \in Nat /\ WIN_SIZE <= Lifetime /\ Lifetime <= MAX_SEQ - WIN_SIZE
  BY RDTAssumption DEF SeqMod

\* A remainder is a remainder, of a negative number too.
LEMMA Residues ==
    ASSUME NEW x \in Int
    PROVE  /\ x % SeqMod \in 0 .. MAX_SEQ
           /\ x % WIN_SIZE \in 0 .. WIN_SIZE - 1
           /\ x % BSIZE \in 0 .. BSIZE - 1
<1>1. ASSUME NEW m \in Nat \ {0} PROVE x % m \in 0 .. m - 1
  OBVIOUS
<1> QED
  BY <1>1, Constants

\* A sequence number that is less than one round away.
LEMMA RoundOnce ==
    ASSUME NEW x \in -SeqMod .. SeqMod - 1
    PROVE  /\ x % SeqMod = IF x >= 0 THEN x ELSE x + SeqMod
           /\ (x + SeqMod) % SeqMod = IF x >= 0 THEN x ELSE x + SeqMod
<1>1. x % SeqMod = IF x < 0 THEN x + SeqMod ELSE x
  BY Constants, ModSmall
<1>2. CASE x >= 0
  <2>1. x + SeqMod = SeqMod * 1 + x /\ x \in 0 .. SeqMod - 1 /\ x + SeqMod \in Int
    BY <1>2, Constants
  <2>2. (x + SeqMod) % SeqMod = x
    BY <2>1, Constants, ModUnique
  <2> QED
    BY <1>1, <1>2, <2>2, Constants
<1>3. CASE ~ (x >= 0)
  <2> DEFINE y == x + SeqMod
  <2>1. y = SeqMod * 0 + y /\ y \in 0 .. SeqMod - 1 /\ y \in Int
    BY <1>3, Constants
  <2> HIDE DEF y
  <2>2. y % SeqMod = y
    BY <2>1, Constants, ModUnique
  <2>3. x < 0
    BY <1>3, Constants
  <2> QED
    BY <1>1, <1>3, <2>2, <2>3 DEF y
<1> QED
  BY <1>2, <1>3

\* The packet made of the i-th message is a packet, and carries that message.
LEMMA PktType == ASSUME NEW i \in Nat \ {0} PROVE Pkt(i) \in Packet /\ Pkt(i).id = i
  BY Constants DEF Pkt, Packet

\* The place of the i-th packet in the sender's ring (index (i - 1) % WIN_SIZE).
LEMMA PlaceIs ==
    ASSUME NEW i \in Int, NEW x \in Int, i - 1 = x
    PROVE  Place(i) = x % WIN_SIZE
  BY DEF Place

\* Neighbours have different places.
LEMMA PlacesDiffer ==
    ASSUME NEW i \in Nat, NEW k \in Nat, i < k + WIN_SIZE, k < i + WIN_SIZE, Place(i) = Place(k)
    PROVE  i = k
<1> DEFINE a == i - 1
           b == k - 1
<1>1. a \in Int /\ b \in Int /\ a - b \in -WIN_SIZE + 1 .. WIN_SIZE - 1
  BY Constants
<1>2. a % WIN_SIZE = b % WIN_SIZE
  BY DEF Place
<1> HIDE DEF a, b
<1>3. a = b
  BY <1>1, <1>2, Constants, ModInjective
<1> QED
  BY <1>3 DEF a, b

\* Ring r is ring from tail t on for m elements, and then has the packets pkts.
Extended(r, ring, size, t, m, pkts) ==
    /\ r \in [0 .. size - 1 -> Packet]
    /\ \A j \in 0 .. m - 1 : r[(t + j) % size] = ring[(t + j) % size]
    /\ \A k \in 1 .. Len(pkts) : r[(t + m + k - 1) % size] = pkts[k]

\* Packets are put behind the elements of a ring, which stay in their places
\* (Extend; the loops of rdt_sender.cc that fill the two rings).
LEMMA RingExtend ==
    ASSUME NEW size \in Nat \ {0}, NEW ring \in [0 .. size - 1 -> Packet],
           NEW t \in Nat, NEW m \in 0 .. size,
           NEW pkts \in Seq(Packet), Len(pkts) <= size - m
    PROVE  Extended(Extend(ring, size, t, m, pkts), ring, size, t, m, pkts)
<1> DEFINE r == Extend(ring, size, t, m, pkts)
           J(i) == (i + size - ((t + m) % size)) % size
<1>1. \A i \in 0 .. size - 1 : J(i) \in 0 .. size - 1
  OBVIOUS
<1>2. \A k \in 1 .. Len(pkts) : pkts[k] \in Packet
  OBVIOUS
<1>3. r = [i \in 0 .. size - 1 |-> IF J(i) < Len(pkts) THEN pkts[J(i) + 1] ELSE ring[i]]
  BY DEF Extend
<1>4. ASSUME NEW y \in 0 .. size - 1
      PROVE  J((t + y) % size) = IF y < m THEN y - m + size ELSE y - m
  <2> DEFINE a == t + y
             b == t + m
  <2>1. a \in Int /\ b \in Int /\ a % size \in Int /\ a - b = y - m
    OBVIOUS
  <2>2. J(a % size) = ((a % size) + size - (b % size)) % size
    OBVIOUS
  <2> HIDE DEF J, a, b
  <2>3. J(a % size) = ((a % size) - b) % size
    BY <2>1, <2>2, ModDiff
  <2>4. ((a % size) - b) % size = (a - b) % size
    <3>1. -b \in Int /\ (a % size) + (-b) = (a % size) - b /\ a + (-b) = a - b
      BY <2>1
    <3> QED
      BY <2>1, <3>1, ModShift
  <2>5. y - m \in -size .. size - 1
    OBVIOUS
  <2>6. J(a % size) = IF y - m < 0 THEN y - m + size ELSE y - m
    BY <2>1, <2>3, <2>4, <2>5, ModSmall
  <2> QED
    BY <2>6 DEF a
<1>5. r \in [0 .. size - 1 -> Packet]
  BY <1>1, <1>2, <1>3
<1> HIDE DEF J
<1>6. ASSUME NEW j \in 0 .. m - 1 PROVE r[(t + j) % size] = ring[(t + j) % size]
  BY <1>3, <1>4
<1>7. ASSUME NEW k \in 1 .. Len(pkts) PROVE r[(t + m + k - 1) % size] = pkts[k]
  <2> DEFINE y == m + k - 1
  <2>1. y \in 0 .. size - 1 /\ t + y = t + m + k - 1 /\ y - m = k - 1 /\ ~ y < m
    OBVIOUS
  <2> HIDE DEF y
  <2>2. (t + y) % size \in 0 .. size - 1 /\ J((t + y) % size) = k - 1
    BY <1>4, <2>1
  <2>3. r[(t + y) % size] = pkts[k]
    BY <1>3, <2>2
  <2> QED
    BY <2>1, <2>3
<1> QED
  BY <1>5, <1>6, <1>7 DEF Extended

\* What is passed to the lower layer is under way as before, but for some more
\* of the packets (Passes; the lossy link of rdt_sim.cc).
LEMMA PassesFacts ==
    ASSUME NEW B, IsABag(B), NEW S, NEW b \in Passes(B, S)
    PROVE  /\ IsABag(b)
           /\ BagToSet(B) \subseteq BagToSet(b) /\ BagToSet(b) \subseteq BagToSet(B) \cup S
           /\ \A e \in BagToSet(b) :
                 \/ b[e] = (IF e \in BagToSet(B) THEN B[e] ELSE 0) + (IF e \in S THEN 1 ELSE 0)
                 \/ b[e] = (IF e \in BagToSet(B) THEN B[e] ELSE 0)
<1>1. PICK kept \in SUBSET S : b = B (+) SetToBag(kept)
  BY DEF Passes
<1>2. /\ IsABag(b) /\ BagToSet(b) = BagToSet(B) \cup kept
      /\ \A e \in BagToSet(B) \cup kept :
            b[e] = (IF e \in BagToSet(B) THEN B[e] ELSE 0) + (IF e \in kept THEN 1 ELSE 0)
  BY <1>1, BagAdd
<1>3. ASSUME NEW e \in BagToSet(b), e \in BagToSet(B) => B[e] \in Nat
      PROVE  \/ b[e] = (IF e \in BagToSet(B) THEN B[e] ELSE 0) + (IF e \in S THEN 1 ELSE 0)
             \/ b[e] = (IF e \in BagToSet(B) THEN B[e] ELSE 0)
  BY <1>2, <1>3
<1> QED
  BY <1>1, <1>2, <1>3 DEF IsABag, BagToSet

\* Packet a + j + 1 is in the j-th place from the tail on, if a have left.
LEMMA PlaceFrom ==
    ASSUME NEW a \in Int, NEW j \in Int
    PROVE  ((a % WIN_SIZE) + j) % WIN_SIZE = Place(a + j + 1)
<1>1. ((a % WIN_SIZE) + j) % WIN_SIZE = (a + j) % WIN_SIZE
  BY Constants, ModShift
<1>2. a + j + 1 - 1 = a + j
  OBVIOUS
<1> QED
  BY <1>1, <1>2 DEF Place

\* Window r is the window ring, which has the m packets after the first a,
\* with the packets pkts behind them.
WindowExtended(r, ring, a, m, pkts) ==
    /\ r \in [0 .. WIN_SIZE - 1 -> Packet]
    /\ \A i \in a + 1 .. a + m : r[Place(i)] = ring[Place(i)]
    /\ \A i \in a + m + 1 .. a + m + Len(pkts) : r[Place(i)] = pkts[i - a - m]

\* The same of the sender's window, in terms of the stream.
LEMMA WindowExtend ==
    ASSUME NEW a \in Nat, NEW m \in 0 .. WIN_SIZE,
           NEW ring \in [0 .. WIN_SIZE - 1 -> Packet],
           NEW pkts \in Seq(Packet), Len(pkts) <= WIN_SIZE - m
    PROVE  WindowExtended(Extend(ring, WIN_SIZE, a % WIN_SIZE, m, pkts), ring, a, m, pkts)
<1> DEFINE t == a % WIN_SIZE
           r == Extend(ring, WIN_SIZE, t, m, pkts)
<1>1. t \in Nat
  BY Constants
<1>2. /\ r \in [0 .. WIN_SIZE - 1 -> Packet]
      /\ \A j \in 0 .. m - 1 : r[(t + j) % WIN_SIZE] = ring[(t + j) % WIN_SIZE]
      /\ \A k \in 1 .. Len(pkts) : r[(t + m + k - 1) % WIN_SIZE] = pkts[k]
  <2>1. WIN_SIZE \in Nat \ {0}
    BY Constants
  <2> HIDE DEF t
  <2>2. Extended(r, ring, WIN_SIZE, t, m, pkts)
    BY <1>1, <2>1, RingExtend
  <2> HIDE DEF r
  <2> QED
    BY <2>2 DEF Extended
<1> HIDE DEF r
<1>3. ASSUME NEW i \in a + 1 .. a + m PROVE r[Place(i)] = ring[Place(i)]
  <2> DEFINE j == i - a - 1
  <2>1. j \in 0 .. m - 1 /\ a + j + 1 = i
    OBVIOUS
  <2> HIDE DEF j
  <2>2. (t + j) % WIN_SIZE = Place(a + j + 1)
    BY <2>1, PlaceFrom
  <2> QED
    BY <1>2, <2>1, <2>2
<1>4. ASSUME NEW i \in a + m + 1 .. a + m + Len(pkts) PROVE r[Place(i)] = pkts[i - a - m]
  <2> DEFINE k == i - a - m
             j == m + k - 1
  <2>1. k \in 1 .. Len(pkts) /\ j \in Int /\ a + j + 1 = i /\ t + m + k - 1 = t + j
    BY <1>1
  <2> HIDE DEF k, j
  <2>2. (t + j) % WIN_SIZE = Place(a + j + 1)
    BY <2>1, PlaceFrom
  <2> QED
    BY <1>2, <2>1, <2>2 DEF k
<1> QED
  BY <1>2, <1>3, <1>4 DEF r, WindowExtended

\* The counts of a state that satisfies the invariant.
LEMMA Counts ==
    ASSUME RDTInv
    PROVE  /\ Acked \in Nat /\ Out \in Nat /\ Handed \in Nat /\ sent \in Nat
           /\ n_snd_win \in 0 .. WIN_SIZE /\ n_buf \in 0 .. BSIZE
           /\ Out = Acked + n_snd_win /\ sent = Out + n_buf
           /\ Acked <= Handed /\ Handed <= Out /\ Out <= Acked + WIN_SIZE
<1>1. Handed \in Nat
  BY DEF RDTInv, TypeOK, Handed
<1> QED
  BY <1>1, Constants DEF RDTInv, TypeOK, SenderInv, Acked, Out

-----------------------------------------------------------------------------
(* Steps of the sender leave the receiver alone; the packets they pass to  *)
(* the lower layer are new ones, or the oldest of the window.              *)

\* A step of the sender that only advances what is out leaves all that is known
\* of the receiver.
LEMMA ReceiverUntouched ==
    ASSUME RDTInv, UNCHANGED rcvVars, Out' \in Int, Out <= Out'
    PROVE  ReceiverInv'
  BY Counts DEF RDTInv, ReceiverInv, rcvVars, Handed, CountsElements

\* The lower layer stays sound when the sender hands it packets of its window,
\* if those are new or the oldest that is not acknowledged; losing and doubling
\* packets do no harm.
LEMMA DataSent ==
    ASSUME RDTInv, UNCHANGED rcvVars,
           NEW a \in Nat, Acked <= a, a <= Handed,
           NEW o \in Nat, Out <= o, o <= a + WIN_SIZE,
           NEW S, data' \in Passes(data, S),
           \A e \in S : \E i \in a + 1 .. o :
               e = Pkt(i) /\ (i > Out \/ i = a + 1)
    PROVE  DataSound(a, o)' /\ IsABag(data') /\ BagToSet(data') \subseteq Packet
<1>1. IsABag(data) /\ BagToSet(data) \subseteq Packet
  BY DEF RDTInv, TypeOK
<1>2. /\ IsABag(data')
      /\ BagToSet(data') \subseteq BagToSet(data) \cup S
      /\ \A e \in BagToSet(data') :
            \/ data'[e] = (IF e \in BagToSet(data) THEN data[e] ELSE 0) + (IF e \in S THEN 1 ELSE 0)
            \/ data'[e] = (IF e \in BagToSet(data) THEN data[e] ELSE 0)
  BY <1>1, PassesFacts
<1>3. S \subseteq Packet
  BY Counts, PktType
<1>4. Handed' = Handed /\ rcv_win' = rcv_win
  BY DEF rcvVars, Handed
<1>5. ASSUME NEW p \in BagToSet(data')
      PROVE  /\ p.id \in 1 .. o
             /\ p = Pkt(p.id)
             /\ Handed' <= p.id + Lifetime
             /\ p.id > a + 1 => data'[p] = 1
             /\ p.id > a + 1 /\ p.id > Handed' => rcv_win'[Place(p.id)] = 0
  <2>1. CASE p \in BagToSet(data)
    <3>1. /\ p.id \in 1 .. Out /\ p = Pkt(p.id) /\ Handed <= p.id + Lifetime
          /\ p.id > Acked + 1 => data[p] = 1
          /\ p.id > Acked + 1 /\ p.id > Handed => rcv_win[Place(p.id)] = 0
      BY <2>1 DEF RDTInv, DataInv, DataSound
    <3>2. p \in S => p.id = a + 1
      BY <3>1, Counts, PktType
    <3> QED
      BY <1>2, <1>4, <2>1, <3>1, <3>2, Counts
  <2>2. CASE p \notin BagToSet(data)
    <3>1. PICK i \in a + 1 .. o : p = Pkt(i) /\ (i > Out \/ i = a + 1)
      BY <1>2, <2>2
    <3>2. p.id = i /\ i \in 1 .. o
      BY <3>1, Counts, PktType
    <3>3. data'[p] = 1
      BY <1>2, <2>2 DEF IsABag, BagToSet
    <3>4. Handed <= i + Lifetime
      BY <3>2, Counts, Constants
    <3>5. ASSUME i > a + 1, i > Handed PROVE rcv_win[Place(i)] = 0
      <4>1. i \in Handed + 1 .. Handed + WIN_SIZE /\ ~ (i <= Out)
        BY <3>1, <3>2, <3>5, Counts, Constants
      <4> QED
        BY <4>1 DEF RDTInv, ReceiverInv
    <3> QED
      BY <1>4, <3>1, <3>2, <3>3, <3>4, <3>5
  <2> QED
    BY <2>1, <2>2
<1> QED
  BY <1>1, <1>2, <1>3, <1>5 DEF DataSound

\* So a step of the sender after which it knows of a packets that have arrived,
\* and o have gone out, keeps the part of the invariant that is about both.
LEMMA SenderStep ==
    ASSUME RDTInv, UNCHANGED rcvVars,
           NEW a \in Nat, Acked <= a, a <= Handed,
           NEW o \in Nat, Out <= o, o <= a + WIN_SIZE,
           sent' - n_buf' - n_snd_win' = a, sent' - n_buf' = o,
           NEW S, data' \in Passes(data, S),
           \A e \in S : \E i \in a + 1 .. o :
               e = Pkt(i) /\ (i > Out \/ i = a + 1)
    PROVE  /\ IsABag(data') /\ BagToSet(data') \subseteq Packet
           /\ DataInv' /\ ReceiverInv' /\ (Acked <= Handed)' /\ (Handed <= Out)'
<1>1. DataSound(a, o)' /\ IsABag(data') /\ BagToSet(data') \subseteq Packet
  BY DataSent
<1>2. DataInv'
  BY <1>1 DEF DataInv, DataSound, Acked, Out
<1>3. ReceiverInv'
  <2>1. Out' \in Int /\ Out <= Out'
    BY DEF Out
  <2> QED
    BY <2>1, ReceiverUntouched
<1>4. (Acked <= Handed)' /\ (Handed <= Out)'
  <2>1. Handed' = Handed
    BY DEF Handed, rcvVars
  <2>2. Handed <= o
    BY Counts
  <2> QED
    BY <2>1, <2>2 DEF Acked, Out
<1> QED
  BY <1>1, <1>2, <1>3, <1>4

\* The program has stopped, or nothing but the history of the program has
\* changed.
LEMMA NothingChanges ==
    ASSUME RDTInv, UNCHANGED <<sndVars, rcvVars, data, acks, sent>>, halted' \in BOOLEAN
    PROVE  RDTInv'
<1>1. TypeOK' /\ SenderInv' /\ ReceiverInv'
  BY DEF RDTInv, TypeOK, SenderInv, ReceiverInv, sndVars, rcvVars, Acked, Out, Handed,
         TimerArmed, WindowFirst, CountsElements
<1>2. (Acked <= Handed)' /\ (Handed <= Out)' /\ DataInv' /\ AcksInv'
  BY DEF RDTInv, DataInv, DataSound, AcksInv, sndVars, rcvVars, Acked, Out, Handed
<1> QED
  BY <1>1, <1>2 DEF RDTInv

\* The packets of a message continue the stream.
LEMMA NewPackets ==
    ASSUME RDTInv, NEW n \in Nat, NEW j \in 1 .. n
    PROVE  [seq |-> (next_seq + j - 1) % SeqMod, id |-> sent + j] = Pkt(sent + j)
<1>1. next_seq = sent % SeqMod /\ sent \in Int
  BY Counts DEF RDTInv, SenderInv
<1> DEFINE b == j - 1
<1>2. b \in Int /\ next_seq + j - 1 = (sent % SeqMod) + b /\ sent + j - 1 = sent + b
  BY <1>1, Constants
<1> HIDE DEF b
<1>3. (next_seq + j - 1) % SeqMod = (sent + j - 1) % SeqMod
  BY <1>1, <1>2, Constants, ModShift
<1> QED
  BY <1>1, <1>3 DEF Pkt

\* A message cut into packets goes to the window as far as there is room and to
\* the buffer beyond that, in order (rdt_sender.cc, Sender_FromUpperLayer).
LEMMA StepFromUpperLayer ==
    ASSUME RDTInv, Sender_FromUpperLayer
    PROVE  RDTInv'
<1>1. /\ ~ halted /\ UNCHANGED <<rcvVars, acks>>
      /\ TypeOK
  BY DEF Sender_FromUpperLayer, RDTInv
<1>2. PICK n \in 1 .. Lesser(MaxMsg, MaxSent - sent) :
       LET pkts == [j \in 1 .. n |-> [seq |-> (next_seq + j - 1) % SeqMod, id |-> sent + j]]
           direct == Lesser(n, WIN_SIZE - n_snd_win)
       IN  IF n - direct > BSIZE - n_buf
           THEN halted' = TRUE /\ UNCHANGED <<sndVars, data, sent>>
           ELSE /\ win' = Extend(win, WIN_SIZE, snd_win_t, n_snd_win, SubSeq(pkts, 1, direct))
                /\ n_snd_win' = n_snd_win + direct
                /\ buffer' = Extend(buffer, BSIZE, buf_t, n_buf, SubSeq(pkts, direct + 1, n))
                /\ n_buf' = n_buf + n - direct
                /\ next_seq' = (next_seq + n) % SeqMod
                /\ timer' = (timer \/ n_snd_win' # 0)
                /\ sent' = sent + n
                /\ data' \in Passes(data, {pkts[j] : j \in 1 .. direct})
                /\ UNCHANGED <<snd_win_t, buf_t, halted>>
  BY DEF Sender_FromUpperLayer
<1> DEFINE pkts == [j \in 1 .. n |-> [seq |-> (next_seq + j - 1) % SeqMod, id |-> sent + j]]
           direct == Lesser(n, WIN_SIZE - n_snd_win)
           now == SubSeq(pkts, 1, direct)
           later == SubSeq(pkts, direct + 1, n)
<1>3. CASE n - direct > BSIZE - n_buf
  <2>1. UNCHANGED <<sndVars, rcvVars, data, acks, sent>> /\ halted' \in BOOLEAN
    BY <1>1, <1>2, <1>3
  <2> QED
    BY <2>1, NothingChanges
<1>4. CASE ~ (n - direct > BSIZE - n_buf)
  <2>0. /\ win' = Extend(win, WIN_SIZE, snd_win_t, n_snd_win, now)
        /\ buffer' = Extend(buffer, BSIZE, buf_t, n_buf, later)
        /\ timer' = (timer \/ n_snd_win' # 0)
        /\ data' \in Passes(data, {pkts[j] : j \in 1 .. direct})
    BY <1>2, <1>4
  <2>1. /\ n_snd_win' = n_snd_win + direct
        /\ n_buf' = n_buf + n - direct
        /\ next_seq' = (next_seq + n) % SeqMod
        /\ sent' = sent + n
        /\ snd_win_t' = snd_win_t /\ buf_t' = buf_t /\ halted' = halted
    BY <1>2, <1>4
  <2>2. n \in Nat \ {0} /\ MaxSent \in Nat /\ MaxMsg \in Nat
    BY RDTAssumption, Counts DEF Lesser
  <2>3. /\ direct \in 0 .. n /\ direct <= WIN_SIZE - n_snd_win
        /\ direct = n \/ direct = WIN_SIZE - n_snd_win
        /\ n - direct <= BSIZE - n_buf
        /\ n_buf > 0 => direct = 0
    BY <1>4, <2>2, Counts, Constants DEF Lesser, RDTInv, SenderInv, WindowFirst
  <2>4. ASSUME NEW j \in 1 .. n PROVE pkts[j] = Pkt(sent + j) /\ pkts[j] \in Packet
    <3>1. pkts[j] = Pkt(sent + j)
      BY <2>2, NewPackets
    <3>2. sent + j \in Nat \ {0}
      BY <2>2, Counts
    <3> QED
      BY <3>1, <3>2, PktType
  <2> HIDE DEF pkts, direct
  <2>a. PICK a \in Nat, o \in Nat : a = Acked /\ o = Out + direct
    BY <2>2, <2>3, Counts
  <2>5. /\ now \in Seq(Packet) /\ Len(now) = direct
        /\ \A j \in 1 .. direct : now[j] = Pkt(sent + j)
    <3>1. \A j \in 1 .. direct : pkts[j] \in Packet
      BY <2>2, <2>3, <2>4
    <3>2. /\ now \in Seq(Packet) /\ Len(now) = IF 1 <= direct THEN direct - 1 + 1 ELSE 0
          /\ \A j \in 1 .. direct - 1 + 1 : now[j] = pkts[1 + j - 1]
      BY <2>3, <3>1, SubSeqProperties
    <3> QED
      BY <2>2, <2>3, <2>4, <3>2
  <2>6. /\ later \in Seq(Packet) /\ Len(later) = n - direct
        /\ \A j \in 1 .. n - direct : later[j] = Pkt(sent + direct + j)
    <3>1. \A j \in direct + 1 .. n : pkts[j] \in Packet
      BY <2>2, <2>3, <2>4
    <3>2. /\ later \in Seq(Packet) /\ Len(later) = IF direct + 1 <= n THEN n - (direct + 1) + 1 ELSE 0
          /\ \A j \in 1 .. n - (direct + 1) + 1 : later[j] = pkts[direct + 1 + j - 1]
      BY <2>2, <2>3, <3>1, SubSeqProperties
    <3>3. ASSUME NEW j \in 1 .. n - direct PROVE later[j] = Pkt(sent + direct + j)
      <4>1. later[j] = pkts[direct + j] /\ direct + j \in 1 .. n /\ sent + (direct + j) = sent + direct + j
        BY <2>2, <2>3, <3>2, Counts
      <4> QED
        BY <4>1, <2>4
    <3> QED
      BY <2>2, <2>3, <3>2, <3>3
  <2> HIDE DEF now, later
  <2>7. /\ win' \in [0 .. WIN_SIZE - 1 -> Packet]
        /\ \A i \in a + 1 .. Out : win'[Place(i)] = win[Place(i)]
        /\ \A i \in Out + 1 .. o : win'[Place(i)] = now[i - Out]
    <3>1. snd_win_t = a % WIN_SIZE /\ win \in [0 .. WIN_SIZE - 1 -> Packet]
      BY <1>1, <2>a DEF RDTInv, SenderInv, TypeOK
    <3>2. a \in Nat /\ n_snd_win \in 0 .. WIN_SIZE /\ Len(now) <= WIN_SIZE - n_snd_win
          /\ a + n_snd_win = Out /\ a + n_snd_win + Len(now) = o
      BY <2>3, <2>5, <2>a, Counts
    <3>3. WindowExtended(win', win, a, n_snd_win, now)
      <4> QED
        BY <2>0, <2>5, <3>1, <3>2, WindowExtend
    <3>4. ASSUME NEW i \in Out + 1 .. o PROVE i - a - n_snd_win = i - Out
      BY <2>3, <3>2, Counts
    <3> QED
      BY <3>2, <3>3, <3>4 DEF WindowExtended
  <2>8. Extended(buffer', buffer, BSIZE, buf_t, n_buf, later)
    <3>1. buffer \in [0 .. BSIZE - 1 -> Packet] /\ buf_t \in Nat /\ n_buf \in 0 .. BSIZE
          /\ BSIZE \in Nat \ {0} /\ Len(later) <= BSIZE - n_buf
      BY <1>1, <2>3, <2>6, Constants DEF TypeOK
    <3> QED
      BY <2>0, <2>6, <3>1, RingExtend
  <2>9. /\ a \in Nat /\ a <= Handed /\ Handed <= o /\ o \in Nat /\ Out <= o /\ o <= a + WIN_SIZE
        /\ o = a + n_snd_win'
        /\ sent' - n_buf' - n_snd_win' = a /\ sent' - n_buf' = o /\ sent' = sent + n
        /\ n_snd_win' \in 0 .. WIN_SIZE /\ n_buf' \in 0 .. BSIZE
    BY <2>1, <2>2, <2>3, <2>a, Counts, Constants
  <2>10. a = sent - n_buf - n_snd_win /\ Handed = Len(delivered)
    BY <2>a DEF Acked, Handed
  <2>11. /\ IsABag(data') /\ BagToSet(data') \subseteq Packet
         /\ DataInv' /\ ReceiverInv' /\ (Acked <= Handed)' /\ (Handed <= Out)'
    <3> DEFINE S == {pkts[j] : j \in 1 .. direct}
    <3>1. ASSUME NEW e \in S
          PROVE  \E i \in a + 1 .. o : e = Pkt(i) /\ (i > Out \/ i = a + 1)
      <4>1. PICK j \in 1 .. direct : e = pkts[j]
        OBVIOUS
      <4>2. sent + j \in a + 1 .. o /\ sent + j > Out /\ j \in 1 .. n
        BY <2>2, <2>3, <2>a, Counts, Constants
      <4> QED
        BY <2>4, <4>1, <4>2
    <3> HIDE DEF S
    <3>2. data' \in Passes(data, S) /\ UNCHANGED rcvVars /\ Acked <= a
      BY <1>1, <2>0, <2>a, <2>9, Counts DEF S
    <3> QED
      BY <2>9, <3>1, <3>2, SenderStep
  <2>12. SenderInv'
    <3>1. snd_win_t' = a % WIN_SIZE
      BY <2>1, <2>a DEF RDTInv, SenderInv
    <3>2. next_seq' = sent' % SeqMod
      <4>1. next_seq = sent % SeqMod
        BY DEF RDTInv, SenderInv
      <4>2. ((sent % SeqMod) + n) % SeqMod = (sent + n) % SeqMod
        <5>1. sent \in Int /\ n \in Int /\ SeqMod \in Nat \ {0}
          BY <2>2, Counts, Constants
        <5> QED
          BY <5>1, ModShift
      <4> QED
        BY <2>1, <4>1, <4>2
    <3>3. ASSUME NEW i \in a + 1 .. o PROVE win'[Place(i)] = Pkt(i)
      <4>1. CASE i <= Out
        <5>1. i \in a + 1 .. Out /\ i \in Acked + 1 .. Out
          BY <2>a, <4>1, Counts
        <5> QED
          BY <2>7, <5>1 DEF RDTInv, SenderInv
      <4>2. CASE i > Out
        <5>1. i \in Nat /\ o \in Nat /\ Out \in Nat /\ i <= o /\ i > Out /\ o = Out + direct /\ direct \in Nat
          BY <2>3, <2>a, <4>2, Counts
        <5>2. i \in Out + 1 .. o /\ i - Out \in 1 .. direct /\ direct # 0
          BY <5>1
        <5>3. n_buf = 0
          BY <2>3, <5>2, Counts
        <5>4. sent = Out
          BY <5>3, Counts
        <5>5. sent + (i - Out) = i
          BY <5>1, <5>4
        <5>6. win'[Place(i)] = now[i - Out]
          BY <2>7, <5>2
        <5>7. now[i - Out] = Pkt(sent + (i - Out))
          BY <2>5, <5>2
        <5> QED
          BY <5>5, <5>6, <5>7
      <4> QED
        BY <4>1, <4>2, Counts
    <3>4. ASSUME NEW j \in 0 .. n_buf' - 1 PROVE buffer'[(buf_t' + j) % BSIZE] = Pkt(o + 1 + j)
      <4>1. CASE j < n_buf
        <5>0. j \in 0 .. n_buf - 1 /\ n_buf > 0
          <6>1. j \in Nat /\ n_buf \in Nat
            BY <2>9, Counts
          <6> QED
            BY <4>1, <6>1
        <5>1. j \in 0 .. n_buf - 1 /\ o + 1 + j = Out + 1 + j
          <6>1. o = Out
            BY <2>3, <2>a, <5>0, Counts
          <6> QED
            BY <5>0, <6>1
        <5> QED
          BY <2>1, <2>8, <5>1 DEF RDTInv, SenderInv, Extended
      <4>2. CASE j >= n_buf
        <5> DEFINE k == j - n_buf + 1
        <5>1. /\ k \in 1 .. Len(later) /\ k \in 1 .. n - direct
              /\ sent + direct + k = o + 1 + j
              /\ buf_t + n_buf + k - 1 = buf_t' + j
          BY <1>1, <2>1, <2>2, <2>3, <2>6, <2>9, <2>a, <4>2, Counts, Constants DEF TypeOK
        <5> HIDE DEF k
        <5> QED
          BY <2>6, <2>8, <5>1 DEF Extended
      <4> QED
        BY <2>9, <4>1, <4>2, Counts
    <3>5. TimerArmed'
      <4>1. timer <=> n_snd_win > 0
        BY DEF RDTInv, SenderInv, TimerArmed
      <4>2. n_snd_win' # 0 <=> n_snd_win' > 0
        BY <2>9, Constants
      <4>3. n_snd_win > 0 => n_snd_win' > 0
        BY <2>1, <2>3, Counts, Constants
      <4> QED
        BY <2>0, <4>1, <4>2, <4>3 DEF TimerArmed
    <3>6. WindowFirst'
      <4>1. n_buf > 0 => n_snd_win = WIN_SIZE
        BY DEF RDTInv, SenderInv, WindowFirst
      <4>2. ASSUME direct = n PROVE n_buf' = 0
        <5>1. n_buf' = n_buf /\ direct # 0 /\ n_buf \in Nat
          BY <2>1, <2>2, <4>2, Counts
        <5> QED
          BY <2>3, <5>1
      <4>3. ASSUME direct # n PROVE n_snd_win' = WIN_SIZE
        BY <2>1, <2>3, <4>3, Counts, Constants
      <4> QED
        BY <4>2, <4>3 DEF WindowFirst
    <3> QED
      BY <2>9, <3>1, <3>2, <3>3, <3>4, <3>5, <3>6 DEF SenderInv, Acked, Out
  <2>13. TypeOK'
    <3>1. next_seq' \in 0 .. MAX_SEQ /\ sent' \in Nat
      <4>1. next_seq + n \in Int /\ sent + n \in Nat
        BY <1>1, <2>2, Counts DEF TypeOK
      <4> QED
        BY <2>1, <4>1, Residues
    <3>2. timer' \in BOOLEAN
      BY <1>1, <2>0 DEF TypeOK
    <3> QED
      BY <1>1, <2>1, <2>7, <2>8, <2>9, <2>11, <3>1, <3>2 DEF TypeOK, Extended, rcvVars
  <2>14. AcksInv'
    BY <1>1 DEF RDTInv, AcksInv, Handed, rcvVars
  <2> QED
    BY <2>11, <2>12, <2>13, <2>14 DEF RDTInv
<1> QED
  BY <1>3, <1>4

\* The oldest packet of the window.
LEMMA Oldest ==
    ASSUME RDTInv, n_snd_win # 0
    PROVE  win[snd_win_t] = Pkt(Acked + 1)
<1>1. Acked + 1 \in Acked + 1 .. Out /\ Acked + 1 - 1 = Acked
  BY Counts, Constants
<1>2. snd_win_t = Place(Acked + 1)
  BY <1>1 DEF RDTInv, SenderInv, Place
<1> QED
  BY <1>1, <1>2 DEF RDTInv, SenderInv

\* A timeout sends what is out again, from the oldest on (Sender_Timeout).
LEMMA StepTimeout ==
    ASSUME RDTInv, Sender_Timeout
    PROVE  RDTInv'
<1>1. /\ data' \in Passes(data, Resent)
      /\ timer' = (n_snd_win # 0)
      /\ UNCHANGED <<win, snd_win_t, n_snd_win, buffer, buf_t, n_buf, next_seq,
                     rcvVars, acks, halted, sent>>
  BY DEF Sender_Timeout, StillArmed
<1>2. PICK a \in Nat, o \in Nat : a = Acked /\ o = Out
  BY Counts
<1>3. /\ Acked <= a /\ a <= Handed /\ Out <= o /\ o <= a + WIN_SIZE
      /\ sent' - n_buf' - n_snd_win' = a /\ sent' - n_buf' = o
  BY <1>1, <1>2, Counts DEF Acked, Out
<1>4. ASSUME NEW e \in Resent
      PROVE  \E i \in a + 1 .. o : e = Pkt(i) /\ (i > Out \/ i = a + 1)
  <2>1. n_snd_win # 0 /\ e = Pkt(Acked + 1)
    BY Oldest DEF Resent
  <2>2. a + 1 \in a + 1 .. o
    BY <1>2, <2>1, Counts, Constants
  <2> QED
    BY <1>2, <2>1, <2>2
<1>5. /\ IsABag(data') /\ BagToSet(data') \subseteq Packet
      /\ DataInv' /\ ReceiverInv' /\ (Acked <= Handed)' /\ (Handed <= Out)'
  BY <1>1, <1>3, <1>4, SenderStep
<1>6. TimerArmed'
  <2>1. n_snd_win # 0 <=> n_snd_win > 0
    BY Counts, Constants
  <2> QED
    BY <1>1, <2>1 DEF TimerArmed
<1>7. SenderInv'
  BY <1>1, <1>6 DEF RDTInv, SenderInv, Acked, Out, WindowFirst
<1>8. TypeOK'
  BY <1>1, <1>5 DEF RDTInv, TypeOK, rcvVars
<1>9. AcksInv'
  BY <1>1 DEF RDTInv, AcksInv, Handed, rcvVars
<1> QED
  BY <1>5, <1>7, <1>8, <1>9 DEF RDTInv

\* A packet or an ack is taken from the link.
LEMMA StepCorrupted ==
    ASSUME RDTInv, Corrupted
    PROVE  RDTInv'
<1>1. /\ UNCHANGED <<sndVars, rcvVars, halted, sent>>
      /\ IsABag(data) /\ IsABag(acks)
  BY DEF Corrupted, RDTInv, TypeOK
<1>2. /\ IsABag(data') /\ BagToSet(data') \subseteq BagToSet(data)
      /\ \A e \in BagToSet(data') : data'[e] <= data[e]
      /\ IsABag(acks') /\ BagToSet(acks') \subseteq BagToSet(acks)
  <2>1. CASE \E p \in BagToSet(data) : data' = data (-) SetToBag({p}) /\ UNCHANGED acks
    <3>1. /\ IsABag(data') /\ BagToSet(data') \subseteq BagToSet(data)
          /\ \A e \in BagToSet(data') : data'[e] <= data[e]
      BY <1>1, <2>1, BagRemove
    <3> QED
      BY <1>1, <2>1, <3>1
  <2>2. CASE \E a \in BagToSet(acks) : acks' = acks (-) SetToBag({a}) /\ UNCHANGED data
    <3>1. IsABag(acks') /\ BagToSet(acks') \subseteq BagToSet(acks)
      BY <1>1, <2>2, BagRemove
    <3>2. \A e \in BagToSet(data) : data[e] <= data[e]
      BY <1>1 DEF IsABag, BagToSet
    <3> QED
      BY <1>1, <2>2, <3>1, <3>2
  <2> QED
    BY <2>1, <2>2 DEF Corrupted
<1>3. TypeOK' /\ SenderInv' /\ ReceiverInv'
  BY <1>1, <1>2 DEF RDTInv, TypeOK, SenderInv, ReceiverInv, sndVars, rcvVars, Acked, Out, Handed,
         TimerArmed, WindowFirst, CountsElements
<1>4. (Acked <= Handed)' /\ (Handed <= Out)' /\ AcksInv'
  BY <1>1, <1>2 DEF RDTInv, AcksInv, sndVars, rcvVars, Acked, Out, Handed
<1>5. DataInv'
  BY <1>1, <1>2 DEF RDTInv, DataInv, DataSound, sndVars, rcvVars, Acked, Out, Handed, IsABag, BagToSet
<1> QED
  BY <1>3, <1>4, <1>5 DEF RDTInv

-----------------------------------------------------------------------------
(* An ack.  Its place in the sender's window is that of the packet it is   *)
(* for, or beyond the window if the sender knows of that packet already.   *)

\* The position in the window that Sender_FromLowerLayer computes from an
\* acknowledgement is that of the packet it names, or at least SeqMod - Lifetime
\* and so beyond the window if that packet has been acknowledged.
LEMMA AckOffset ==
    ASSUME RDTInv, n_snd_win # 0, NEW a \in BagToSet(acks)
    PROVE  (a.seq + SeqMod - win[snd_win_t].seq) % SeqMod
               = IF a.last > Acked THEN a.last - Acked - 1 ELSE a.last - Acked - 1 + SeqMod
<1>1. win[snd_win_t].seq = Acked % SeqMod
  <2>1. Acked + 1 - 1 = Acked
    BY Counts
  <2> QED
    BY <2>1, Oldest, Counts DEF Pkt
<1>2. /\ a.last \in Nat /\ a.last <= Handed /\ Handed <= a.last + Lifetime
      /\ a.seq = (a.last + MAX_SEQ) % SeqMod
  BY DEF RDTInv, AcksInv, TypeOK, Ack
<1> DEFINE l == a.last + MAX_SEQ
           b == -Acked
           x == a.last - Acked - 1
<1>3. l \in Int /\ b \in Int /\ Acked \in Int /\ x \in Int /\ l + b = x + SeqMod
  BY <1>2, Counts, Constants
<1>4. (a.seq + SeqMod - (Acked % SeqMod)) % SeqMod = (a.seq - Acked) % SeqMod
  <2>1. a.seq \in Int
    BY <1>2, <1>3, Residues
  <2> QED
    BY <2>1, <1>3, Constants, ModDiff
<1>5. (a.seq - Acked) % SeqMod = (l + b) % SeqMod
  <2>1. a.seq - Acked = (l % SeqMod) + b
    BY <1>2, <1>3, Residues
  <2> HIDE DEF l, b
  <2>2. ((l % SeqMod) + b) % SeqMod = (l + b) % SeqMod
    BY <1>3, Constants, ModShift
  <2> QED
    BY <2>1, <2>2
<1>6. x \in -SeqMod .. SeqMod - 1
  BY <1>2, Counts, Constants
<1>7. (x + SeqMod) % SeqMod = IF x >= 0 THEN x ELSE x + SeqMod
  <2> HIDE DEF x
  <2> QED
    BY <1>6, RoundOnce
<1>8. (a.seq + SeqMod - win[snd_win_t].seq) % SeqMod = IF x >= 0 THEN x ELSE x + SeqMod
  BY <1>1, <1>3, <1>4, <1>5, <1>7
<1>9. x >= 0 <=> a.last > Acked
  BY <1>2, Counts
<1> QED
  BY <1>8, <1>9

\* The link gives up an ack, and nothing else changes.
LEMMA AckIgnored ==
    ASSUME RDTInv, UNCHANGED <<sndVars, rcvVars, data, halted, sent>>,
           IsABag(acks'), BagToSet(acks') \subseteq BagToSet(acks)
    PROVE  RDTInv'
<1>1. TypeOK' /\ SenderInv' /\ ReceiverInv'
  BY DEF RDTInv, TypeOK, SenderInv, ReceiverInv, sndVars, rcvVars, Acked, Out, Handed,
         TimerArmed, WindowFirst, CountsElements
<1>2. (Acked <= Handed)' /\ (Handed <= Out)' /\ DataInv' /\ AcksInv'
  BY DEF RDTInv, DataInv, DataSound, AcksInv, sndVars, rcvVars, Acked, Out, Handed
<1> QED
  BY <1>1, <1>2 DEF RDTInv

\* Sliding the window by n acknowledged packets and refilling it from the buffer
\* keeps the invariant.
LEMMA StepSlide ==
    ASSUME RDTInv, NEW n \in 1 .. n_snd_win, Slide(n), Acked + n <= Handed,
           UNCHANGED <<rcvVars, halted, sent>>,
           IsABag(acks'), BagToSet(acks') \subseteq BagToSet(acks)
    PROVE  RDTInv'
<1> DEFINE k == Refill(n)
           pkts == [j \in 1 .. k |-> buffer[(buf_t + j - 1) % BSIZE]]
           t == (snd_win_t + n) % WIN_SIZE
           m == n_snd_win - n
<1>1. /\ win' = Extend(win, WIN_SIZE, t, m, pkts)
      /\ data' \in Passes(data, {pkts[j] : j \in 1 .. k})
      /\ timer' = (m + k # 0)
  BY DEF Slide, Rearmed
<1>2. /\ snd_win_t' = t
      /\ n_snd_win' = m + k
      /\ buf_t' = (buf_t + k) % BSIZE
      /\ n_buf' = n_buf - k
      /\ buffer' = buffer /\ next_seq' = next_seq /\ sent' = sent
  BY DEF Slide
<1>0. buf_t \in Nat /\ n \in Nat
  BY Counts, Constants DEF RDTInv, TypeOK
<1>3. /\ k \in Nat /\ k \in 0 .. n_buf /\ k <= WIN_SIZE - m
      /\ k = n_buf \/ k = WIN_SIZE - m
      /\ m \in Nat /\ m <= WIN_SIZE /\ n_snd_win = m + n
  BY <1>0, Counts, Constants DEF Refill, Lesser
<1>4. PICK a \in Nat, o \in Nat : a = Acked + n /\ o = Out + k
  BY <1>3, Counts
<1> HIDE DEF k, m
<1>5. ASSUME NEW j \in 1 .. k PROVE pkts[j] = Pkt(Out + j) /\ pkts[j] \in Packet
  <2> DEFINE i == j - 1
  <2>1. i \in 0 .. n_buf - 1 /\ buf_t + j - 1 = buf_t + i /\ Out + 1 + i = Out + j /\ Out + j \in Nat \ {0}
    BY <1>0, <1>3, Counts, Constants
  <2> HIDE DEF i
  <2>2. pkts[j] = Pkt(Out + 1 + i)
    BY <2>1 DEF RDTInv, SenderInv
  <2> QED
    BY <2>1, <2>2, PktType
<1>6. pkts \in Seq(Packet) /\ Len(pkts) = k
  <2>1. pkts \in [1 .. k -> Packet] /\ k \in Nat
    BY <1>3, <1>5, Counts, Constants
  <2> HIDE DEF pkts
  <2> QED
    BY <2>1
<1> HIDE DEF pkts, t
<1>6a. Out = a + m /\ o = a + m + k
  BY <1>3, <1>4, Counts, Constants
<1>7. /\ a <= Handed /\ Acked <= a /\ Out <= o /\ o <= a + WIN_SIZE
      /\ sent' - n_buf' - n_snd_win' = a /\ sent' - n_buf' = o
      /\ n_snd_win' \in 0 .. WIN_SIZE /\ n_buf' \in 0 .. BSIZE
  BY <1>0, <1>2, <1>3, <1>4, <1>6a, Counts, Constants
<1>8. t = a % WIN_SIZE
  <2>1. snd_win_t = Acked % WIN_SIZE
    BY DEF RDTInv, SenderInv
  <2>2. Acked \in Int /\ n \in Int
    BY Counts, Constants
  <2>3. ((Acked % WIN_SIZE) + n) % WIN_SIZE = (Acked + n) % WIN_SIZE
    BY <2>2, Constants, ModShift
  <2> QED
    BY <1>4, <2>1, <2>3 DEF t
<1>9. WindowExtended(win', win, a, m, pkts)
  <2>1. win \in [0 .. WIN_SIZE - 1 -> Packet] /\ Len(pkts) <= WIN_SIZE - m
    BY <1>3, <1>6 DEF RDTInv, TypeOK
  <2> QED
    BY <1>1, <1>3, <1>6, <1>8, <2>1, WindowExtend
<1>10. /\ IsABag(data') /\ BagToSet(data') \subseteq Packet
       /\ DataInv' /\ ReceiverInv' /\ (Acked <= Handed)' /\ (Handed <= Out)'
  <2> DEFINE S == {pkts[j] : j \in 1 .. k}
  <2>1. ASSUME NEW e \in S
        PROVE  \E i \in a + 1 .. o : e = Pkt(i) /\ (i > Out \/ i = a + 1)
    <3>1. PICK j \in 1 .. k : e = pkts[j]
      OBVIOUS
    <3>2. Out + j \in a + 1 .. o /\ Out + j > Out
      BY <1>3, <1>6a
    <3> QED
      BY <1>5, <3>1, <3>2
  <2> HIDE DEF S
  <2>2. data' \in Passes(data, S)
    BY <1>1 DEF S
  <2> QED
    BY <1>7, <2>1, <2>2, SenderStep
<1>11. SenderInv'
  <2>1. snd_win_t' = a % WIN_SIZE
    BY <1>2, <1>8
  <2>2. next_seq' = sent' % SeqMod
    BY <1>2 DEF RDTInv, SenderInv
  <2>3. ASSUME NEW i \in a + 1 .. o PROVE win'[Place(i)] = Pkt(i)
    <3>1. CASE i <= Out
      <4>1. i \in a + 1 .. a + m /\ i \in Acked + 1 .. Out
        BY <1>3, <1>4, <1>6a, <3>1, Counts
      <4>2. win'[Place(i)] = win[Place(i)]
        BY <1>9, <4>1 DEF WindowExtended
      <4> QED
        BY <4>1, <4>2 DEF RDTInv, SenderInv
    <3>2. CASE i > Out
      <4>1. i \in a + m + 1 .. a + m + Len(pkts) /\ i - a - m \in 1 .. k /\ Out + (i - a - m) = i
        BY <1>3, <1>6, <1>6a, <3>2
      <4>2. win'[Place(i)] = pkts[i - a - m]
        BY <1>9, <4>1 DEF WindowExtended
      <4> QED
        BY <1>5, <4>1, <4>2
    <3> QED
      BY <3>1, <3>2, Counts
  <2>4. ASSUME NEW j \in 0 .. n_buf' - 1 PROVE buffer'[(buf_t' + j) % BSIZE] = Pkt(o + 1 + j)
    <3> DEFINE i == k + j
               b == buf_t + k
    <3>1. i \in 0 .. n_buf - 1 /\ Out + 1 + i = o + 1 + j /\ b \in Int /\ j \in Int /\ buf_t + i = b + j
      BY <1>0, <1>2, <1>3, <1>4, Counts, Constants
    <3> HIDE DEF i
    <3>2. buffer[(buf_t + i) % BSIZE] = Pkt(Out + 1 + i)
      BY <3>1 DEF RDTInv, SenderInv
    <3>3. buf_t' = b % BSIZE
      BY <1>2
    <3> HIDE DEF b
    <3>4. ((b % BSIZE) + j) % BSIZE = (b + j) % BSIZE
      BY <3>1, Constants, ModShift
    <3> QED
      BY <1>2, <3>1, <3>2, <3>3, <3>4
  <2>5. TimerArmed'
    <3>1. m + k # 0 <=> n_snd_win' > 0
      BY <1>2, <1>3, Counts, Constants
    <3> QED
      BY <1>1, <3>1 DEF TimerArmed
  <2>6. WindowFirst'
    <3>1. n_buf' > 0 => n_snd_win' = WIN_SIZE
      BY <1>2, <1>3, Counts, Constants
    <3> QED
      BY <3>1 DEF WindowFirst
  <2> QED
    BY <1>7, <2>1, <2>2, <2>3, <2>4, <2>5, <2>6 DEF SenderInv, Acked, Out
<1>12. TypeOK'
  <2>1. buf_t' \in 0 .. BSIZE - 1 /\ snd_win_t' \in 0 .. WIN_SIZE - 1
    <3>1. buf_t + k \in Int
      BY <1>3, Counts, Constants DEF RDTInv, TypeOK
    <3> QED
      BY <1>2, <1>8, <3>1, Residues
  <2>2. win' \in [0 .. WIN_SIZE - 1 -> Packet] /\ timer' \in BOOLEAN
    BY <1>1, <1>9 DEF WindowExtended
  <2> QED
    BY <1>2, <1>7, <1>10, <2>1, <2>2 DEF RDTInv, TypeOK, rcvVars
<1>13. AcksInv'
  BY DEF RDTInv, AcksInv, Handed, rcvVars
<1> QED
  BY <1>10, <1>11, <1>12, <1>13 DEF RDTInv

\* An acknowledgement slides the window or is ignored (Sender_FromLowerLayer).
LEMMA StepAck ==
    ASSUME RDTInv, NEW a \in BagToSet(acks), Sender_FromLowerLayer(a)
    PROVE  RDTInv'
<1> DEFINE dpos == (a.seq + SeqMod - win[snd_win_t].seq) % SeqMod
<1>1. /\ IF n_snd_win = 0 \/ dpos >= n_snd_win
         THEN UNCHANGED <<sndVars, data>>
         ELSE Slide(dpos + 1)
      /\ UNCHANGED <<rcvVars, halted, sent>>
      /\ IsABag(acks') /\ BagToSet(acks') \subseteq BagToSet(acks)
  <2>1. IsABag(acks) /\ acks' = acks (-) SetToBag({a})
    BY DEF Sender_FromLowerLayer, RDTInv, TypeOK
  <2> QED
    BY <2>1, BagRemove DEF Sender_FromLowerLayer
<1>2. CASE n_snd_win = 0 \/ dpos >= n_snd_win
  <2>1. UNCHANGED <<sndVars, data>>
    BY <1>1, <1>2
  <2> QED
    BY <1>1, <2>1, AckIgnored
<1>3. CASE ~ (n_snd_win = 0 \/ dpos >= n_snd_win)
  <2>1. dpos = IF a.last > Acked THEN a.last - Acked - 1 ELSE a.last - Acked - 1 + SeqMod
    BY <1>3, AckOffset
  <2>2. a.last \in Nat /\ a.last <= Handed /\ Handed <= a.last + Lifetime
    BY DEF RDTInv, AcksInv, TypeOK, Ack
  <2>3. Slide(dpos + 1)
    BY <1>1, <1>3
  <2> HIDE DEF dpos
  <2>4. dpos + 1 \in 1 .. n_snd_win /\ Acked + (dpos + 1) <= Handed
    BY <1>3, <2>1, <2>2, Counts, Constants
  <2> QED
    BY <1>1, <2>3, <2>4, StepSlide
<1> QED
  BY <1>2, <1>3

-----------------------------------------------------------------------------
(* A packet.  The interval test of the receiver (Between) is true of the   *)
(* next WIN_SIZE sequence numbers, which are those of the packets that     *)
(* have not been handed up.                                                *)

\* Between, the receiver's test on wrapped numbers, compares the distance from
\* the expected number with the window.
LEMMA BetweenOffset ==
    ASSUME NEW e \in 0 .. MAX_SEQ, NEW s \in 0 .. MAX_SEQ
    PROVE  Between(e, s, (e + WIN_SIZE - 1) % SeqMod) <=> (s + SeqMod - e) % SeqMod < WIN_SIZE
<1> DEFINE x == s - e
           y == e + WIN_SIZE - 1 - SeqMod
<1>1. /\ x \in -SeqMod .. SeqMod - 1 /\ y \in -SeqMod .. SeqMod - 1
      /\ s + SeqMod - e = x + SeqMod /\ e + WIN_SIZE - 1 = y + SeqMod
  BY Constants
<1> HIDE DEF x, y
<1>2. /\ (s + SeqMod - e) % SeqMod = IF x >= 0 THEN x ELSE x + SeqMod
      /\ (e + WIN_SIZE - 1) % SeqMod = IF y >= 0 THEN y ELSE y + SeqMod
  BY <1>1, RoundOnce
<1> DEFINE c == (e + WIN_SIZE - 1) % SeqMod
           o == (s + SeqMod - e) % SeqMod
<1>3. /\ o = IF s >= e THEN s - e ELSE s - e + SeqMod
      /\ c = IF e + WIN_SIZE - 1 >= SeqMod THEN e + WIN_SIZE - 1 - SeqMod ELSE e + WIN_SIZE - 1
  BY <1>1, <1>2, Constants DEF x, y
<1> HIDE DEF c, o
<1>4. Between(e, s, c) <=> o < WIN_SIZE
  BY <1>3, Constants DEF Between
<1> QED
  BY <1>4 DEF c, o

\* The receiver's distance of a packet is the true one if the packet has not been
\* handed up; otherwise it is beyond the window, and Between says so.
LEMMA PacketOffset ==
    ASSUME RDTInv, NEW p \in BagToSet(data)
    PROVE  /\ (p.seq + SeqMod - expected_ack) % SeqMod
                  = IF p.id > Handed THEN p.id - Handed - 1 ELSE p.id - Handed - 1 + SeqMod
           /\ Between(expected_ack, p.seq, (expected_ack + WIN_SIZE - 1) % SeqMod) <=> p.id > Handed
<1>1. /\ p.id \in 1 .. Out /\ Handed <= p.id + Lifetime /\ p = Pkt(p.id)
      /\ expected_ack = Handed % SeqMod
  BY DEF RDTInv, DataInv, DataSound, ReceiverInv
<1> DEFINE l == p.id - 1
           b == -Handed
           x == p.id - Handed - 1
<1>2. l \in Int /\ b \in Int /\ Handed \in Int /\ l + b = x
  BY <1>1, Counts
<1>3. p.seq = l % SeqMod
  BY <1>1 DEF Pkt
<1>4. p.seq \in 0 .. MAX_SEQ /\ expected_ack \in 0 .. MAX_SEQ
  <2> HIDE DEF l
  <2> QED
    BY <1>1, <1>2, <1>3, Residues
<1>5. (p.seq + SeqMod - (Handed % SeqMod)) % SeqMod = (p.seq - Handed) % SeqMod
  <2>1. p.seq \in Int
    BY <1>4
  <2> QED
    BY <2>1, <1>2, Constants, ModDiff
<1>6. (p.seq - Handed) % SeqMod = (l + b) % SeqMod
  <2>1. p.seq - Handed = (l % SeqMod) + b
    BY <1>2, <1>3, <1>4
  <2> HIDE DEF l, b
  <2>2. ((l % SeqMod) + b) % SeqMod = (l + b) % SeqMod
    BY <1>2, Constants, ModShift
  <2> QED
    BY <2>1, <2>2
<1>7. x \in -SeqMod .. SeqMod - 1
  BY <1>1, Counts, Constants
<1>8. x % SeqMod = IF x >= 0 THEN x ELSE x + SeqMod
  <2> HIDE DEF x
  <2> QED
    BY <1>7, RoundOnce
<1>9. (p.seq + SeqMod - expected_ack) % SeqMod = IF x >= 0 THEN x ELSE x + SeqMod
  BY <1>1, <1>2, <1>5, <1>6, <1>8
<1>10. x >= 0 <=> p.id > Handed
  BY <1>1, Counts
<1>11. (p.seq + SeqMod - expected_ack) % SeqMod < WIN_SIZE <=> p.id > Handed
  BY <1>1, <1>9, <1>10, Counts, Constants
<1> QED
  BY <1>4, <1>9, <1>10, <1>11, BetweenOffset

-----------------------------------------------------------------------------
(* The receiver's window, h packets having been handed up.                 *)

\* The place of packet h + j is the j-th from the tail on ...
LEMMA PlaceOffset ==
    ASSUME NEW h \in Nat, NEW j \in 1 .. WIN_SIZE
    PROVE  /\ Place(h + j) \in 0 .. WIN_SIZE - 1
           /\ (Place(h + j) + WIN_SIZE - (h % WIN_SIZE)) % WIN_SIZE = j - 1
<1> DEFINE c == h + j - 1
           b == -h
<1>1. c \in Int /\ b \in Int /\ h \in Int /\ c + b = j - 1
  BY Constants
<1>2. Place(h + j) = c % WIN_SIZE
  BY DEF Place
<1>3. Place(h + j) \in 0 .. WIN_SIZE - 1
  <2> HIDE DEF c
  <2> QED
    BY <1>1, <1>2, Residues
<1>4. (Place(h + j) + WIN_SIZE - (h % WIN_SIZE)) % WIN_SIZE = (Place(h + j) - h) % WIN_SIZE
  <2>1. Place(h + j) \in Int
    BY <1>3, Constants
  <2> QED
    BY <1>1, <2>1, Constants, ModDiff
<1>5. (Place(h + j) - h) % WIN_SIZE = (c + b) % WIN_SIZE
  <2>1. Place(h + j) - h = (c % WIN_SIZE) + b
    BY <1>1, <1>2, <1>3, Constants
  <2> HIDE DEF c, b
  <2>2. ((c % WIN_SIZE) + b) % WIN_SIZE = (c + b) % WIN_SIZE
    BY <1>1, Constants, ModShift
  <2> QED
    BY <2>1, <2>2
<1>6. (j - 1) % WIN_SIZE = j - 1
  <2> DEFINE x == j - 1
  <2>1. x \in -WIN_SIZE .. WIN_SIZE - 1 /\ ~ (x < 0)
    BY Constants
  <2> HIDE DEF x
  <2>2. x % WIN_SIZE = x
    BY <2>1, Constants, ModSmall
  <2> QED
    BY <2>2 DEF x
<1> QED
  BY <1>1, <1>3, <1>4, <1>5, <1>6

\* ... every place is that of one of the next WIN_SIZE packets ...
LEMMA PlaceOnto ==
    ASSUME NEW h \in Nat, NEW q \in 0 .. WIN_SIZE - 1
    PROVE  \E j \in 1 .. WIN_SIZE :
               q = Place(h + j) /\ (q + WIN_SIZE - (h % WIN_SIZE)) % WIN_SIZE = j - 1
<1> DEFINE c == q - h
           j == (c % WIN_SIZE) + 1
<1>1. c \in Int /\ h \in Int /\ q \in Int /\ q \in -WIN_SIZE .. WIN_SIZE - 1 /\ ~ (q < 0) /\ c + h = q
  BY Constants
<1>2. (q + WIN_SIZE - (h % WIN_SIZE)) % WIN_SIZE = c % WIN_SIZE
  BY <1>1, Constants, ModDiff
<1> HIDE DEF c
<1>3. c % WIN_SIZE \in 0 .. WIN_SIZE - 1
  BY <1>1, Residues
<1>4. j \in 1 .. WIN_SIZE /\ (q + WIN_SIZE - (h % WIN_SIZE)) % WIN_SIZE = j - 1
  BY <1>2, <1>3, Constants
<1>5. Place(h + j) = ((c % WIN_SIZE) + h) % WIN_SIZE
  <2> DEFINE i == h + j
             x == (c % WIN_SIZE) + h
  <2>1. i \in Int /\ x \in Int /\ i - 1 = x
    BY <1>1, <1>3, Constants
  <2> HIDE DEF i, x
  <2>2. Place(i) = x % WIN_SIZE
    BY <2>1, PlaceIs
  <2> QED
    BY <2>2 DEF i, x
<1>6. ((c % WIN_SIZE) + h) % WIN_SIZE = (c + h) % WIN_SIZE
  BY <1>1, Constants, ModShift
<1>7. q % WIN_SIZE = q
  BY <1>1, Constants, ModSmall
<1>8. q = Place(h + j)
  BY <1>1, <1>5, <1>6, <1>7
<1> QED
  BY <1>4, <1>8

\* ... and the packet after those has the place of the first again.
LEMMA PlaceRound ==
    ASSUME NEW i \in Nat
    PROVE  Place(i + WIN_SIZE) = Place(i)
<1> DEFINE a == i - 1
           k == i + WIN_SIZE
           b == a + WIN_SIZE
<1>1. a \in Int /\ b \in Int /\ k \in Int /\ k - 1 = b
  BY Constants
<1> HIDE DEF k, a
<1>2. b % WIN_SIZE = a % WIN_SIZE
  BY <1>1, Constants, ModRound
<1> HIDE DEF b
<1>3. Place(k) = b % WIN_SIZE
  BY <1>1, PlaceIs
<1> QED
  BY <1>2, <1>3 DEF a, k, Place

\* As many places as packets.
LEMMA PlacesCount ==
    ASSUME NEW h \in Nat, NEW r \in 0 .. WIN_SIZE
    PROVE  /\ IsFiniteSet({Place(h + j) : j \in 1 .. r})
           /\ Cardinality({Place(h + j) : j \in 1 .. r}) = r
<1> DEFINE T == {Place(h + j) : j \in 1 .. r}
           f == [j \in 1 .. r |-> Place(h + j)]
<1>1. IsFiniteSet(1 .. r) /\ Cardinality(1 .. r) = r
  BY FS_Interval, Constants
<1>2. f \in [1 .. r -> T] /\ \A q \in T : \E j \in 1 .. r : f[j] = q
  OBVIOUS
<1>3. ASSUME NEW i \in 1 .. r, NEW j \in 1 .. r, f[i] = f[j] PROVE i = j
  <2>1. i \in 1 .. WIN_SIZE /\ j \in 1 .. WIN_SIZE /\ Place(h + i) = Place(h + j)
    BY <1>3, Constants
  <2>2. i - 1 = j - 1
    BY <2>1, PlaceOffset
  <2> QED
    BY <2>1, <2>2
<1>4. f \in Bijection(1 .. r, T)
  <2> HIDE DEF f, T
  <2> QED
    BY <1>2, <1>3 DEF Bijection, Injection, Surjection, IsInjective
<1>5. ExistsBijection(1 .. r, T)
  BY <1>4 DEF ExistsBijection
<1> QED
  BY <1>1, <1>5, FS_Bijection

\* The loop that looks for the first free place ends at one, or when it has
\* seen n or all places (rdt_receiver.cc, the loop of Receiver_FromLowerLayer).
LEMMA RunStops ==
    ASSUME NEW w, NEW n \in Nat
    PROVE  /\ Run(w, n) \in 0 .. Lesser(n, WIN_SIZE)
           /\ \A j \in 0 .. Run(w, n) - 1 : w[(rcv_win_tailer + j) % WIN_SIZE] # 0
           /\ Run(w, n) < Lesser(n, WIN_SIZE) => w[(rcv_win_tailer + Run(w, n)) % WIN_SIZE] = 0
<1> DEFINE l == Lesser(n, WIN_SIZE)
           T == {j \in 0 .. l : j = l \/ w[(rcv_win_tailer + j) % WIN_SIZE] = 0}
<1>1. l \in Nat
  BY Constants DEF Lesser
<1> HIDE DEF l
<1>2. T \in SUBSET Nat /\ l \in T
  BY <1>1
<1>3. PICK x \in T : \A y \in T : x <= y
  <2> HIDE DEF T
  <2> QED
    BY <1>2, Least
<1>4. /\ x \in 0 .. l
      /\ \A j \in 0 .. x - 1 : w[(rcv_win_tailer + j) % WIN_SIZE] # 0
      /\ x < l => w[(rcv_win_tailer + x) % WIN_SIZE] = 0
  <2>1. ASSUME NEW j \in 0 .. x - 1, w[(rcv_win_tailer + j) % WIN_SIZE] = 0 PROVE FALSE
    <3>1. j \in T /\ ~ (x <= j)
      BY <1>1, <2>1
    <3> QED
      BY <1>3, <3>1
  <2> QED
    BY <1>1, <2>1
<1> QED
  BY <1>4 DEF Run, l

\* A sequence is determined by its length and its elements.
LEMMA Stream ==
    ASSUME NEW s \in Seq(Nat), NEW n \in Nat, Len(s) = n, \A i \in 1 .. n : s[i] = i
    PROVE  s = [i \in 1 .. n |-> i]
  OBVIOUS

Filled(w) == {q \in 0 .. WIN_SIZE - 1 : w[q] # 0}

\* Window w has, besides the packets it had, the one that has arrived.  If the
\* first run of its packets are handed up, and the next one is not there, what
\* the upper layer has got is again the beginning of the stream, and the window
\* has no packet but of the next WIN_SIZE.
LEMMA Delivers ==
    ASSUME RDTInv,
           NEW w \in [0 .. WIN_SIZE - 1 -> Nat],
           \A k \in Handed + 1 .. Handed + WIN_SIZE :
               w[Place(k)] = 0 \/ (w[Place(k)] = k /\ k <= Out),
           IsFiniteSet(Filled(w)), Cardinality(Filled(w)) = n_rcv_win + 1,
           NEW run \in 0 .. n_rcv_win + 1, n_rcv_win + 1 <= WIN_SIZE,
           \A j \in 0 .. run - 1 : w[(rcv_win_tailer + j) % WIN_SIZE] # 0,
           run < n_rcv_win + 1 => w[(rcv_win_tailer + run) % WIN_SIZE] = 0,
           Deliver(w, run),
           n_rcv_win' = n_rcv_win + 1 - run,
           expected_ack' = (expected_ack + run) % SeqMod,
           UNCHANGED <<sent, n_buf>>
    PROVE  /\ ReceiverInv'
           /\ Len(delivered') = Handed + run /\ Handed + run <= Out
           /\ delivered' \in Seq(Nat)
           /\ rcv_win' \in [0 .. WIN_SIZE - 1 -> Nat]
           /\ rcv_win_tailer' \in 0 .. WIN_SIZE - 1
           /\ n_rcv_win' \in 0 .. WIN_SIZE
           /\ expected_ack' \in 0 .. MAX_SEQ
           /\ \A k \in Handed + 1 .. Handed + WIN_SIZE :
                  w[Place(k)] = 0 => rcv_win'[Place(k)] = 0
<1>1. PICK h \in Nat, o \in Nat : h = Handed /\ o = Out /\ h <= o
  BY Counts
<1>2. /\ rcv_win_tailer = h % WIN_SIZE /\ expected_ack = h % SeqMod
      /\ delivered = [i \in 1 .. h |-> i]
      /\ n_rcv_win \in Nat /\ run \in Nat /\ run <= WIN_SIZE
  BY <1>1, Constants DEF RDTInv, ReceiverInv, TypeOK
<1>3. \A k \in h + 1 .. h + WIN_SIZE :
          w[Place(k)] = 0 \/ (w[Place(k)] = k /\ k <= o)
  BY <1>1
<1>4. rcv_win' = [i \in 0 .. WIN_SIZE - 1 |->
                     IF (i + WIN_SIZE - (h % WIN_SIZE)) % WIN_SIZE < run THEN 0 ELSE w[i]]
  BY <1>2 DEF Deliver
<1>5. ASSUME NEW j \in 1 .. WIN_SIZE
      PROVE  /\ Place(h + j) \in 0 .. WIN_SIZE - 1
             /\ rcv_win'[Place(h + j)] = IF j <= run THEN 0 ELSE w[Place(h + j)]
  <2> DEFINE q == Place(h + j)
  <2>1. q \in 0 .. WIN_SIZE - 1 /\ (q + WIN_SIZE - (h % WIN_SIZE)) % WIN_SIZE = j - 1
    BY PlaceOffset
  <2> HIDE DEF q
  <2>2. rcv_win'[q] = IF j - 1 < run THEN 0 ELSE w[q]
    BY <1>4, <2>1
  <2>3. j - 1 < run <=> j <= run
    BY <1>2, Constants
  <2> QED
    BY <2>1, <2>2, <2>3 DEF q
<1>6. ASSUME NEW j \in 0 .. WIN_SIZE
      PROVE  (rcv_win_tailer + j) % WIN_SIZE = Place(h + (j + 1))
  <2>1. h \in Int /\ j \in Int /\ h + j + 1 = h + (j + 1)
    BY Constants
  <2>2. ((h % WIN_SIZE) + j) % WIN_SIZE = Place(h + j + 1)
    BY <2>1, PlaceFrom
  <2> QED
    BY <1>2, <2>1, <2>2
<1>7. ASSUME NEW j \in 1 .. run
      PROVE  /\ w[Place(h + j)] = h + j /\ h + j <= o
             /\ w[(rcv_win_tailer + j - 1) % WIN_SIZE] = h + j
  <2> DEFINE i == j - 1
  <2>1. /\ i \in 0 .. run - 1 /\ i \in 0 .. WIN_SIZE /\ i + 1 = j
        /\ h + j \in h + 1 .. h + WIN_SIZE /\ h + j # 0
    BY <1>2, Constants
  <2>2. rcv_win_tailer + j - 1 = rcv_win_tailer + i
    <3>1. rcv_win_tailer \in Nat
      BY Constants DEF RDTInv, TypeOK
    <3> QED
      BY <1>2, <3>1
  <2> HIDE DEF i
  <2>3. (rcv_win_tailer + i) % WIN_SIZE = Place(h + j)
    BY <1>6, <2>1
  <2>4. w[Place(h + j)] # 0
    BY <2>1, <2>3
  <2> QED
    BY <1>3, <2>1, <2>2, <2>3, <2>4
<1>8. h + run <= o
  <2>1. CASE run = 0
    BY <1>1, <2>1
  <2>2. CASE run # 0
    <3>1. run \in 1 .. run
      BY <1>2, <2>2
    <3> QED
      BY <1>7, <3>1
  <2> QED
    BY <2>1, <2>2
<1>9. delivered' = [i \in 1 .. h + run |-> i] /\ Len(delivered') = h + run /\ delivered' \in Seq(Nat)
  <2> DEFINE d == [j \in 1 .. run |-> w[(rcv_win_tailer + j - 1) % WIN_SIZE]]
  <2>1. delivered' = delivered \o d
    BY DEF Deliver
  <2>2. d \in Seq(Nat) /\ Len(d) = run /\ \A j \in 1 .. run : d[j] = h + j
    <3>1. d \in [1 .. run -> Nat] /\ \A j \in 1 .. run : d[j] = h + j
      BY <1>2, <1>7
    <3> HIDE DEF d
    <3> QED
      BY <1>2, <3>1
  <2> HIDE DEF d
  <2>3. delivered \in Seq(Nat) /\ Len(delivered) = h
    BY <1>2
  <2>4. /\ delivered' \in Seq(Nat) /\ Len(delivered') = h + run
        /\ \A i \in 1 .. h + run : delivered'[i] = IF i <= h THEN delivered[i] ELSE d[i - h]
    <3>0. delivered \in Seq(Nat) /\ d \in Seq(Nat)
      BY <2>2, <2>3
    <3>1. delivered \o d \in Seq(Nat)
      BY <3>0, ConcatProperties, Zenon
    <3>a. Len(delivered \o d) = Len(delivered) + Len(d)
      BY <3>0
    <3>2. ASSUME NEW i \in 1 .. Len(delivered) + Len(d)
          PROVE  (delivered \o d)[i] = IF i <= Len(delivered) THEN delivered[i] ELSE d[i - Len(delivered)]
      BY <2>2, <2>3
    <3> QED
      BY <2>1, <2>2, <2>3, <3>1, <3>a, <3>2
  <2>5. ASSUME NEW i \in 1 .. h + run PROVE delivered'[i] = i
    <3>1. CASE i <= h
      BY <1>2, <2>4, <3>1
    <3>2. CASE ~ (i <= h)
      <4>1. i - h \in 1 .. run /\ h + (i - h) = i
        BY <1>2, <3>2
      <4> QED
        BY <2>2, <2>4, <3>2, <4>1
    <3> QED
      BY <3>1, <3>2
  <2>6. h + run \in Nat
    BY <1>2
  <2> QED
    BY <2>4, <2>5, <2>6, Stream
<1> DEFINE gone == {Place(h + j) : j \in 1 .. run}
<1>10. Filled(rcv_win') = Filled(w) \ gone /\ gone \subseteq Filled(w)
  <2>1. ASSUME NEW q \in 0 .. WIN_SIZE - 1
        PROVE  /\ q \in Filled(rcv_win') <=> q \in Filled(w) /\ q \notin gone
               /\ q \in gone => q \in Filled(w)
    <3>1. PICK j \in 1 .. WIN_SIZE : q = Place(h + j)
      BY PlaceOnto
    <3>2. rcv_win'[q] = IF j <= run THEN 0 ELSE w[q]
      BY <1>5, <3>1
    <3>3. q \in gone <=> j <= run
      <4>1. ASSUME j <= run PROVE q \in gone
        BY <1>2, <3>1, <4>1
      <4>2. ASSUME q \in gone PROVE j <= run
        <5>1. PICK i \in 1 .. run : q = Place(h + i)
          BY <4>2
        <5>2. i \in 1 .. WIN_SIZE
          BY <1>2, Constants
        <5>3. /\ (Place(h + i) + WIN_SIZE - (h % WIN_SIZE)) % WIN_SIZE = i - 1
              /\ (Place(h + j) + WIN_SIZE - (h % WIN_SIZE)) % WIN_SIZE = j - 1
          BY <5>2, PlaceOffset
        <5> QED
          BY <1>2, <3>1, <5>1, <5>3
      <4> QED
        BY <4>1, <4>2
    <3>4. j <= run => w[q] # 0
      <4>1. ASSUME j <= run PROVE w[q] # 0
        <5>1. j \in 1 .. run /\ h + j # 0
          BY <1>2, <4>1
        <5> QED
          BY <1>7, <3>1, <5>1
      <4> QED
        BY <4>1
    <3> QED
      BY <3>2, <3>3, <3>4 DEF Filled
  <2>2. gone \subseteq 0 .. WIN_SIZE - 1
    <3>1. ASSUME NEW j \in 1 .. run PROVE Place(h + j) \in 0 .. WIN_SIZE - 1
      <4>1. j \in 1 .. WIN_SIZE
        BY <1>2, Constants
      <4> QED
        BY <4>1, PlaceOffset
    <3> QED
      BY <3>1
  <2> HIDE DEF gone
  <2> QED
    BY <2>1, <2>2 DEF Filled
<1>11. IsFiniteSet(Filled(rcv_win')) /\ Cardinality(Filled(rcv_win')) = n_rcv_win'
  <2>1. IsFiniteSet(gone) /\ Cardinality(gone) = run
    <3>1. run \in 0 .. WIN_SIZE
      BY <1>2, Constants
    <3> QED
      BY <3>1, PlacesCount
  <2> HIDE DEF gone
  <2>2. Filled(w) \cap gone = gone
    BY <1>10
  <2>3. /\ IsFiniteSet(Filled(w) \ gone)
        /\ Cardinality(Filled(w) \ gone) = Cardinality(Filled(w)) - Cardinality(Filled(w) \cap gone)
    BY FS_Difference
  <2>4. Filled(rcv_win') = Filled(w) \ gone
    BY <1>10
  <2>5. IsFiniteSet(Filled(rcv_win'))
    BY <2>3, <2>4, Zenon
  <2>6. Cardinality(Filled(rcv_win')) = Cardinality(Filled(w)) - Cardinality(Filled(w) \cap gone)
    BY <2>3, <2>4, Zenon
  <2> QED
    <3>1. Cardinality(Filled(rcv_win')) = (n_rcv_win + 1) - run
      BY <2>1, <2>2, <2>6, Zenon
    <3>2. n_rcv_win' = (n_rcv_win + 1) - run
      BY <1>2
    <3> QED
      BY <2>5, <3>1, <3>2, Zenon
<1>12. rcv_win' \in [0 .. WIN_SIZE - 1 -> Nat]
  BY <1>4
<1>13. rcv_win'[Place(h + (run + 1))] = 0
  <2>1. CASE run = n_rcv_win + 1
    <3>1. Filled(rcv_win') = {}
      BY <1>2, <1>11, <2>1, FS_EmptySet
    <3>2. Place(h + (run + 1)) \in 0 .. WIN_SIZE - 1
      <4> DEFINE i == h + (run + 1)
                 x == i - 1
      <4>1. i \in Int /\ x \in Int
        BY <1>2
      <4> HIDE DEF x
      <4>2. x % WIN_SIZE \in 0 .. WIN_SIZE - 1
        BY <4>1, Residues
      <4> QED
        BY <4>2 DEF x, Place
    <3> QED
      BY <3>1, <3>2 DEF Filled
  <2>2. CASE run # n_rcv_win + 1
    <3>1. run < n_rcv_win + 1 /\ run \in 0 .. WIN_SIZE /\ run + 1 \in 1 .. WIN_SIZE
      BY <1>2, <2>2, Constants
    <3>2. w[Place(h + (run + 1))] = 0
      BY <1>6, <3>1
    <3> QED
      BY <1>5, <3>1, <3>2
  <2> QED
    BY <2>1, <2>2
<1>14. ASSUME NEW k \in h + run + 1 .. h + run + WIN_SIZE
       PROVE  rcv_win'[Place(k)] = 0 \/ (rcv_win'[Place(k)] = k /\ k <= o)
  <2>1. CASE k <= h + WIN_SIZE
    <3> DEFINE j == k - h
    <3>1. j \in 1 .. WIN_SIZE /\ h + j = k /\ k \in h + 1 .. h + WIN_SIZE
      BY <1>2, <2>1, Constants
    <3> HIDE DEF j
    <3>2. rcv_win'[Place(k)] = IF j <= run THEN 0 ELSE w[Place(k)]
      BY <1>5, <3>1
    <3> QED
      BY <1>3, <3>1, <3>2
  <2>2. CASE ~ (k <= h + WIN_SIZE)
    <3> DEFINE i == k - WIN_SIZE
               j == i - h
    <3>1. i \in Nat /\ k = i + WIN_SIZE /\ j \in 1 .. WIN_SIZE /\ h + j = i /\ j <= run
      BY <1>2, <2>2, Constants
    <3> HIDE DEF i, j
    <3>2. rcv_win'[Place(i)] = 0
      BY <1>5, <3>1
    <3>3. Place(k) = Place(i)
      BY <3>1, PlaceRound
    <3> QED
      BY <3>2, <3>3
  <2> QED
    BY <2>1, <2>2
<1>15. /\ rcv_win_tailer' = (h + run) % WIN_SIZE /\ rcv_win_tailer' \in 0 .. WIN_SIZE - 1
       /\ expected_ack' = (h + run) % SeqMod /\ expected_ack' \in 0 .. MAX_SEQ
  <2>1. h \in Int /\ run \in Int /\ h + run \in Int
    BY <1>2
  <2>2. /\ ((h % WIN_SIZE) + run) % WIN_SIZE = (h + run) % WIN_SIZE
        /\ ((h % SeqMod) + run) % SeqMod = (h + run) % SeqMod
    BY <2>1, Constants, ModShift
  <2>3. rcv_win_tailer' = (rcv_win_tailer + run) % WIN_SIZE
    BY DEF Deliver
  <2>4. (h + run) % WIN_SIZE \in 0 .. WIN_SIZE - 1 /\ (h + run) % SeqMod \in 0 .. MAX_SEQ
    BY <2>1, Residues
  <2> QED
    BY <1>2, <2>2, <2>3, <2>4
<1>16. ASSUME NEW k \in h + 1 .. h + WIN_SIZE, w[Place(k)] = 0
       PROVE  rcv_win'[Place(k)] = 0
  <2> DEFINE j == k - h
  <2>1. j \in 1 .. WIN_SIZE /\ h + j = k
    BY Constants
  <2> HIDE DEF j
  <2> QED
    BY <1>5, <1>16, <2>1
<1>17. n_rcv_win' \in 0 .. WIN_SIZE
  BY <1>2, Constants
<1>18. ReceiverInv'
  <2>1. CountsElements'
    <3>1. {i \in DOMAIN rcv_win' : rcv_win'[i] # 0} = Filled(rcv_win')
      BY <1>12 DEF Filled
    <3> QED
      BY <1>11, <3>1 DEF CountsElements
  <2>2. Len(delivered') + 1 = h + (run + 1)
    BY <1>2, <1>9
  <2>3. sent' - n_buf' = o
    BY <1>1 DEF Out
  <2> QED
    BY <1>9, <1>13, <1>14, <1>15, <2>1, <2>2, <2>3 DEF ReceiverInv, Handed, Out
<1> QED
  BY <1>1, <1>8, <1>9, <1>12, <1>15, <1>16, <1>17, <1>18

\* The receiver answers with the last packet it has handed up.
LEMMA AckSent ==
    ASSUME RDTInv, Timely, Handed <= Len(delivered'), Len(delivered') \in Nat,
           acks' \in Passes(acks, {[seq |-> (Len(delivered') + MAX_SEQ) % SeqMod,
                                    last |-> Len(delivered')]})
    PROVE  AcksInv' /\ IsABag(acks') /\ BagToSet(acks') \subseteq Ack
<1> DEFINE h == Len(delivered')
           new == [seq |-> (h + MAX_SEQ) % SeqMod, last |-> h]
<1>1. IsABag(acks) /\ BagToSet(acks) \subseteq Ack
  BY DEF RDTInv, TypeOK
<1>2. IsABag(acks') /\ BagToSet(acks') \subseteq BagToSet(acks) \cup {new}
  BY <1>1, PassesFacts
<1>3. new \in Ack
  <2>1. h + MAX_SEQ \in Int
    BY Constants
  <2>2. (h + MAX_SEQ) % SeqMod \in 0 .. MAX_SEQ
    BY <2>1, Residues
  <2> QED
    BY <2>2 DEF Ack
<1>4. ASSUME NEW a \in BagToSet(acks')
      PROVE  /\ a.last <= h
             /\ a.seq = (a.last + MAX_SEQ) % SeqMod
             /\ h <= a.last + Lifetime
  <2>1. h <= a.last + Lifetime
    BY DEF Timely
  <2>2. CASE a = new
    BY <2>1, <2>2
  <2>3. CASE a \in BagToSet(acks)
    <3>1. a.last \in Nat /\ a.last <= Handed /\ a.seq = (a.last + MAX_SEQ) % SeqMod
      BY <1>1, <2>3 DEF RDTInv, AcksInv, Ack
    <3>2. a.last <= h
      BY <3>1, Counts
    <3> QED
      BY <2>1, <3>1, <3>2
  <2> QED
    BY <1>2, <2>2, <2>3
<1> HIDE DEF new
<1> QED
  BY <1>1, <1>2, <1>3, <1>4 DEF AcksInv, Handed

\* A packet from the lower layer is stored, or handed up with those that wait
\* behind it, or only acknowledged again (Receiver_FromLowerLayer).
LEMMA StepPacket ==
    ASSUME RDTInv, NEW p \in BagToSet(data), Receiver_FromLowerLayer(p)
    PROVE  RDTInv' /\ Handed <= Len(delivered')
<1> DEFINE offset == (p.seq + SeqMod - expected_ack) % SeqMod
           w == [rcv_win EXCEPT ![(offset + rcv_win_tailer) % WIN_SIZE] = p.id]
           run == IF offset = 0 THEN Run(w, n_rcv_win + 1) ELSE 0
<1>1. /\ data' = data (-) SetToBag({p})
      /\ Timely
      /\ UNCHANGED <<sndVars, halted, sent>>
      /\ IF ~ Between(expected_ack, p.seq, (expected_ack + WIN_SIZE - 1) % SeqMod)
         THEN /\ UNCHANGED rcvVars
              /\ acks' \in Acks(Previous(expected_ack))
         ELSE /\ Deliver(w, run)
              /\ n_rcv_win' = n_rcv_win + 1 - run
              /\ expected_ack' = (expected_ack + run) % SeqMod
              /\ acks' \in AckReceived(p.seq, run)
  BY DEF Receiver_FromLowerLayer
<1>2. IsABag(data) /\ BagToSet(data) \subseteq Packet
  BY DEF RDTInv, TypeOK
<1>3. /\ IsABag(data') /\ BagToSet(data') \subseteq BagToSet(data)
      /\ p \in BagToSet(data') => data[p] > 1
      /\ \A e \in BagToSet(data') : data[e] = 1 => data'[e] = 1
  <2>1. /\ IsABag(data') /\ BagToSet(data') \subseteq BagToSet(data)
        /\ p \in BagToSet(data') => data[p] > 1
        /\ \A e \in BagToSet(data') : data'[e] <= data[e]
    BY <1>1, <1>2, BagRemove
  <2>2. \A e \in BagToSet(data') : data'[e] \in Nat /\ data'[e] > 0
    BY <2>1 DEF IsABag, BagToSet
  <2> QED
    BY <2>1, <2>2
<1>4. PICK h \in Nat, a \in Nat, o \in Nat :
         h = Handed /\ a = Acked /\ o = Out /\ a <= h /\ h <= o /\ o <= a + WIN_SIZE
  BY Counts
<1>5. /\ p.id \in 1 .. o /\ p = Pkt(p.id) /\ p.seq = (p.id - 1) % SeqMod
      /\ p.id > a + 1 => data[p] = 1
      /\ p.id > a + 1 /\ p.id > h => rcv_win[Place(p.id)] = 0
  BY <1>4 DEF RDTInv, DataInv, DataSound, Pkt
<1>6. /\ expected_ack = h % SeqMod /\ rcv_win_tailer = h % WIN_SIZE
      /\ rcv_win[Place(h + 1)] = 0
      /\ rcv_win \in [0 .. WIN_SIZE - 1 -> Nat]
  BY <1>4 DEF RDTInv, ReceiverInv, TypeOK
<1>7. Previous(expected_ack) = (h + MAX_SEQ) % SeqMod
  <2>1. h \in Int /\ MAX_SEQ \in Int
    BY Constants
  <2>2. ((h % SeqMod) + MAX_SEQ) % SeqMod = (h + MAX_SEQ) % SeqMod
    BY <2>1, Constants, ModShift
  <2> QED
    BY <1>6, <2>2 DEF Previous
<1>8. SenderInv' /\ Acked' = a /\ Out' = o
  <2>1. SenderInv'
    BY <1>1 DEF RDTInv, SenderInv, sndVars, Acked, Out, TimerArmed, WindowFirst
  <2> QED
    BY <1>1, <1>4, <2>1 DEF sndVars, Acked, Out
<1>9. CASE ~ (p.id > Handed)
  <2>1. UNCHANGED rcvVars /\ acks' \in Acks(Previous(expected_ack))
    BY <1>1, <1>9, PacketOffset
  <2>2. Len(delivered') = h
    BY <1>4, <2>1 DEF Handed, rcvVars
  <2>3. AcksInv' /\ IsABag(acks') /\ BagToSet(acks') \subseteq Ack
    <3>1. acks' \in Passes(acks, {[seq |-> (Len(delivered') + MAX_SEQ) % SeqMod,
                                   last |-> Len(delivered')]})
      BY <1>7, <2>1, <2>2 DEF Acks
    <3> QED
      BY <1>1, <1>4, <2>2, <3>1, AckSent
  <2>4. ReceiverInv'
    BY <1>1, <2>1 DEF RDTInv, ReceiverInv, rcvVars, sndVars, Handed, Out, CountsElements
  <2>5. TypeOK'
    BY <1>1, <1>2, <1>3, <2>1, <2>3 DEF RDTInv, TypeOK, rcvVars, sndVars
  <2>6. (Acked <= Handed)' /\ (Handed <= Out)'
    BY <1>4, <1>8, <2>2 DEF Handed
  <2>7. DataInv'
    <3>1. rcv_win' = rcv_win /\ Len(delivered') = Len(delivered)
      BY <2>1 DEF rcvVars
    <3> QED
      BY <1>3, <1>4, <1>8, <3>1 DEF RDTInv, DataInv, DataSound, Handed
  <2> QED
    BY <1>4, <1>8, <2>2, <2>3, <2>4, <2>5, <2>6, <2>7 DEF RDTInv
<1>10. CASE p.id > Handed
  <2>1. /\ offset = p.id - Handed - 1
        /\ Deliver(w, run)
        /\ n_rcv_win' = n_rcv_win + 1 - run
        /\ expected_ack' = (expected_ack + run) % SeqMod
        /\ acks' \in AckReceived(p.seq, run)
    BY <1>1, <1>10, PacketOffset
  <2> DEFINE i == p.id
  <2>2. /\ i \in h + 1 .. h + WIN_SIZE /\ i <= o /\ i \in Nat \ {0}
        /\ offset = i - h - 1 /\ offset \in Nat /\ (offset = 0 <=> i = h + 1)
    BY <1>4, <1>5, <1>10, <2>1, Constants
  <2>3. (offset + rcv_win_tailer) % WIN_SIZE = Place(i) /\ Place(i) \in 0 .. WIN_SIZE - 1
    <3> HIDE DEF offset, i
    <3>1. h \in Int /\ offset \in Int /\ h + offset + 1 = i
      BY <2>2
    <3>2. ((h % WIN_SIZE) + offset) % WIN_SIZE = Place(h + offset + 1)
      BY <3>1, PlaceFrom
    <3>3. offset + rcv_win_tailer = (h % WIN_SIZE) + offset
      BY <1>6, <3>1, Constants, Residues
    <3>4. h + offset \in Int /\ (h + offset) % WIN_SIZE \in 0 .. WIN_SIZE - 1
      BY <3>1, Residues
    <3>5. ((h % WIN_SIZE) + offset) % WIN_SIZE \in 0 .. WIN_SIZE - 1
      BY <3>1, <3>4, Constants, ModShift
    <3> QED
      BY <3>1, <3>2, <3>3, <3>5
  <2>4. rcv_win[Place(i)] = 0
    <3>1. CASE i > a + 1
      BY <1>5, <2>2, <3>1
    <3>2. CASE ~ (i > a + 1)
      <4>1. i = h + 1
        BY <1>4, <2>2, <3>2
      <4> QED
        BY <1>6, <4>1
    <3> QED
      BY <3>1, <3>2
  <2>5. /\ w \in [0 .. WIN_SIZE - 1 -> Nat] /\ w[Place(i)] = i
        /\ \A q \in 0 .. WIN_SIZE - 1 : q # Place(i) => w[q] = rcv_win[q]
    BY <1>6, <2>2, <2>3
  <2> HIDE DEF offset, w, i
  <2>6. run = IF i = h + 1 THEN Run(w, n_rcv_win + 1) ELSE 0
    BY <2>2
  <2> HIDE DEF run
  <2>7. ASSUME NEW k \in h + 1 .. h + WIN_SIZE
        PROVE  /\ Place(k) \in 0 .. WIN_SIZE - 1
               /\ w[Place(k)] = IF k = i THEN i ELSE rcv_win[Place(k)]
    <3>1. Place(k) \in 0 .. WIN_SIZE - 1
      <4> DEFINE j == k - h
      <4>1. j \in 1 .. WIN_SIZE /\ h + j = k
        BY Constants
      <4> HIDE DEF j
      <4> QED
        BY <4>1, PlaceOffset
    <3>2. ASSUME Place(k) = Place(i) PROVE k = i
      <4>1. k \in Nat /\ i \in Nat /\ i < k + WIN_SIZE /\ k < i + WIN_SIZE
        BY <2>2, Constants
      <4> QED
        BY <3>2, <4>1, PlacesDiffer
    <3> QED
      BY <2>5, <3>1, <3>2
  <2>8. ASSUME NEW k \in Handed + 1 .. Handed + WIN_SIZE
        PROVE  w[Place(k)] = 0 \/ (w[Place(k)] = k /\ k <= Out)
    <3>1. k \in h + 1 .. h + WIN_SIZE
      BY <1>4
    <3>2. rcv_win[Place(k)] = 0 \/ (rcv_win[Place(k)] = k /\ k <= Out)
      BY DEF RDTInv, ReceiverInv
    <3> QED
      BY <1>4, <2>2, <2>7, <3>1, <3>2
  <2>9. /\ IsFiniteSet(Filled(w)) /\ Cardinality(Filled(w)) = n_rcv_win + 1
        /\ n_rcv_win \in Nat /\ n_rcv_win + 1 <= WIN_SIZE
    <3>1. IsFiniteSet(0 .. WIN_SIZE - 1) /\ Cardinality(0 .. WIN_SIZE - 1) = WIN_SIZE
      <4>1. 0 \in Int /\ WIN_SIZE - 1 \in Int /\ ~ (0 > WIN_SIZE - 1) /\ (WIN_SIZE - 1) - 0 + 1 = WIN_SIZE
        BY Constants
      <4> QED
        BY <4>1, FS_Interval
    <3>2. Filled(rcv_win) \in SUBSET (0 .. WIN_SIZE - 1) /\ Filled(w) \in SUBSET (0 .. WIN_SIZE - 1)
      BY DEF Filled
    <3>3. IsFiniteSet(Filled(rcv_win)) /\ n_rcv_win = Cardinality(Filled(rcv_win))
      <4>1. {q \in DOMAIN rcv_win : rcv_win[q] # 0} = Filled(rcv_win)
        BY <1>6 DEF Filled
      <4>2. n_rcv_win = Cardinality({q \in DOMAIN rcv_win : rcv_win[q] # 0})
        BY DEF RDTInv, ReceiverInv, CountsElements
      <4> QED
        BY <3>1, <3>2, <4>1, <4>2, FS_Subset
    <3>4. Filled(w) = Filled(rcv_win) \cup {Place(i)} /\ Place(i) \notin Filled(rcv_win)
      BY <2>2, <2>3, <2>4, <2>5 DEF Filled
    <3>5. IsFiniteSet(Filled(w)) /\ Cardinality(Filled(w)) = n_rcv_win + 1
      BY <3>3, <3>4, FS_AddElement
    <3>6. Cardinality(Filled(w)) <= WIN_SIZE
      BY <3>1, <3>2, FS_Subset
    <3> QED
      BY <3>3, <3>5, <3>6, FS_CardinalityType
  <2>10. /\ run \in 0 .. n_rcv_win + 1
         /\ \A j \in 0 .. run - 1 : w[(rcv_win_tailer + j) % WIN_SIZE] # 0
         /\ run < n_rcv_win + 1 => w[(rcv_win_tailer + run) % WIN_SIZE] = 0
    <3>1. CASE i = h + 1
      <4>1. n_rcv_win + 1 \in Nat /\ Lesser(n_rcv_win + 1, WIN_SIZE) = n_rcv_win + 1
        BY <2>9, Constants DEF Lesser
      <4> DEFINE n == n_rcv_win + 1
      <4> HIDE DEF n
      <4>2. /\ Run(w, n) \in 0 .. Lesser(n, WIN_SIZE)
            /\ \A j \in 0 .. Run(w, n) - 1 : w[(rcv_win_tailer + j) % WIN_SIZE] # 0
            /\ Run(w, n) < Lesser(n, WIN_SIZE) => w[(rcv_win_tailer + Run(w, n)) % WIN_SIZE] = 0
        BY <4>1, RunStops DEF n
      <4> QED
        BY <2>6, <3>1, <4>1, <4>2 DEF n
    <3>2. CASE i # h + 1
      <4>1. run = 0
        BY <2>6, <3>2
      <4>2. w[Place(h + 1)] = 0
        <5>1. h + 1 \in h + 1 .. h + WIN_SIZE
          BY Constants
        <5> QED
          BY <1>6, <2>7, <3>2, <5>1
      <4>3. (rcv_win_tailer + 0) % WIN_SIZE = Place(h + 1)
        <5>1. h \in Int /\ h + 0 + 1 = h + 1
          OBVIOUS
        <5> QED
          BY <1>6, <5>1, PlaceFrom
      <4> QED
        BY <2>9, <4>1, <4>2, <4>3
    <3> QED
      BY <3>1, <3>2
  <2>11. /\ ReceiverInv'
         /\ Len(delivered') = Handed + run /\ Handed + run <= Out
         /\ delivered' \in Seq(Nat)
         /\ rcv_win' \in [0 .. WIN_SIZE - 1 -> Nat]
         /\ rcv_win_tailer' \in 0 .. WIN_SIZE - 1
         /\ n_rcv_win' \in 0 .. WIN_SIZE
         /\ expected_ack' \in 0 .. MAX_SEQ
         /\ \A k \in Handed + 1 .. Handed + WIN_SIZE :
                w[Place(k)] = 0 => rcv_win'[Place(k)] = 0
    <3>1. UNCHANGED <<sent, n_buf>>
      BY <1>1 DEF sndVars
    <3> QED
      BY <2>1, <2>5, <2>8, <2>9, <2>10, <3>1, Delivers
  <2>12. run \in Nat /\ Len(delivered') = h + run /\ h + run <= o
    BY <1>4, <2>9, <2>10, <2>11
  <2>13. AcksInv' /\ IsABag(acks') /\ BagToSet(acks') \subseteq Ack
    <3>1. acks' \in Passes(acks, {[seq |-> (Len(delivered') + MAX_SEQ) % SeqMod,
                                   last |-> Len(delivered')]})
      <4>1. CASE run = 0
        BY <1>7, <2>1, <2>12, <4>1 DEF AckReceived, Acks
      <4>2. CASE run # 0
        <5> DEFINE b == run - 1
                   x == h + b
                   y == h + run + MAX_SEQ
        <5>1. i = h + 1 /\ p.seq = h % SeqMod
          <6>1. i = h + 1
            BY <2>6, <4>2
          <6>2. h + 1 - 1 = h
            OBVIOUS
          <6> QED
            BY <1>5, <6>1, <6>2 DEF i
        <5>2. b \in Int /\ h \in Int /\ x \in Int /\ y = x + SeqMod
          BY <2>12, Constants
        <5>3. p.seq + run - 1 = (h % SeqMod) + b
          BY <2>12, <5>1, <5>2, Residues
        <5> HIDE DEF b
        <5>4. ((h % SeqMod) + b) % SeqMod = x % SeqMod
          BY <5>2, Constants, ModShift
        <5> HIDE DEF x, y
        <5>5. (x + SeqMod) % SeqMod = x % SeqMod
          BY <5>2, Constants, ModRound
        <5>6. (p.seq + run - 1) % SeqMod = y % SeqMod
          BY <5>2, <5>3, <5>4, <5>5
        <5> QED
          BY <2>1, <2>12, <4>2, <5>6 DEF AckReceived, Acks, y
      <4> QED
        BY <4>1, <4>2
    <3>2. Handed <= Len(delivered') /\ Len(delivered') \in Nat
      BY <1>4, <2>12
    <3> QED
      BY <1>1, <3>1, <3>2, AckSent
  <2>14. DataInv'
    <3>1. ASSUME NEW e \in BagToSet(data')
          PROVE  /\ e.id \in 1 .. o
                 /\ e = Pkt(e.id)
                 /\ h + run <= e.id + Lifetime
                 /\ e.id > a + 1 => data'[e] = 1
                 /\ e.id > a + 1 /\ e.id > h + run => rcv_win'[Place(e.id)] = 0
      <4>1. /\ e.id \in 1 .. o /\ e = Pkt(e.id)
            /\ e.id > a + 1 => data[e] = 1
            /\ e.id > a + 1 /\ e.id > h => rcv_win[Place(e.id)] = 0
        BY <1>3, <1>4 DEF RDTInv, DataInv, DataSound
      <4>2. h + run <= e.id + Lifetime
        BY <1>1, <2>12 DEF Timely
      <4>3. ASSUME e.id > a + 1, e.id > h + run PROVE rcv_win'[Place(e.id)] = 0
        <5>1. e.id \in h + 1 .. h + WIN_SIZE /\ e.id > h
          BY <1>4, <2>12, <4>1, <4>3, Constants
        <5>2. e.id # i
          BY <1>3, <1>5, <4>1, <4>3 DEF i
        <5>3. w[Place(e.id)] = 0
          BY <2>7, <4>1, <4>3, <5>1, <5>2
        <5> QED
          BY <1>4, <2>11, <5>1, <5>3
      <4> QED
        BY <1>3, <4>1, <4>2, <4>3
    <3> QED
      BY <1>8, <2>12, <3>1 DEF DataInv, DataSound, Handed
  <2>15. TypeOK'
    <3>1. TypeOK /\ UNCHANGED <<sndVars, halted, sent>>
      BY <1>1 DEF RDTInv
    <3> QED
      BY <1>2, <1>3, <2>11, <2>13, <3>1 DEF TypeOK, sndVars
  <2>16. (Acked <= Handed)' /\ (Handed <= Out)'
    BY <1>4, <1>8, <2>12 DEF Handed
  <2> QED
    BY <1>4, <1>8, <2>11, <2>12, <2>13, <2>14, <2>15, <2>16 DEF RDTInv
<1> QED
  BY <1>9, <1>10

-----------------------------------------------------------------------------
(* Every behaviour has the invariant.                                      *)

\* Sender_Init and Receiver_Init establish the invariant.
LEMMA InitInv == Init => RDTInv
<1> SUFFICES ASSUME Init PROVE RDTInv
  OBVIOUS
<1>1. TypeOK
  <2>1. Null \in Packet
    BY Constants DEF Null, Packet
  <2>2. IsABag(EmptyBag) /\ BagToSet(EmptyBag) = {}
    BY DEF IsABag, BagToSet, EmptyBag, SetToBag
  <2> QED
    BY <2>1, <2>2, Constants DEF Init, TypeOK
<1>2. sent = 0 /\ n_buf = 0 /\ n_snd_win = 0 /\ Len(delivered) = 0
  BY DEF Init
<1>3. 0 % WIN_SIZE = 0 /\ 0 % SeqMod = 0
  BY Constants, ModSmall
<1>4. SenderInv
  BY <1>2, <1>3 DEF Init, SenderInv, Acked, Out, TimerArmed, WindowFirst
<1>5. ReceiverInv
  <2>1. ASSUME NEW i \in 1 .. WIN_SIZE PROVE rcv_win[Place(i)] = 0
    <3>1. 0 \in Nat /\ 0 + i = i
      BY Constants
    <3>2. Place(i) \in 0 .. WIN_SIZE - 1
      BY <3>1, PlaceOffset
    <3> QED
      BY <3>2 DEF Init
  <2>2. 0 + 1 \in 1 .. WIN_SIZE /\ 0 + WIN_SIZE = WIN_SIZE
    BY Constants
  <2>3. CountsElements
    <3>1. {i \in DOMAIN rcv_win : rcv_win[i] # 0} = {}
      BY DEF Init
    <3> QED
      BY <3>1, FS_EmptySet DEF Init, CountsElements
  <2>4. delivered = [i \in 1 .. 0 |-> i]
    BY DEF Init
  <2>5. expected_ack = 0 /\ rcv_win_tailer = 0
    BY DEF Init
  <2>6. Handed = 0
    BY <1>2 DEF Handed
  <2>7. /\ \A i \in Handed + 1 .. Handed + WIN_SIZE : rcv_win[Place(i)] = 0
        /\ rcv_win[Place(Handed + 1)] = 0
    BY <2>1, <2>2, <2>6
  <2>8. delivered = [i \in 1 .. Handed |-> i]
    BY <2>4, <2>6
  <2> QED
    BY <1>3, <2>3, <2>5, <2>6, <2>7, <2>8 DEF ReceiverInv
<1>6. DataInv /\ AcksInv
  BY DEF Init, DataInv, DataSound, AcksInv, BagToSet, EmptyBag, SetToBag
<1> QED
  BY <1>1, <1>2, <1>4, <1>5, <1>6 DEF RDTInv, Acked, Handed, Out

\* Every step keeps the invariant, and hands up no less than before.
LEMMA StepInv ==
    ASSUME RDTInv, [Next]_vars
    PROVE  RDTInv' /\ Handed <= Len(delivered')
<1>1. UNCHANGED delivered => Handed <= Len(delivered')
  BY Counts DEF Handed
<1>2. CASE Sender_FromUpperLayer
  BY <1>1, <1>2, StepFromUpperLayer DEF Sender_FromUpperLayer, rcvVars
<1>3. CASE \E a \in BagToSet(acks) : Sender_FromLowerLayer(a)
  BY <1>1, <1>3, StepAck DEF Sender_FromLowerLayer, rcvVars
<1>4. CASE Sender_Timeout
  BY <1>1, <1>4, StepTimeout DEF Sender_Timeout, rcvVars
<1>5. CASE \E p \in BagToSet(data) : Receiver_FromLowerLayer(p)
  BY <1>5, StepPacket
<1>6. CASE Corrupted
  BY <1>1, <1>6, StepCorrupted DEF Corrupted, rcvVars
<1>7. CASE UNCHANGED vars
  <2>1. UNCHANGED <<sndVars, rcvVars, data, acks, sent>> /\ halted' = halted
    BY <1>7 DEF vars
  <2>2. halted' \in BOOLEAN
    BY <2>1 DEF RDTInv, TypeOK
  <2> QED
    BY <1>1, <2>1, <2>2, NothingChanges DEF rcvVars
<1> QED
  BY <1>2, <1>3, <1>4, <1>5, <1>6, <1>7 DEF Next

\* The invariant holds in every reachable state.
LEMMA SystemInv == Spec => []RDTInv
  BY InitInv, StepInv, PTL DEF Spec

-----------------------------------------------------------------------------
(* The theorems.                                                           *)

\* The program's variables have the types it means them to have; no index is
\* out of its array.
THEOREM TypeCorrect == Spec => []TypeOK
<1>1. RDTInv => TypeOK
  BY DEF RDTInv
<1> QED
  BY <1>1, SystemInv, PTL

\* The receiver's count of the elements of its window is right: no packet is
\* counted that is there already.
THEOREM CountIsRight == Spec => []CountsElements
<1>1. RDTInv => CountsElements
  BY DEF RDTInv, ReceiverInv
<1> QED
  BY <1>1, SystemInv, PTL

\* The sender's timer is set exactly while a packet waits for its ack.
THEOREM TimerIsRight == Spec => []TimerArmed
<1>1. RDTInv => TimerArmed
  BY DEF RDTInv, SenderInv
<1> QED
  BY <1>1, SystemInv, PTL

\* No packet waits in the buffer while there is room in the window.
THEOREM WindowBeforeBuffer == Spec => []WindowFirst
<1>1. RDTInv => WindowFirst
  BY DEF RDTInv, SenderInv
<1> QED
  BY <1>1, SystemInv, PTL

\* The sender forgets a packet only when the receiver has handed it up.
THEOREM NothingForgotten == Spec => []ForgetsOnlyDelivered
<1>1. RDTInv => ForgetsOnlyDelivered
  BY DEF RDTInv, ForgetsOnlyDelivered, Acked, Handed
<1> QED
  BY <1>1, SystemInv, PTL

\* The two sides and the link between them are a FIFO channel to the upper
\* layers: every step hands up the next packets of the stream, or accepts
\* some, or is one the upper layers do not see.
LEMMA StepIsTransport ==
    ASSUME RDTInv, RDTInv', [Next]_vars, Handed <= Len(delivered')
    PROVE  [Abstract!Next]_(Abstract!vars)
<1>1. /\ delivered = [i \in 1 .. Len(delivered) |-> i] /\ Len(delivered) \in Nat
      /\ delivered' = [i \in 1 .. Len(delivered') |-> i] /\ Len(delivered') \in Nat
      /\ sent \in Nat /\ sent' \in Nat
      /\ Len(delivered) <= Len(delivered') /\ Len(delivered') <= sent'
  <2>1. /\ delivered = [i \in 1 .. Len(delivered) |-> i]
        /\ delivered' = [i \in 1 .. Len(delivered') |-> i]
    BY DEF RDTInv, ReceiverInv, Handed
  <2>2. /\ Len(delivered) \in Nat /\ Len(delivered') \in Nat
        /\ sent \in Nat /\ sent' \in Nat /\ n_buf' \in Nat
    <3>1. TypeOK /\ TypeOK'
      BY DEF RDTInv
    <3>2. delivered \in Seq(Nat) /\ delivered' \in Seq(Nat)
      BY <3>1 DEF TypeOK
    <3>3. sent \in Nat /\ sent' \in Nat /\ n_buf' \in Nat
      BY <3>1, Constants DEF TypeOK
    <3> QED
      BY <3>2, <3>3
  <2>3. Len(delivered) <= Len(delivered') /\ Len(delivered') <= sent' - n_buf'
    BY DEF RDTInv, Handed, Out
  <2> QED
    BY <2>1, <2>2, <2>3
<1>2. UNCHANGED sent \/ (UNCHANGED delivered /\ sent' > sent)
  <2>1. CASE Sender_FromUpperLayer
    <3>1. UNCHANGED delivered
      BY <2>1 DEF Sender_FromUpperLayer, rcvVars
    <3>2. PICK n \in 1 .. Lesser(MaxMsg, MaxSent - sent) : sent' = sent \/ sent' = sent + n
      BY <2>1 DEF Sender_FromUpperLayer
    <3>3. n \in Nat \ {0}
      BY <1>1, RDTAssumption DEF Lesser
    <3> QED
      BY <1>1, <3>1, <3>2, <3>3
  <2> QED
    BY <2>1 DEF Next, Sender_FromLowerLayer, Sender_Timeout, Receiver_FromLowerLayer, Corrupted, vars
<1>3. CASE UNCHANGED sent
  <2>1. CASE Len(delivered') = Len(delivered)
    BY <1>1, <1>3, <2>1 DEF Abstract!vars
  <2>2. CASE Len(delivered') # Len(delivered)
    <3>1. Len(delivered') \in Len(delivered) + 1 .. sent /\ Len(delivered) < sent
      <4> DEFINE l == Len(delivered)
                 m == Len(delivered')
      <4>1. l \in Nat /\ m \in Nat /\ sent \in Nat /\ l <= m /\ m <= sent /\ m # l
        BY <1>1, <1>3, <2>2
      <4> HIDE DEF l, m
      <4>2. m \in l + 1 .. sent /\ l < sent
        BY <4>1
      <4> QED
        BY <4>2 DEF l, m
    <3> QED
      BY <1>1, <1>3, <3>1 DEF Abstract!Next, Abstract!Deliver
  <2> QED
    BY <2>1, <2>2
<1>4. CASE UNCHANGED delivered /\ sent' > sent
  BY <1>1, <1>4 DEF Abstract!Next, Abstract!Accept
<1> QED
  BY <1>2, <1>3, <1>4

\* Nothing is lost, repeated or reordered between the upper layers, whatever
\* the link does.
THEOREM ImplementsTransport == Spec => IsTransport
<1>1. Init => Abstract!Init
  BY DEF Init, Abstract!Init
<1>2. RDTInv /\ RDTInv' /\ [Next]_vars => [Abstract!Next]_(Abstract!vars)
  BY StepInv, StepIsTransport
<1> QED
  BY <1>1, <1>2, SystemInv, PTL DEF Spec, IsTransport, Abstract!Spec
=============================================================================
