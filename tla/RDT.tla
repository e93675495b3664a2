--------------------------------- MODULE RDT ---------------------------------
(***************************************************************************)
(* The reliable data transfer layer of lab1: the sender (rdt_sender.cc)    *)
(* with its window, its buffer and one timer for the oldest packet, the    *)
(* receiver (rdt_receiver.cc) with its window and cumulative acks, over a  *)
(* link (rdt_sim.cc) that loses, corrupts, delays and reorders, but does   *)
(* not duplicate, packets.                                                 *)
(*                                                                         *)
(* One event of the simulator is one action.  A packet is its sequence     *)
(* number and the position of its payload in the stream (id), which the    *)
(* program does not look at.  A corrupted packet fails its check: that a   *)
(* checksum or the five copies of an ack agree by accident is left out.    *)
(*                                                                         *)
(* RefillAll, RefillOne, RearmedByRefill, ResentAll, StillArmedNever,      *)
(* AckEager and DeliverKeepsSlot are their successors with a plausible     *)
(* bug, used only to see a property notice.                                *)
(***************************************************************************)
EXTENDS Integers, Sequences, FiniteSets, Bags

CONSTANTS
    MAX_SEQ,    \* the largest sequence number (127)
    WIN_SIZE,   \* the size of both windows (10)
    BSIZE,      \* the size of the sender's buffer (100000)
    Lifetime,   \* how many packets are delivered while one is under way
    MaxMsg,     \* bound on the packets of a message
    MaxSent,    \* bound on the packets sent
    MaxFlight   \* bound on the packets under way in either direction

\* Without the upper limit on Lifetime a late packet could pass for one of the
\* next round of sequence numbers.  The simulator delays by at most 0.2s.
ASSUME RDTAssumption ==
    /\ {MAX_SEQ, MaxSent} \subseteq Nat
    /\ {WIN_SIZE, BSIZE, MaxMsg, MaxFlight} \subseteq Nat \ {0}
    /\ Lifetime \in WIN_SIZE .. MAX_SEQ - WIN_SIZE

VARIABLES
    win, snd_win_t, n_snd_win,      \* sender: window ring, tail, size
    buffer, buf_t, n_buf,           \* sender: buffer ring, tail, size
    next_seq,                       \* sender: next sequence number
    timer,                          \* sender: the timer is set
    rcv_win, rcv_win_tailer,        \* receiver: window ring, tail
    n_rcv_win, expected_ack,        \* receiver: elements, next in order
    data, acks,                     \* the link: packets and acks under way
    halted,                         \* the ASSERT on a full buffer has failed
    sent,                           \* history: packets accepted
    delivered                       \* history: ids handed to the upper layer

sndVars == <<win, snd_win_t, n_snd_win, buffer, buf_t, n_buf, next_seq, timer>>
rcvVars == <<rcv_win, rcv_win_tailer, n_rcv_win, expected_ack, delivered>>
vars == <<sndVars, rcvVars, data, acks, halted, sent>>

SeqMod == MAX_SEQ + 1
Packet == [seq : 0 .. MAX_SEQ, id : Nat]
Ack == [seq : 0 .. MAX_SEQ, last : Nat]
Null == [seq |-> 0, id |-> 0]

Lesser(a, b) == IF a < b THEN a ELSE b

Init ==
    /\ win = [i \in 0 .. WIN_SIZE - 1 |-> Null]
    /\ buffer = [i \in 0 .. BSIZE - 1 |-> Null]
    /\ rcv_win = [i \in 0 .. WIN_SIZE - 1 |-> 0]
    /\ snd_win_t = 0 /\ n_snd_win = 0
    /\ buf_t = 0 /\ n_buf = 0
    /\ next_seq = 0
    /\ rcv_win_tailer = 0 /\ n_rcv_win = 0
    /\ expected_ack = 0
    /\ timer = FALSE
    /\ data = EmptyBag
    /\ acks = EmptyBag
    /\ halted = FALSE
    /\ sent = 0
    /\ delivered = <<>>

-----------------------------------------------------------------------------
(* The link.                                                               *)

\* Packets passed to the lower layer at once; each may be lost.
Passes(bag, pkts) ==
    {b \in {bag (+) SetToBag(kept) : kept \in SUBSET pkts} :
        b = bag \/ BagCardinality(b) <= MaxFlight}

\* Packets under way do not outlive Lifetime deliveries.
Timely ==
    /\ \A p \in BagToSet(data') : Len(delivered') <= p.id + Lifetime
    /\ \A a \in BagToSet(acks') : Len(delivered') <= a.last + Lifetime

-----------------------------------------------------------------------------
(* The sender.                                                             *)

\* A ring with the packets pkts put behind the first m from tail t on.
Extend(ring, size, t, m, pkts) ==
    [i \in DOMAIN ring |->
        LET j == (i + size - ((t + m) % size)) % size
        IN  IF j < Len(pkts) THEN pkts[j + 1] ELSE ring[i]]

\* Sender_FromUpperLayer: the message is split into n packets, which go to
\* the window, and out, while there is room, then to the buffer.
Sender_FromUpperLayer ==
    /\ ~ halted
    /\ \E n \in 1 .. Lesser(MaxMsg, MaxSent - sent) :
       LET pkts == [j \in 1 .. n |-> [seq |-> (next_seq + j - 1) % SeqMod, id |-> sent + j]]
           direct == Lesser(n, WIN_SIZE - n_snd_win)
       IN  IF n - direct > BSIZE - n_buf
           THEN halted' = TRUE /\ UNCHANGED <<sndVars, data, sent>>
           ELSE /\ win' = Extend(win, WIN_SIZE, snd_win_t, n_snd_win, SubSeq(pkts, 1, direct))
                /\ n_snd_win' = n_snd_win + direct
                /\ buffer' = Extend(buffer, BSIZE, buf_t, n_buf, SubSeq(pkts, direct + 1, n))
                /\ n_buf' = n_buf + n - direct
                /\ next_seq' = (next_seq + n) % SeqMod
                /\ timer' = (timer \/ n_snd_win' # 0)
                /\ sent' = sent + n
                /\ data' \in Passes(data, {pkts[j] : j \in 1 .. direct})
                /\ UNCHANGED <<snd_win_t, buf_t, halted>>
    /\ UNCHANGED <<rcvVars, acks>>

\* How many packets the window takes from the buffer when it slides by n.
RefillAll(n) == n_buf
RefillOne(n) == Lesser(1, Lesser(n_buf, WIN_SIZE - (n_snd_win - n)))
Refill(n) == Lesser(n_buf, WIN_SIZE - (n_snd_win - n))

\* The timer, which was stopped, is set again if anything waits for an ack.
RearmedByRefill(n, k) == k # 0
Rearmed(n, k) == n_snd_win - n + k # 0

\* The window slides by n and is refilled.
Slide(n) ==
    LET k == Refill(n)
        pkts == [j \in 1 .. k |-> buffer[(buf_t + j - 1) % BSIZE]]
        t == (snd_win_t + n) % WIN_SIZE
    IN  /\ win' = Extend(win, WIN_SIZE, t, n_snd_win - n, pkts)
        /\ snd_win_t' = t
        /\ n_snd_win' = n_snd_win - n + k
        /\ buf_t' = (buf_t + k) % BSIZE
        /\ n_buf' = n_buf - k
        /\ timer' = Rearmed(n, k)
        /\ data' \in Passes(data, {pkts[j] : j \in 1 .. k})
        /\ UNCHANGED <<buffer, next_seq>>

\* Sender_FromLowerLayer: an ack for a packet of the window acknowledges all
\* up to it; any other is ignored.
Sender_FromLowerLayer(a) ==
    /\ ~ halted
    /\ LET dpos == (a.seq + SeqMod - win[snd_win_t].seq) % SeqMod
       IN  IF n_snd_win = 0 \/ dpos >= n_snd_win
           THEN UNCHANGED <<sndVars, data>>
           ELSE Slide(dpos + 1)
    /\ acks' = acks (-) SetToBag({a})
    /\ UNCHANGED <<rcvVars, halted, sent>>

ResentAll == {win[(snd_win_t + j) % WIN_SIZE] : j \in 0 .. n_snd_win - 1}
Resent == IF n_snd_win = 0 THEN {} ELSE {win[snd_win_t]}

StillArmedNever == FALSE
StillArmed == n_snd_win # 0

\* Sender_Timeout: only the oldest packet is sent again.
Sender_Timeout ==
    /\ ~ halted
    /\ timer
    /\ data' \in Passes(data, Resent)
    /\ timer' = StillArmed
    /\ UNCHANGED <<win, snd_win_t, n_snd_win, buffer, buf_t, n_buf, next_seq,
                   rcvVars, acks, halted, sent>>

-----------------------------------------------------------------------------
(* The receiver.                                                           *)

\* b is in the ring interval from a to c.
Between(a, b, c) ==
    \/ a <= b /\ b <= c
    \/ c < a /\ a <= b
    \/ b <= c /\ c < a

\* send_ack; last is the number of packets delivered by now.
Acks(seq) == Passes(acks, {[seq |-> seq, last |-> Len(delivered')]})
Previous(seq) == (seq + MAX_SEQ) % SeqMod

DeliverKeepsSlot(w, run) ==
    /\ rcv_win' = w
    /\ rcv_win_tailer' = (rcv_win_tailer + run) % WIN_SIZE
    /\ delivered' = delivered \o [j \in 1 .. run |-> w[(rcv_win_tailer + j - 1) % WIN_SIZE]]

\* The first run elements of window w are handed up and their places freed.
Deliver(w, run) ==
    /\ rcv_win' = [i \in DOMAIN w |->
                     IF (i + WIN_SIZE - rcv_win_tailer) % WIN_SIZE < run THEN 0 ELSE w[i]]
    /\ rcv_win_tailer' = (rcv_win_tailer + run) % WIN_SIZE
    /\ delivered' = delivered \o [j \in 1 .. run |-> w[(rcv_win_tailer + j - 1) % WIN_SIZE]]

\* How far window w is filled from its tail on, if n elements are counted.
Run(w, n) ==
    CHOOSE r \in 0 .. Lesser(n, WIN_SIZE) :
        /\ \A j \in 0 .. r - 1 : w[(rcv_win_tailer + j) % WIN_SIZE] # 0
        /\ r < Lesser(n, WIN_SIZE) => w[(rcv_win_tailer + r) % WIN_SIZE] = 0

AckEager(seq, run) == Acks((seq + run - 1) % SeqMod)

\* The last packet received in order.
AckReceived(seq, run) ==
    IF run = 0 THEN Acks(Previous(expected_ack)) ELSE Acks((seq + run - 1) % SeqMod)

Receiver_FromLowerLayer(p) ==
    /\ ~ halted
    /\ data' = data (-) SetToBag({p})
    /\ IF ~ Between(expected_ack, p.seq, (expected_ack + WIN_SIZE - 1) % SeqMod)
       THEN /\ UNCHANGED rcvVars
            /\ acks' \in Acks(Previous(expected_ack))
       ELSE LET offset == (p.seq + SeqMod - expected_ack) % SeqMod
                w == [rcv_win EXCEPT ![(offset + rcv_win_tailer) % WIN_SIZE] = p.id]
                run == IF offset = 0 THEN Run(w, n_rcv_win + 1) ELSE 0
            IN  /\ Deliver(w, run)
                /\ n_rcv_win' = n_rcv_win + 1 - run
                /\ expected_ack' = (expected_ack + run) % SeqMod
                /\ acks' \in AckReceived(p.seq, run)
    /\ Timely
    /\ UNCHANGED <<sndVars, halted, sent>>

\* A packet that fails its check is dropped without an answer.
Corrupted ==
    /\ ~ halted
    /\ \/ \E p \in BagToSet(data) : data' = data (-) SetToBag({p}) /\ UNCHANGED acks
       \/ \E a \in BagToSet(acks) : acks' = acks (-) SetToBag({a}) /\ UNCHANGED data
    /\ UNCHANGED <<sndVars, rcvVars, halted, sent>>

Next ==
    \/ Sender_FromUpperLayer
    \/ \E a \in BagToSet(acks) : Sender_FromLowerLayer(a)
    \/ Sender_Timeout
    \/ \E p \in BagToSet(data) : Receiver_FromLowerLayer(p)
    \/ Corrupted

Spec == Init /\ [][Next]_vars

\* The simulator runs every event, and loses or corrupts each packet with a
\* probability below one: what is sent again and again gets through.
Fairness ==
    /\ SF_vars(Sender_Timeout /\ data' # data)
    /\ SF_vars(\E p \in BagToSet(data) : Receiver_FromLowerLayer(p) /\ acks' # acks)
    /\ SF_vars(\E a \in BagToSet(acks) : Sender_FromLowerLayer(a))

FairSpec == Spec /\ Fairness

-----------------------------------------------------------------------------
(* Properties.                                                             *)

TypeOK ==
    /\ win \in [0 .. WIN_SIZE - 1 -> Packet]
    /\ snd_win_t \in 0 .. WIN_SIZE - 1
    /\ n_snd_win \in 0 .. WIN_SIZE
    /\ buffer \in [0 .. BSIZE - 1 -> Packet]
    /\ buf_t \in 0 .. BSIZE - 1
    /\ n_buf \in 0 .. BSIZE
    /\ next_seq \in 0 .. MAX_SEQ
    /\ timer \in BOOLEAN
    /\ rcv_win \in [0 .. WIN_SIZE - 1 -> Nat]
    /\ rcv_win_tailer \in 0 .. WIN_SIZE - 1
    /\ n_rcv_win \in 0 .. WIN_SIZE
    /\ expected_ack \in 0 .. MAX_SEQ
    /\ IsABag(data) /\ BagToSet(data) \subseteq Packet
    /\ IsABag(acks) /\ BagToSet(acks) \subseteq Ack
    /\ halted \in BOOLEAN
    /\ sent \in Nat
    /\ delivered \in Seq(Nat)

\* The upper layers see a FIFO channel.
Abstract == INSTANCE Transport WITH sent <- sent, delivered <- delivered
IsTransport == Abstract!Spec

\* ... that loses nothing: once the upper layer has no more to send, which
\* MaxSent sees to, everything it sent is delivered in the end, unless the
\* ASSERT on a full buffer has failed.
AllArrives == <>[](Len(delivered) = sent \/ halted)

\* "elements in window" (rdt_receiver.cc:33): a packet is counted when it is
\* put in the window even if it is there already (line 111-112), but none ever
\* is: a packet is sent again only when everything before it is acknowledged.
CountsElements ==
    n_rcv_win = Cardinality({i \in DOMAIN rcv_win : rcv_win[i] # 0})

\* The one timer is set exactly while a packet waits for its ack
\* (rdt_sender.cc:85-102, 123-145, 149-155): otherwise nothing is sent again.
TimerArmed == timer <=> n_snd_win > 0

\* A packet waits in the buffer only while the window is full: a later one
\* would otherwise overtake it (rdt_sender.cc:85, 133).
WindowFirst == n_buf > 0 => n_snd_win = WIN_SIZE

\* The sender forgets only packets that the receiver has handed up, whatever
\* late or repeated acks say (rdt_sender.cc:118-131).
ForgetsOnlyDelivered == sent - n_buf - n_snd_win <= Len(delivered)
=============================================================================
