------------------------------ MODULE Checksum ------------------------------
(***************************************************************************)
(* The checksum of lab1 (rdt_sender.cc:158-170, rdt_receiver.cc:137-149)   *)
(* over the size byte, the sequence number and the payload of a packet,    *)
(* and a link that changes one of these bytes.  A byte has BYTE values, a  *)
(* short two bytes, the sum four.                                          *)
(***************************************************************************)
EXTENDS Integers, Sequences, Functions

CONSTANTS
    BYTE,       \* values of a byte (256)
    MaxCount    \* bound on the bytes under the checksum (124)

VARIABLES
    addr,       \* the bytes the sender computed the checksum of
    arrived     \* what the link made of them

vars == <<addr, arrived>>

Bytes == UNION {[1 .. n -> 0 .. BYTE - 1] : n \in 2 .. MaxCount}

\* The loop: a little-endian short at a time.
SumOfShorts(a) ==
    SumFunctionOnSet([i \in 1 .. Len(a) |-> IF i % 2 = 1 THEN a[i] ELSE BYTE * a[i]],
                     1 .. 2 * (Len(a) \div 2))

\* At an odd count the byte at count - 1 is added; count has been counted down
\* to 1 and addr still points to the first byte.
checksum(a) ==
    LET Mask == BYTE ^ 4
        sum == SumOfShorts(a) + (IF Len(a) % 2 = 1 THEN a[1] ELSE 0)
    IN  Mask - 1 - (((sum % Mask) + (sum \div Mask)) % Mask)

Init ==
    /\ addr \in Bytes
    /\ arrived = addr

\* The size byte stays: it decides how many bytes are under the checksum.
Corrupt ==
    /\ arrived = addr
    /\ \E i \in 2 .. Len(addr), v \in 0 .. BYTE - 1 : arrived' = [addr EXCEPT ![i] = v]
    /\ UNCHANGED addr

Spec == Init /\ [][Corrupt]_vars

Accepted == checksum(arrived) = checksum(addr)

\* "any part of the packet can be corrupted" (rdt_sim.cc:159), and a corrupted
\* packet is ignored because its checksum is wrong (README): any changed byte
\* is detected.
AnyErrorDetected == arrived # addr => ~ Accepted
=============================================================================
