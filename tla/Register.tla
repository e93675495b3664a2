------------------------------- MODULE Register -------------------------------
(***************************************************************************)
(* What the key/value service of lab4 promises to its clerks: a register   *)
(* per key.  Values are numbered in the order in which their writes start. *)
(* A read answers with a value that somebody has begun to write there,     *)
(* and, if the register is strict, with none that was overwritten when it  *)
(* began: its write had ended before another one started, whose value some *)
(* write or read had shown to be there.  Writes that are not over compete: *)
(* each may take effect, also again, until it ends.                        *)
(***************************************************************************)
EXTENDS Naturals, Sequences

CONSTANTS Clerks, Keys

VARIABLES
    strict,     \* reads are never outdated
    begun,      \* per write, its key, and which writes had ended before it
    ended,      \* the writes that have ended
    known,      \* per key, the newest value a write or read has shown
    op          \* per clerk, what it is doing

vars == <<strict, begun, ended, known, op>>

Idle == [does |-> "nothing"]
Write(k, v) == [does |-> "write", key |-> k, val |-> v]
Read(k, since) == [does |-> "read", key |-> k, since |-> since, answer |-> 0]

Init ==
    /\ strict \in BOOLEAN
    /\ begun = <<>>
    /\ ended = {}
    /\ known = [k \in Keys |-> 0]
    /\ op = [c \in Clerks |-> Idle]

Shown(k, v) == known' = [known EXCEPT ![k] = IF v > @ THEN v ELSE @]

StartWrite(c) ==
    /\ op[c] = Idle
    /\ \E k \in Keys :
          /\ begun' = Append(begun, [key |-> k, after |-> ended])
          /\ op' = [op EXCEPT ![c] = Write(k, Len(begun'))]
    /\ UNCHANGED <<strict, ended, known>>

StartRead(c) ==
    /\ op[c] = Idle
    /\ \E k \in Keys : op' = [op EXCEPT ![c] = Read(k, known[k])]
    /\ UNCHANGED <<strict, begun, ended, known>>

\* The write of v had ended when that of a known value started.
Overwritten(v, since) == since # 0 /\ v \in begun[since].after

Answer(c) ==
    /\ op[c].does = "read" /\ op[c].answer = 0
    /\ \E v \in 1 .. Len(begun) :
          /\ begun[v].key = op[c].key
          /\ strict => ~ Overwritten(v, op[c].since)
          /\ op' = [op EXCEPT ![c].answer = v]
    /\ UNCHANGED <<strict, begun, ended, known>>

EndWrite(c) ==
    /\ op[c].does = "write"
    /\ Shown(op[c].key, op[c].val)
    /\ ended' = ended \cup {op[c].val}
    /\ op' = [op EXCEPT ![c] = Idle]
    /\ UNCHANGED <<strict, begun>>

EndRead(c) ==
    /\ op[c].does = "read" /\ op[c].answer # 0
    /\ Shown(op[c].key, op[c].answer)
    /\ op' = [op EXCEPT ![c] = Idle]
    /\ UNCHANGED <<strict, begun, ended>>

Next ==
    \E c \in Clerks :
        /\ op'[c] # op[c]
        /\ StartWrite(c) \/ StartRead(c) \/ Answer(c) \/ EndWrite(c) \/ EndRead(c)

Spec == Init /\ [][Next]_vars
=============================================================================
