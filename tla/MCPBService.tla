------------------------------ MODULE MCPBService ------------------------------
(* Instances of PBService for TLC. *)
EXTENDS PBService

CONSTANTS s1, s2, c1, c2, k1

Two == {s1, s2}
OneClerk == {c1}
TwoClerks == {c1, c2}
OneKey == {k1}

Symmetry == Permutations(Servers)

Env(faults, writers, readers, views, crash, put) ==
    [faults |-> faults, writers |-> writers, readers |-> readers,
     views |-> views, crashes |-> crash, puts |-> put]

\* A server crashes at any time; one is only slow; requests and replies are
\* discarded, of Puts only; pings fail.
FailStopEnv == Env({"anycrash"}, TwoClerks, OneClerk, 4, 1, 2)
LateEnv == Env({"lateping"}, OneClerk, OneClerk, 3, 0, 2)
DiscardEnv == Env({"lostcall", "lostreply"}, OneClerk, {}, 2, 0, 2)
PingEnv == Env({"lostping"}, OneClerk, OneClerk, 4, 0, 1)
Safe == {FailStopEnv, LateEnv, DiscardEnv, PingEnv}

SettledCrash == {Env({"restart"}, OneClerk, OneClerk, 5, 1, 2)}
LostPing == {PingEnv}
=============================================================================
