----------------------------- MODULE MCViewService -----------------------------
(* Instances of ViewService for TLC. *)
EXTENDS ViewService, TLC

CONSTANTS s1, s2, s3

Three == {s1, s2, s3}
Pairs == {{s1, s2}, {s1, s3}, {s2, s3}}

\* The servers are interchangeable; used for safety only.
Symmetry == Permutations(Servers)

Env(servers, faults, views, crash, restarts) ==
    [servers |-> servers, faults |-> faults,
     views |-> views, crashes |-> crash, restarts |-> restarts]

\* Any two servers and every fault, or three, of which one waits for a role.
Faulty ==
    { Env(pair, FaultKinds, 4, 1, 1) : pair \in Pairs }
        \cup { Env(Three, {"lateping"}, 4, 0, 0) }
        \cup { Env(Three, {"anycrash", "lateping"}, 3, 1, 0) }
        \cup { Env(Three, {"anycrash"}, 5, 1, 0) }

OneCrash == { Env(Three, {"anycrash"}, 5, 1, 0) }
=============================================================================
