--------------------------------- MODULE DSDV ---------------------------------
(***************************************************************************)
(* The routers of lab2 (dsdv_table.cc): each has a routing table, sends it *)
(* to its neighbours once a period, and learns from theirs.  Two threads   *)
(* of a router share the table: the sending thread reads the configuration *)
(* file first (Round), the receiving thread updates the table (Receive).   *)
(*                                                                         *)
(* A period is SEND_INTERVEL*2 = 20s, and tables travel over the loopback  *)
(* interface.  So rounds of several routers may fall together, before any  *)
(* of their tables arrives, but a table arrives before later rounds.       *)
(*                                                                         *)
(* SentFinite, RaisedNever, CheckedEven and NextTurnUnwrapped are their      *)
(* successors with a plausible bug.                                        *)
(***************************************************************************)
EXTENDS Integers, FiniteSets, FiniteSetsExt

CONSTANTS
    Routers,        \* the routers, numbered in the order of std::map<char, ...>
    Costs,          \* the links, sets of two routers, and their costs at first
    Edits,          \* links that may change, with the new cost; MAX_COST cuts
    MAX_COST,       \* the cost of no way (10000)
    SEQ_PERIOD,     \* rounds from one raise of a router's number to the next
    SeqMod,         \* values of an unsigned short
    Settle,         \* periods after the last change until routes must be good
    MaxChanges,     \* bound on changes of links
    MaxQuiet        \* bound on the periods after the last change

Links == DOMAIN Costs

ASSUME DSDVAssumption ==
    /\ Routers \subseteq Nat
    /\ Costs \in [Links -> 0 .. MAX_COST - 1]
    /\ \A l \in Links : l \subseteq Routers /\ Cardinality(l) = 2
    /\ Edits \subseteq Links \X (0 .. MAX_COST)
    /\ {MAX_COST, SEQ_PERIOD, SeqMod} \subseteq Nat \ {0}
    /\ {Settle, MaxChanges, MaxQuiet} \subseteq Nat

VARIABLES
    cost,       \* what the configuration files say of each link
    rTable,     \* of each router: destination -> next hop, cost, number
    near,       \* of each router: neighbour -> cost, as last read
    update_seq, \* of each router: rounds since it raised its number
    flight,     \* tables sent and not yet received
    arriving,   \* some table of those sent together has been received
    done,       \* routers that have had their round in this period
    quiet,      \* complete periods since the last change of a link
    changes     \* changes of links so far

clock == <<done, quiet, changes>>
vars == <<cost, rTable, near, update_seq, flight, arriving, clock>>

Near(r) == {n \in Routers : {r, n} \in Links}

Route(n, c, s) == [next |-> n, cost |-> c, seq |-> s]

IsTable(t) ==
    /\ DOMAIN t \subseteq Routers
    /\ \A d \in DOMAIN t : t[d] \in [next : Routers, cost : Nat, seq : 0 .. SeqMod - 1]

\* scanFile gives every neighbour the direct route.
Init ==
    /\ cost = Costs
    /\ near = [r \in Routers |-> [n \in Near(r) |-> Costs[{r, n}]]]
    /\ rTable = [r \in Routers |-> [d \in Near(r) \cup {r} |->
                    Route(d, IF d = r THEN 0 ELSE Costs[{r, d}], 0)]]
    /\ update_seq = [r \in Routers |-> 0]
    /\ flight = {} /\ arriving = FALSE
    /\ done = {} /\ quiet = 0 /\ changes = 0

-----------------------------------------------------------------------------
(* The sending thread.                                                     *)

Changed(r) == {n \in Near(r) : cost[{r, n}] # near[r][n]}
Broken(r) == {n \in Near(r) : cost[{r, n}] = MAX_COST}

RaisedNever(table, d, by) == table

Raised(table, d, by) == [table EXCEPT ![d].seq = (@ + by) % SeqMod]

CheckedEven(r) ==
    [d \in DOMAIN rTable[r] |->
        IF d \in Changed(r) THEN Route(d, cost[{r, d}], rTable[r][d].seq)
        ELSE [rTable[r][d] EXCEPT !.cost = IF rTable[r][d].next \in Broken(r) THEN MAX_COST ELSE @]]

\* A changed neighbour gets the direct route again, under an odd number if its
\* link has been cut; what is routed through a cut link is out of reach.
checkFile(r) ==
    [d \in DOMAIN rTable[r] |->
        IF d \in Changed(r)
        THEN Route(d, cost[{r, d}],
                   (rTable[r][d].seq + Cardinality({d} \cap Broken(r))) % SeqMod)
        ELSE [rTable[r][d] EXCEPT !.cost = IF rTable[r][d].next \in Broken(r) THEN MAX_COST ELSE @]]

SentFinite(r) ==
    LET t == checkFile(r) IN [d \in {e \in DOMAIN t : t[e].cost < MAX_COST} |-> t[d]]

Sent(r) == IF Changed(r) = {} THEN checkFile(r) ELSE Raised(checkFile(r), r, 2)

NextTurnUnwrapped(k) == k + 1

NextTurn(k) == (k + 1) % SEQ_PERIOD

\* One turn of the loop in run().  The number is raised after the sending.
Round(r) ==
    /\ r \notin done
    /\ ~arriving /\ \A m \in flight : m.from # r
    /\ quiet < MaxQuiet
    /\ near' = [near EXCEPT ![r] = [n \in Near(r) |-> cost[{r, n}]]]
    /\ flight' = flight \cup
          {[from |-> r, to |-> n, table |-> Sent(r)] : n \in Near(r) \ Broken(r)}
    /\ rTable' = [rTable EXCEPT ![r] =
          IF update_seq[r] = SEQ_PERIOD - 1 THEN Raised(Sent(r), r, 2) ELSE Sent(r)]
    /\ update_seq' = [update_seq EXCEPT ![r] = NextTurn(@)]
    /\ IF done \cup {r} = Routers
       THEN done' = {} /\ quiet' = quiet + 1
       ELSE done' = done \cup {r} /\ UNCHANGED quiet
    /\ UNCHANGED <<cost, changes, arriving>>

-----------------------------------------------------------------------------
(* The receiving thread: updateRT, in three parts.  c is the cost of the   *)
(* link to the sender, next.                                               *)

\* Lines 182-190: what goes through the sender costs what the sender says now.
Followed(mine, next, table) ==
    [d \in DOMAIN mine |->
        IF mine[d].next = next /\ mine[d].seq <= table[d].seq
        THEN Route(next, mine[next].cost + table[d].cost, table[d].seq)
        ELSE mine[d]]

\* Lines 193-195: the direct link, if it is the better way to the sender.
Direct(mine, c, next, table) ==
    IF c < mine[next].cost
    THEN [mine EXCEPT ![next] = Route(next, c, table[next].seq)]
    ELSE mine

\* Lines 197-225 for one destination; reach is the cost of reaching the sender.
Better(old, c, reach, next, entry) ==
    CASE old.seq < entry.seq /\ entry.seq % 2 = 0 ->
           Route(next, c + entry.cost, entry.seq)
      [] old.seq = entry.seq /\ reach + entry.cost < old.cost ->
           Route(next, reach + entry.cost, entry.seq)
      [] OTHER -> old

\* The destinations are visited in order, so those after the sender see the
\* entry of the sender itself as the loop has left it.
updateRT(r, next, table) ==
    LET c == near[r][next]
        mine == Direct(Followed(rTable[r], next, table), c, next, table)
        there == Better(mine[next], c, mine[next].cost, next, table[next])
        Reach(d) == IF d <= next THEN mine[next].cost ELSE there.cost
    IN  [d \in DOMAIN mine \cup DOMAIN table |->
            CASE d = r \/ d \notin DOMAIN table -> mine[d]
              [] d # r /\ d \notin DOMAIN mine ->
                   Route(next, Reach(d) + table[d].cost, table[d].seq)
              [] OTHER -> Better(mine[d], c, Reach(d), next, table[d])]

\* Receptions of different routers commute: the first router receives first.
Receive(m) ==
    /\ \A x \in flight : m.to <= x.to
    /\ flight' = flight \ {m}
    /\ arriving' = (flight' # {})
    /\ rTable' = IF near[m.to][m.from] >= MAX_COST THEN rTable
                 ELSE [rTable EXCEPT ![m.to] = updateRT(m.to, m.from, m.table)]
    /\ UNCHANGED <<cost, near, update_seq, clock>>

\* Somebody edits the files at both ends of a link, and saves them together.
Change(l, c) ==
    /\ changes < MaxChanges
    /\ c # cost[l]
    /\ cost' = [cost EXCEPT ![l] = c]
    /\ quiet' = 0
    /\ changes' = changes + 1
    /\ UNCHANGED <<rTable, near, update_seq, flight, arriving, done>>

Next ==
    \/ \E r \in Routers : Round(r)
    \/ \E m \in flight : Receive(m)
    \/ \E e \in Edits : Change(e[1], e[2])

Spec == Init /\ [][Next]_vars

-----------------------------------------------------------------------------
TypeOK ==
    /\ cost \in [Links -> 0 .. MAX_COST]
    /\ \A r \in Routers : IsTable(rTable[r]) /\ near[r] \in [Near(r) -> 0 .. MAX_COST]
    /\ update_seq \in [Routers -> 0 .. SEQ_PERIOD - 1]
    /\ \A m \in flight : {m.from, m.to} \in Links /\ IsTable(m.table)
    /\ arriving \in BOOLEAN
    /\ done \subseteq Routers /\ {quiet, changes} \subseteq Nat

\* dsdv_table.cc:185 and 194 use table.find() without looking for end(): a table
\* has an entry for its sender, and for all that its receiver routes through it.
LookupFinds ==
    \A m \in flight :
        /\ m.from \in DOMAIN m.table
        /\ \A d \in DOMAIN rTable[m.to] :
              rTable[m.to][d].next = m.from => d \in DOMAIN m.table

Shortest(r) ==
    LET Lesser(a, b) == IF a < b THEN a ELSE b
        within[n \in 0 .. Cardinality(Routers) - 1] ==
          [d \in Routers |->
              IF n = 0 THEN IF d = r THEN 0 ELSE MAX_COST
              ELSE FoldSet(LAMBDA e, least : Lesser(within[n - 1][e] + cost[{e, d}], least),
                           within[n - 1][d], Near(d))]
    IN  within[Cardinality(Routers) - 1]

Routed(r, d) == d \in DOMAIN rTable[r] /\ rTable[r][d].cost < MAX_COST

\* Whether the next hops from r lead to d over links that are there.
Leads(r, d) ==
    LET from[n \in 0 .. Cardinality(Routers)] ==
          IF n = 0 THEN {d}
          ELSE from[n - 1] \cup {s \in Routers :
                  /\ Routed(s, d)
                  /\ rTable[s][d].next \in from[n - 1] \cap (Near(s) \ Broken(s))}
    IN  r \in from[Cardinality(Routers)]

\* Once a change of a link is Settle periods ago, next hops lead to every
\* destination within reach, without a loop, at a cost that no path undercuts.
\* Costs may still rise for a while: a new number that comes by a longer way
\* first is believed (line 210).  README:18 of lab2 promises convergence.
RoutesLead ==
    quiet >= Settle =>
        \A r, d \in Routers :
            Shortest(r)[d] < MAX_COST =>
                Routed(r, d) /\ Leads(r, d) /\ rTable[r][d].cost >= Shortest(r)[d]

\* Once a change of a link is Settle periods ago, a destination that cannot be
\* reached has an infinite cost.  README:13,18 of lab2.
CutOffIsInfinite ==
    quiet >= Settle =>
        \A r, d \in Routers : Shortest(r)[d] >= MAX_COST => ~Routed(r, d)
=============================================================================
