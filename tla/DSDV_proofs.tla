------------------------------ MODULE DSDV_proofs ------------------------------
(***************************************************************************)
(* Theorems about the routers of lab2, for every network: their tables     *)
(* have their types, and the receiving thread finds what it looks up.      *)
(***************************************************************************)
EXTENDS DSDV, FiniteSetTheorems, TLAPS

Entry == [next : Routers, cost : Nat, seq : 0 .. SeqMod - 1]

-----------------------------------------------------------------------------
(* The inductive invariant.  Routers never forget a destination, so what   *)
(* makes a lookup find is about the domains of tables alone.               *)

\* A router knows itself and its neighbours, its next hops are neighbours, and
\* they know the destinations that are routed through them.
TablesInv ==
    \A r \in Routers :
        /\ Near(r) \cup {r} \subseteq DOMAIN rTable[r]
        /\ \A d \in DOMAIN rTable[r] :
              /\ rTable[r][d].next \in Near(r) \cup {r}
              /\ rTable[r][d].next = r => d = r
              /\ d \in DOMAIN rTable[rTable[r][d].next]

\* No table overtakes another of the same sender, and what it has its sender
\* has.
FlightInv ==
    /\ \A m \in flight : DOMAIN m.table \subseteq DOMAIN rTable[m.from]
    /\ \A m, x \in flight : m.from = x.from /\ m.to = x.to => m = x

DSDVInv ==
    /\ TypeOK
    /\ DOMAIN rTable = Routers /\ DOMAIN near = Routers
    /\ TablesInv
    /\ FlightInv
    /\ LookupFinds

-----------------------------------------------------------------------------
(* The network.                                                            *)

\* What the assumption says of the constants, one fact each.
LEMMA Constants ==
    /\ Costs \in [Links -> 0 .. MAX_COST - 1] /\ Edits \subseteq Links \X (0 .. MAX_COST)
    /\ MAX_COST \in Nat \ {0} /\ SEQ_PERIOD \in Nat \ {0} /\ SeqMod \in Nat \ {0}
  BY DSDVAssumption

\* A neighbour is another router, over a link that has one name from both ends.
LEMMA Neighbours ==
    ASSUME NEW r \in Routers, NEW n \in Near(r)
    PROVE  n \in Routers /\ n # r /\ {r, n} \in Links /\ {n, r} \in Links /\ r \in Near(n)
<1>1. n \in Routers /\ {r, n} \in Links /\ {r, n} = {n, r}
  BY DEF Near
<1>2. n # r
  <2>1. Cardinality({r, n}) = 2
    BY <1>1, DSDVAssumption
  <2>2. ASSUME n = r PROVE FALSE
    <3>1. {r, n} = {r}
      BY <2>2
    <3>2. Cardinality({r}) = 1
      BY FS_Singleton
    <3> QED
      BY <2>1, <3>1, <3>2
  <2> QED
    BY <2>2
<1> QED
  BY <1>1, <1>2 DEF Near

\* A remainder is a remainder.
LEMMA Residue ==
    ASSUME NEW m \in Nat \ {0}, NEW x \in Nat
    PROVE  x % m \in 0 .. m - 1
  OBVIOUS

-----------------------------------------------------------------------------
(* The sending thread: a round changes next hops only to neighbours, and   *)
(* no domain.                                                              *)

\* checkFile (dsdv_table.cc:121-153) keeps the entries; one whose next hop changes
\* is that of a neighbour, and its next hop becomes that neighbour.
LEMMA CheckFile ==
    ASSUME DSDVInv, NEW r \in Routers
    PROVE  /\ DOMAIN checkFile(r) = DOMAIN rTable[r]
           /\ \A d \in DOMAIN rTable[r] :
                 /\ checkFile(r)[d] \in Entry
                 /\ \/ checkFile(r)[d].next = rTable[r][d].next
                    \/ d \in Near(r) /\ checkFile(r)[d].next = d
<1>1. DOMAIN checkFile(r) = DOMAIN rTable[r]
  BY DEF checkFile
<1>2. ASSUME NEW d \in DOMAIN rTable[r]
      PROVE  /\ checkFile(r)[d] \in Entry
             /\ \/ checkFile(r)[d].next = rTable[r][d].next
                \/ d \in Near(r) /\ checkFile(r)[d].next = d
  <2>1. rTable[r][d] \in Entry
    BY DEF DSDVInv, TypeOK, IsTable, Entry
  <2>2. CASE d \in Changed(r)
    <3> DEFINE k == Cardinality({d} \cap Broken(r))
               s == (rTable[r][d].seq + k) % SeqMod
    <3>1. d \in Near(r) /\ d \in Routers /\ cost[{r, d}] \in Nat
      <4>1. d \in Near(r)
        BY <2>2 DEF Changed
      <4>2. {r, d} \in Links
        BY <4>1, Neighbours
      <4>3. cost[{r, d}] \in 0 .. MAX_COST
        BY <4>2 DEF DSDVInv, TypeOK
      <4> QED
        <5>1. d \in Routers
          BY <4>1, Neighbours
        <5>2. cost[{r, d}] \in Nat
          BY <4>3, Constants
        <5> QED
          BY <4>1, <5>1, <5>2
    <3>2. s \in 0 .. SeqMod - 1
      <4>1. k \in Nat
        BY FS_Singleton, FS_Intersection, FS_CardinalityType
      <4>2. rTable[r][d].seq + k \in Nat
        BY <2>1, <4>1, Constants DEF Entry
      <4> QED
        BY <4>2, Constants, Residue
    <3>3. checkFile(r)[d] = Route(d, cost[{r, d}], s)
      BY <2>2 DEF checkFile
    <3> HIDE DEF s
    <3> QED
      BY <3>1, <3>2, <3>3 DEF Route, Entry
  <2>3. CASE d \notin Changed(r)
    <3>1. checkFile(r)[d] = [rTable[r][d] EXCEPT !.cost =
              IF rTable[r][d].next \in Broken(r) THEN MAX_COST ELSE @]
      BY <2>3 DEF checkFile
    <3> QED
      BY <2>1, <3>1, Constants DEF Entry
  <2> QED
    BY <2>2, <2>3
<1> QED
  BY <1>1, <1>2

\* Raising a sequence number by two leaves the table's form and its next hops.
LEMMA RaisedTable ==
    ASSUME NEW t, NEW r \in DOMAIN t, \A d \in DOMAIN t : t[d] \in Entry
    PROVE  /\ DOMAIN Raised(t, r, 2) = DOMAIN t
           /\ \A d \in DOMAIN t : /\ Raised(t, r, 2)[d] \in Entry
                                  /\ Raised(t, r, 2)[d].next = t[d].next
<1>1. DOMAIN Raised(t, r, 2) = DOMAIN t
  BY DEF Raised
<1>2. ASSUME NEW d \in DOMAIN t
      PROVE  Raised(t, r, 2)[d] \in Entry /\ Raised(t, r, 2)[d].next = t[d].next
  <2>1. CASE d = r
    <3>1. (t[d].seq + 2) % SeqMod \in 0 .. SeqMod - 1
      <4>1. t[d].seq + 2 \in Nat
        BY Constants DEF Entry
      <4> QED
        BY <4>1, Constants, Residue
    <3>2. Raised(t, r, 2)[d] = [t[d] EXCEPT !.seq = (t[d].seq + 2) % SeqMod]
      BY <2>1 DEF Raised
    <3> QED
      BY <3>1, <3>2 DEF Entry
  <2>2. CASE d # r
    BY <2>2 DEF Raised
  <2> QED
    BY <2>1, <2>2
<1> QED
  BY <1>1, <1>2

\* What a round sends, and keeps, has the entries of the table before it; a next
\* hop that differs leads to the neighbour the entry is about.
LEMMA SentTable ==
    ASSUME DSDVInv, NEW r \in Routers
    PROVE  /\ DOMAIN Sent(r) = DOMAIN rTable[r]
           /\ \A d \in DOMAIN rTable[r] :
                 /\ Sent(r)[d] \in Entry
                 /\ \/ Sent(r)[d].next = rTable[r][d].next
                    \/ d \in Near(r) /\ Sent(r)[d].next = d
<1>1. r \in DOMAIN checkFile(r)
  BY CheckFile DEF DSDVInv, TablesInv
<1> QED
  BY <1>1, CheckFile, RaisedTable DEF Sent

\* A new table of a router: it has all destinations of the old one, and those
\* that it routes another way go through a neighbour that knows them.
Grown(r, t) ==
    /\ DOMAIN rTable[r] \subseteq DOMAIN t /\ DOMAIN t \subseteq Routers
    /\ \A d \in DOMAIN t : t[d] \in Entry
    /\ \A d \in DOMAIN t :
          \/ d \in DOMAIN rTable[r] /\ t[d].next = rTable[r][d].next
          \/ t[d].next \in Near(r) /\ d \in DOMAIN rTable[t[d].next]

\* The table sent in a round is such a table.
LEMMA SentIsGrown ==
    ASSUME DSDVInv, NEW r \in Routers
    PROVE  Grown(r, Sent(r))
<1>1. DOMAIN Sent(r) = DOMAIN rTable[r] /\ DOMAIN rTable[r] \subseteq Routers
  BY SentTable DEF DSDVInv, TypeOK, IsTable
<1>2. \A d \in DOMAIN rTable[r] : Sent(r)[d] \in Entry
  BY SentTable
<1>3. ASSUME NEW d \in DOMAIN rTable[r], Sent(r)[d].next # rTable[r][d].next
      PROVE  Sent(r)[d].next \in Near(r) /\ d \in DOMAIN rTable[Sent(r)[d].next]
  <2>1. d \in Near(r) /\ Sent(r)[d].next = d
    BY <1>3, SentTable
  <2>2. d \in DOMAIN rTable[d]
    BY <2>1, Neighbours DEF DSDVInv, TablesInv
  <2> QED
    BY <2>1, <2>2
<1> QED
  BY <1>1, <1>2, <1>3 DEF Grown

\* So is the table kept after it.
LEMMA RaisedIsGrown ==
    ASSUME NEW r \in Routers, NEW t, r \in DOMAIN t, Grown(r, t)
    PROVE  Grown(r, Raised(t, r, 2))
<1>1. /\ DOMAIN Raised(t, r, 2) = DOMAIN t
      /\ \A d \in DOMAIN t : /\ Raised(t, r, 2)[d] \in Entry
                             /\ Raised(t, r, 2)[d].next = t[d].next
  BY RaisedTable DEF Grown
<1> QED
  BY <1>1 DEF Grown

\* A step gives router r the table t.
Replaced(r, t) ==
    /\ DOMAIN rTable' = Routers /\ rTable'[r] = t
    /\ \A n \in Routers \ {r} : rTable'[n] = rTable[n]

\* A new table of one router keeps what is known of the tables.
LEMMA GrownTables ==
    ASSUME DSDVInv, NEW r \in Routers, NEW t, Grown(r, t), Replaced(r, t)
    PROVE  /\ \A n \in Routers : IsTable(rTable'[n])
           /\ \A n \in Routers : DOMAIN rTable[n] \subseteq DOMAIN rTable'[n]
           /\ TablesInv'
<1>1. /\ DOMAIN rTable' = Routers /\ rTable'[r] = t
      /\ \A n \in Routers \ {r} : rTable'[n] = rTable[n]
  BY DEF Replaced
<1>2. \A n \in Routers : IsTable(rTable'[n])
  <2>1. IsTable(t)
    BY DEF Grown, IsTable, Entry
  <2>2. \A n \in Routers : IsTable(rTable[n])
    BY DEF DSDVInv, TypeOK
  <2> QED
    BY <1>1, <2>1, <2>2, Zenon
<1>3. ASSUME NEW n \in Routers PROVE DOMAIN rTable[n] \subseteq DOMAIN rTable'[n]
  BY <1>1 DEF Grown
<1>4. ASSUME NEW n \in Routers
      PROVE  /\ Near(n) \cup {n} \subseteq DOMAIN rTable'[n]
             /\ \A d \in DOMAIN rTable'[n] :
                  /\ rTable'[n][d].next \in Near(n) \cup {n}
                  /\ rTable'[n][d].next = n => d = n
                  /\ d \in DOMAIN rTable'[rTable'[n][d].next]
  <2>1. Near(n) \cup {n} \subseteq DOMAIN rTable'[n]
    BY <1>3 DEF DSDVInv, TablesInv
  <2>2. ASSUME NEW d \in DOMAIN rTable'[n]
        PROVE  /\ rTable'[n][d].next \in Near(n) \cup {n}
               /\ rTable'[n][d].next = n => d = n
               /\ d \in DOMAIN rTable[rTable'[n][d].next]
    <3>1. CASE d \in DOMAIN rTable[n] /\ rTable'[n][d].next = rTable[n][d].next
      BY <3>1 DEF DSDVInv, TablesInv
    <3>2. CASE ~(d \in DOMAIN rTable[n] /\ rTable'[n][d].next = rTable[n][d].next)
      <4>1. n = r
        BY <1>1, <2>2, <3>2
      <4>2. rTable'[n][d].next \in Near(n) /\ d \in DOMAIN rTable[rTable'[n][d].next]
        BY <1>1, <2>2, <3>2, <4>1 DEF Grown
      <4> QED
        BY <4>2, Neighbours
    <3> QED
      BY <3>1, <3>2
  <2>3. ASSUME NEW d \in DOMAIN rTable'[n] PROVE rTable'[n][d].next \in Routers
    BY <2>2, <2>3, Neighbours
  <2> QED
    BY <1>3, <2>1, <2>2, <2>3
<1>5. TablesInv'
  BY <1>4, Zenon DEF TablesInv, Near
<1> QED
  BY <1>1, <1>2, <1>3, <1>5

-----------------------------------------------------------------------------
(* The receiving thread.                                                   *)

\* The two ends of a message are neighbours.
LEMMA Ends ==
    ASSUME DSDVInv, NEW m \in flight
    PROVE  /\ m.to \in Routers /\ m.from \in Routers /\ m.from # m.to
           /\ m.from \in Near(m.to) /\ m.to \in Near(m.from)
<1>1. {m.from, m.to} \in Links
  BY DEF DSDVInv, TypeOK
<1>2. m.from \in Routers /\ m.to \in Routers
  BY <1>1, DSDVAssumption
<1>3. m.to \in Near(m.from)
  BY <1>1, <1>2 DEF Near
<1> QED
  BY <1>2, <1>3, Neighbours

\* An entry that is improved stays, or leads to the sender.
LEMMA BetterEntry ==
    ASSUME NEW old \in Entry, NEW c \in Nat, NEW reach \in Nat, NEW next \in Routers,
           NEW entry \in Entry
    PROVE  /\ Better(old, c, reach, next, entry) \in Entry
           /\ Better(old, c, reach, next, entry).next \in {old.next, next}
<1> DEFINE direct == Route(next, c + entry.cost, entry.seq)
           through == Route(next, reach + entry.cost, entry.seq)
<1>1. direct \in Entry /\ direct.next = next
  BY DEF Route, Entry
<1>2. through \in Entry /\ through.next = next
  BY DEF Route, Entry
<1>3. Better(old, c, reach, next, entry) \in {old, direct, through}
  <2>1. CASE old.seq < entry.seq /\ entry.seq % 2 = 0
    BY <2>1 DEF Better
  <2>2. CASE ~(old.seq < entry.seq /\ entry.seq % 2 = 0)
             /\ old.seq = entry.seq /\ reach + entry.cost < old.cost
    BY <2>2 DEF Better
  <2>3. CASE ~(old.seq < entry.seq /\ entry.seq % 2 = 0)
             /\ ~(old.seq = entry.seq /\ reach + entry.cost < old.cost)
    BY <2>3 DEF Better
  <2> QED
    BY <2>1, <2>2, <2>3
<1> HIDE DEF direct, through
<1> QED
  BY <1>1, <1>2, <1>3

\* What the first two parts of updateRT do to the table.
LEMMA FollowedDirect ==
    ASSUME DSDVInv, NEW m \in flight, NEW c \in Nat
    PROVE  LET mine == Direct(Followed(rTable[m.to], m.from, m.table), c, m.from, m.table)
           IN  /\ DOMAIN mine = DOMAIN rTable[m.to]
               /\ \A d \in DOMAIN rTable[m.to] :
                     /\ mine[d] \in Entry
                     /\ mine[d].next = rTable[m.to][d].next
                        \/ (d = m.from /\ mine[d].next = m.from)
<1> DEFINE old == rTable[m.to]
           followed == Followed(old, m.from, m.table)
           mine == Direct(followed, c, m.from, m.table)
<1>1. m.from \in Routers /\ m.from \in DOMAIN old /\ m.from \in DOMAIN m.table
  BY Ends DEF DSDVInv, TablesInv, LookupFinds
<1>2. \A d \in DOMAIN m.table : m.table[d] \in Entry
  BY DEF DSDVInv, TypeOK, IsTable, Entry
<1>3. \A d \in DOMAIN old : old[d] \in Entry
  BY Ends DEF DSDVInv, TypeOK, IsTable, Entry
<1>4. \A d \in DOMAIN old : old[d].next = m.from => d \in DOMAIN m.table
  BY DEF DSDVInv, LookupFinds
<1>5. DOMAIN followed = DOMAIN old
  BY DEF Followed
<1>6. ASSUME NEW d \in DOMAIN old
      PROVE  followed[d] \in Entry /\ followed[d].next = old[d].next
  <2>1. CASE old[d].next = m.from /\ old[d].seq <= m.table[d].seq
    <3>1. followed[d] = Route(m.from, old[m.from].cost + m.table[d].cost, m.table[d].seq)
      BY <2>1 DEF Followed
    <3>2. m.table[d] \in Entry /\ old[m.from] \in Entry
      BY <1>1, <1>2, <1>3, <1>4, <2>1
    <3> HIDE DEF old
    <3> QED
      BY <1>1, <2>1, <3>1, <3>2 DEF Route, Entry
  <2>2. CASE ~(old[d].next = m.from /\ old[d].seq <= m.table[d].seq)
    <3>1. followed[d] = old[d]
      BY <2>2 DEF Followed
    <3> QED
      BY <1>3, <3>1
  <2> QED
    BY <2>1, <2>2
<1> DEFINE direct == Route(m.from, c, m.table[m.from].seq)
<1>7. direct \in Entry /\ direct.next = m.from
  BY <1>1, <1>2 DEF Route, Entry
<1> HIDE DEF followed, old, direct
<1>8. mine = followed \/ mine = [followed EXCEPT ![m.from] = direct]
  BY DEF Direct, direct
<1> HIDE DEF mine
<1>9. DOMAIN mine = DOMAIN old
  BY <1>5, <1>8
<1>10. ASSUME NEW d \in DOMAIN old
       PROVE  /\ mine[d] \in Entry
              /\ mine[d].next = old[d].next \/ (d = m.from /\ mine[d].next = m.from)
  BY <1>5, <1>6, <1>7, <1>8
<1> QED
  BY <1>9, <1>10 DEF mine, followed, old

\* The table after the reception of a message: all destinations of both tables,
\* each routed as before or through the sender, which knows it.
LEMMA Received ==
    ASSUME DSDVInv, NEW m \in flight
    PROVE  LET t == updateRT(m.to, m.from, m.table)
           IN  /\ DOMAIN t = DOMAIN rTable[m.to] \cup DOMAIN m.table
               /\ \A d \in DOMAIN t :
                     /\ t[d] \in Entry
                     /\ \/ d \in DOMAIN rTable[m.to] /\ t[d].next = rTable[m.to][d].next
                        \/ t[d].next = m.from /\ d \in DOMAIN m.table
<1> DEFINE r == m.to
           c == near[r][m.from]
           old == rTable[r]
           table == m.table
           mine == Direct(Followed(old, m.from, table), c, m.from, table)
           there == Better(mine[m.from], c, mine[m.from].cost, m.from, table[m.from])
           Reach(d) == IF d <= m.from THEN mine[m.from].cost ELSE there.cost
           t == updateRT(r, m.from, table)
<1>1. r \in Routers /\ m.from \in Routers /\ m.from # r
      /\ m.from \in DOMAIN old /\ m.from \in DOMAIN table
  BY Ends DEF DSDVInv, TablesInv, LookupFinds
<1>2. c \in Nat
  <2>1. c \in 0 .. MAX_COST
    BY Ends DEF DSDVInv, TypeOK
  <2> HIDE DEF c
  <2> QED
    BY <2>1, Constants
<1>3. \A d \in DOMAIN table : table[d] \in Entry
  BY DEF DSDVInv, TypeOK, IsTable, Entry
<1>4. /\ DOMAIN mine = DOMAIN old
      /\ \A d \in DOMAIN old : /\ mine[d] \in Entry
                               /\ \/ mine[d].next = old[d].next
                                  \/ d = m.from /\ mine[d].next = m.from
  <2> HIDE DEF c
  <2> QED
    BY <1>2, FollowedDirect
<1>5. t = [d \in DOMAIN mine \cup DOMAIN table |->
            CASE d = r \/ d \notin DOMAIN table -> mine[d]
              [] d # r /\ d \notin DOMAIN mine ->
                   Route(m.from, Reach(d) + table[d].cost, table[d].seq)
              [] OTHER -> Better(mine[d], c, Reach(d), m.from, table[d])]
  BY DEF updateRT
<1> HIDE DEF mine, t, c
<1>6. mine[m.from] \in Entry /\ table[m.from] \in Entry
  BY <1>1, <1>3, <1>4
<1>7. mine[m.from].cost \in Nat
  BY <1>6 DEF Entry
<1>8. there \in Entry
  BY <1>1, <1>2, <1>6, <1>7, BetterEntry
<1> HIDE DEF there
<1>9. \A d : Reach(d) \in Nat
  BY <1>7, <1>8 DEF Entry
<1> HIDE DEF Reach, old, table, r
<1>10. DOMAIN t = DOMAIN old \cup DOMAIN table
  BY <1>4, <1>5
<1>11. ASSUME NEW d \in DOMAIN t
       PROVE  /\ t[d] \in Entry
              /\ \/ d \in DOMAIN old /\ t[d].next = old[d].next
                 \/ t[d].next = m.from /\ d \in DOMAIN table
  <2>1. CASE d = r \/ d \notin DOMAIN table
    <3>1. t[d] = mine[d]
      BY <1>4, <1>5, <1>10, <2>1
    <3>2. d \in DOMAIN old
      <4>1. r \in DOMAIN old
        BY <1>1 DEF DSDVInv, TablesInv, old, r
      <4> QED
        BY <1>10, <2>1, <4>1
    <3>3. d # m.from
      BY <1>1, <2>1
    <3> QED
      BY <1>4, <3>1, <3>2, <3>3
  <2>2. CASE d # r /\ d \in DOMAIN table /\ d \notin DOMAIN mine
    <3>1. t[d] = Route(m.from, Reach(d) + table[d].cost, table[d].seq)
      BY <1>4, <1>5, <1>10, <2>2
    <3>2. table[d] \in Entry /\ Reach(d) \in Nat
      BY <1>3, <1>9, <2>2
    <3> QED
      BY <1>1, <2>2, <3>1, <3>2 DEF Route, Entry
  <2>3. CASE d # r /\ d \in DOMAIN table /\ d \in DOMAIN mine
    <3>1. t[d] = Better(mine[d], c, Reach(d), m.from, table[d])
      BY <1>4, <1>5, <1>10, <2>3
    <3>2. table[d] \in Entry /\ Reach(d) \in Nat /\ mine[d] \in Entry
      BY <1>3, <1>4, <1>9, <2>3
    <3>3. t[d] \in Entry /\ t[d].next \in {mine[d].next, m.from}
      BY <1>1, <1>2, <3>1, <3>2, BetterEntry
    <3> QED
      BY <1>4, <2>3, <3>3
  <2> QED
    BY <2>1, <2>2, <2>3
<1> QED
  BY <1>10, <1>11 DEF t, old, table, r

\* It is a grown table.
LEMMA ReceivedIsGrown ==
    ASSUME DSDVInv, NEW m \in flight
    PROVE  Grown(m.to, updateRT(m.to, m.from, m.table))
<1> DEFINE t == updateRT(m.to, m.from, m.table)
<1>1. /\ DOMAIN t = DOMAIN rTable[m.to] \cup DOMAIN m.table
      /\ \A d \in DOMAIN t :
            /\ t[d] \in Entry
            /\ \/ d \in DOMAIN rTable[m.to] /\ t[d].next = rTable[m.to][d].next
               \/ t[d].next = m.from /\ d \in DOMAIN m.table
  BY Received
<1> HIDE DEF t
<1>2. m.to \in Routers /\ m.from \in Near(m.to)
  BY Ends
<1>3. DOMAIN m.table \subseteq DOMAIN rTable[m.from]
  BY DEF DSDVInv, FlightInv
<1>4. DOMAIN t \subseteq Routers
  BY <1>1, <1>2 DEF DSDVInv, TypeOK, IsTable
<1> QED
  BY <1>1, <1>2, <1>3, <1>4 DEF Grown, t

-----------------------------------------------------------------------------
(* The invariant is inductive.                                             *)

\* Every router begins with the direct routes to its neighbours.
LEMMA InitInv == Init => DSDVInv
<1> SUFFICES ASSUME Init PROVE DSDVInv
  OBVIOUS
<1>1. flight = {} /\ DOMAIN rTable = Routers /\ DOMAIN near = Routers
  BY DEF Init
<1>2. ASSUME NEW r \in Routers, NEW n \in Near(r)
      PROVE  Costs[{r, n}] \in 0 .. MAX_COST /\ Costs[{r, n}] \in Nat
  <2>1. Costs[{r, n}] \in 0 .. MAX_COST - 1
    BY Neighbours, Constants
  <2> HIDE DEF Links
  <2> QED
    BY <2>1, Constants
<1>3. ASSUME NEW r \in Routers
      PROVE  /\ DOMAIN rTable[r] = Near(r) \cup {r} /\ DOMAIN rTable[r] \subseteq Routers
             /\ \A d \in DOMAIN rTable[r] : rTable[r][d] \in Entry /\ rTable[r][d].next = d
  <2>1. rTable[r] = [d \in Near(r) \cup {r} |->
                        Route(d, IF d = r THEN 0 ELSE Costs[{r, d}], 0)]
    BY DEF Init
  <2>2. Near(r) \subseteq Routers
    BY DEF Near
  <2>3. 0 \in 0 .. SeqMod - 1
    BY Constants
  <2>4. ASSUME NEW d \in Near(r) \cup {r}
        PROVE  (IF d = r THEN 0 ELSE Costs[{r, d}]) \in Nat
    BY <1>2
  <2> QED
    BY <2>1, <2>2, <2>3, <2>4 DEF Route, Entry
<1>4. ASSUME NEW r \in Routers PROVE near[r] \in [Near(r) -> 0 .. MAX_COST]
  <2>1. near[r] = [n \in Near(r) |-> Costs[{r, n}]]
    BY DEF Init
  <2> QED
    BY <1>2, <2>1
<1>5. TypeOK
  <2>1. cost \in [Links -> 0 .. MAX_COST]
    <3>1. cost = Costs
      BY DEF Init
    <3>2. \A k \in 0 .. MAX_COST - 1 : k \in 0 .. MAX_COST
      BY Constants
    <3> QED
      BY <3>1, <3>2, Constants
  <2>2. \A r \in Routers : IsTable(rTable[r])
    BY <1>3 DEF IsTable, Entry
  <2>3. update_seq \in [Routers -> 0 .. SEQ_PERIOD - 1]
    BY Constants DEF Init
  <2>4. arriving = FALSE /\ done = {} /\ quiet = 0 /\ changes = 0
    BY Zenon DEF Init
  <2>5. arriving \in BOOLEAN
    BY <2>4, Zenon
  <2>7. done \subseteq Routers /\ quiet \in Nat /\ changes \in Nat
    BY <2>4
  <2>8. {quiet, changes} \subseteq Nat
    BY <2>7
  <2>6. \A m \in flight : {m.from, m.to} \in Links /\ IsTable(m.table)
    BY <1>1
  <2> QED
    BY <1>4, <2>1, <2>2, <2>3, <2>5, <2>6, <2>7, <2>8, Zenon DEF TypeOK
<1>6. TablesInv
  BY <1>3, Neighbours DEF TablesInv
<1> QED
  BY <1>1, <1>5, <1>6 DEF DSDVInv, FlightInv, LookupFinds

\* A round: the tables sent have all destinations of the sender, so those that
\* a neighbour routes through it.
LEMMA StepRound ==
    ASSUME DSDVInv, NEW r \in Routers, Round(r)
    PROVE  DSDVInv'
<1> DEFINE t == IF update_seq[r] = SEQ_PERIOD - 1 THEN Raised(Sent(r), r, 2) ELSE Sent(r)
           new == {[from |-> r, to |-> n, table |-> Sent(r)] : n \in Near(r) \ Broken(r)}
<1>1. /\ rTable' = [rTable EXCEPT ![r] = t]
      /\ flight' = flight \cup new
      /\ near' = [near EXCEPT ![r] = [n \in Near(r) |-> cost[{r, n}]]]
      /\ update_seq' = [update_seq EXCEPT ![r] = NextTurn(@)]
      /\ cost' = cost /\ arriving' = arriving /\ changes' = changes
      /\ done' \in {{}, done \cup {r}} /\ quiet' \in {quiet, quiet + 1}
      /\ \A m \in flight : m.from # r
  BY DEF Round
<1>2. Grown(r, Sent(r)) /\ DOMAIN Sent(r) = DOMAIN rTable[r] /\ r \in DOMAIN Sent(r)
  BY SentIsGrown, SentTable DEF DSDVInv, TablesInv
<1>3. Grown(r, t)
  BY <1>2, RaisedIsGrown
<1>9. Replaced(r, t)
  <2> HIDE DEF t
  <2> QED
    BY <1>1 DEF DSDVInv, Replaced
<1>4. /\ DOMAIN rTable' = Routers /\ DOMAIN near' = Routers
      /\ \A n \in Routers : IsTable(rTable'[n]) /\ DOMAIN rTable[n] \subseteq DOMAIN rTable'[n]
      /\ TablesInv'
  <2> HIDE DEF t
  <2>1. DOMAIN near' = Routers
    BY <1>1 DEF DSDVInv
  <2> QED
    BY <1>3, <1>9, <2>1, GrownTables DEF Replaced
<1>5. ASSUME NEW m \in new
      PROVE  /\ m.from = r /\ m.to \in Near(r) /\ m.table = Sent(r)
             /\ m = [from |-> r, to |-> m.to, table |-> Sent(r)]
  OBVIOUS
<1> HIDE DEF new
<1>6. TypeOK'
  <2>1. ASSUME NEW n \in Routers PROVE near'[n] \in [Near(n) -> 0 .. MAX_COST]
    <3>1. CASE n = r
      <4>1. near'[n] = [x \in Near(r) |-> cost[{r, x}]]
        BY <1>1, <3>1 DEF DSDVInv
      <4>2. ASSUME NEW x \in Near(r) PROVE cost[{r, x}] \in 0 .. MAX_COST
        BY Neighbours DEF DSDVInv, TypeOK
      <4> QED
        BY <3>1, <4>1, <4>2
    <3>2. CASE n # r
      <4>1. near'[n] = near[n]
        BY <1>1, <3>2 DEF DSDVInv
      <4> QED
        BY <4>1 DEF DSDVInv, TypeOK
    <3> QED
      BY <3>1, <3>2
  <2>2. update_seq' \in [Routers -> 0 .. SEQ_PERIOD - 1]
    <3>1. update_seq[r] + 1 \in Nat
      <4>1. update_seq[r] \in 0 .. SEQ_PERIOD - 1
        BY DEF DSDVInv, TypeOK
      <4> QED
        BY <4>1
    <3>2. NextTurn(update_seq[r]) \in 0 .. SEQ_PERIOD - 1
      BY <3>1, Constants, Residue DEF NextTurn
    <3> QED
      BY <1>1, <3>2 DEF DSDVInv, TypeOK
  <2>3. ASSUME NEW m \in flight' PROVE {m.from, m.to} \in Links /\ IsTable(m.table)
    <3>1. CASE m \in flight
      BY <3>1 DEF DSDVInv, TypeOK
    <3>2. CASE m \in new
      <4>1. IsTable(Sent(r))
        BY <1>2 DEF Grown, IsTable, Entry
      <4>2. {r, m.to} \in Links
        BY <1>5, <3>2, Neighbours
      <4> QED
        BY <1>5, <3>2, <4>1, <4>2
    <3> QED
      BY <1>1, <3>1, <3>2
  <2>4. /\ cost' \in [Links -> 0 .. MAX_COST] /\ arriving' \in BOOLEAN
        /\ done' \subseteq Routers /\ {quiet', changes'} \subseteq Nat
    BY <1>1 DEF DSDVInv, TypeOK
  <2> QED
    BY <1>4, <2>1, <2>2, <2>3, <2>4 DEF TypeOK, Near, Links
<1>7. FlightInv'
  <2>1. ASSUME NEW m \in flight' PROVE DOMAIN m.table \subseteq DOMAIN rTable'[m.from]
    <3>1. CASE m \in flight
      <4>1. m.from \in Routers /\ DOMAIN m.table \subseteq DOMAIN rTable[m.from]
        BY <3>1, Ends DEF DSDVInv, FlightInv
      <4> QED
        BY <1>4, <4>1
    <3>2. CASE m \in new
      BY <1>2, <1>4, <1>5, <3>2
    <3> QED
      BY <1>1, <3>1, <3>2
  <2>2. ASSUME NEW m \in flight', NEW x \in flight', m.from = x.from, m.to = x.to
        PROVE  m = x
    <3>1. CASE m \in flight /\ x \in flight
      BY <2>2, <3>1 DEF DSDVInv, FlightInv
    <3>2. CASE m \in new /\ x \in new
      BY <1>5, <2>2, <3>2
    <3> QED
      BY <1>1, <1>5, <2>2, <3>1, <3>2
  <2> QED
    BY <2>1, <2>2 DEF FlightInv
<1>8. LookupFinds'
  <2>1. ASSUME NEW m \in flight'
        PROVE  /\ m.from \in DOMAIN m.table
               /\ \A d \in DOMAIN rTable'[m.to] :
                     rTable'[m.to][d].next = m.from => d \in DOMAIN m.table
    <3>1. CASE m \in flight
      <4>1. m.from \in DOMAIN m.table /\ m.to \in Routers
            /\ \A d \in DOMAIN rTable[m.to] :
                  rTable[m.to][d].next = m.from => d \in DOMAIN m.table
        BY <3>1, Ends DEF DSDVInv, LookupFinds
      <4>2. CASE m.to # r
        <5>1. rTable'[m.to] = rTable[m.to]
          BY <1>1, <4>1, <4>2 DEF DSDVInv
        <5> QED
          BY <4>1, <5>1
      <4>3. CASE m.to = r
        <5>1. rTable'[m.to] = t
          BY <1>1, <4>3 DEF DSDVInv
        <5>2. ASSUME NEW d \in DOMAIN t, t[d].next = m.from PROVE d \in DOMAIN m.table
          <6>1. d \in DOMAIN rTable[r] /\ t[d].next = Sent(r)[d].next
            BY <1>2, RaisedTable DEF Grown
          <6>2. Sent(r)[d].next = rTable[r][d].next \/ d = m.from
            BY <5>2, <6>1, SentTable
          <6> QED
            BY <4>1, <4>3, <5>2, <6>1, <6>2
        <5> HIDE DEF t
        <5> QED
          BY <4>1, <5>1, <5>2
      <4> QED
        BY <4>2, <4>3
    <3>2. CASE m \in new
      <4>1. m.from = r /\ m.table = Sent(r) /\ m.to \in Routers /\ m.to # r
        BY <1>5, <3>2, Neighbours
      <4>2. rTable'[m.to] = rTable[m.to]
        BY <1>1, <4>1 DEF DSDVInv
      <4>3. \A d \in DOMAIN rTable[m.to] : rTable[m.to][d].next = r => d \in DOMAIN rTable[r]
        BY <4>1 DEF DSDVInv, TablesInv
      <4> QED
        BY <1>2, <4>1, <4>2, <4>3
    <3> QED
      BY <1>1, <3>1, <3>2
  <2> QED
    BY <2>1 DEF LookupFinds
<1> QED
  BY <1>4, <1>6, <1>7, <1>8 DEF DSDVInv

\* A reception: what is routed through another sender, with a table of his in
\* flight, has been so before.
LEMMA StepReceive ==
    ASSUME DSDVInv, NEW m \in flight, Receive(m)
    PROVE  DSDVInv'
<1> DEFINE t == IF near[m.to][m.from] >= MAX_COST THEN rTable[m.to]
                ELSE updateRT(m.to, m.from, m.table)
<1>1. m.to \in Routers /\ m.from \in Routers /\ m.from # m.to /\ m.from \in Near(m.to)
  BY Ends
<1>2. /\ flight' = flight \ {m}
      /\ arriving' \in BOOLEAN /\ cost' = cost /\ near' = near /\ update_seq' = update_seq
      /\ done' = done /\ quiet' = quiet /\ changes' = changes
  BY DEF Receive, clock
<1>8. Replaced(m.to, t)
  <2>1. CASE near[m.to][m.from] >= MAX_COST
    <3>1. rTable' = rTable /\ t = rTable[m.to]
      BY <2>1 DEF Receive
    <3> QED
      BY <1>1, <3>1 DEF DSDVInv, Replaced
  <2>2. CASE ~(near[m.to][m.from] >= MAX_COST)
    <3>1. rTable' = [rTable EXCEPT ![m.to] = t]
      BY <2>2 DEF Receive
    <3> HIDE DEF t
    <3> QED
      BY <1>1, <3>1 DEF DSDVInv, Replaced
  <2> QED
    BY <2>1, <2>2
<1>3. /\ Grown(m.to, t)
      /\ \A d \in DOMAIN t :
            \/ d \in DOMAIN rTable[m.to] /\ t[d].next = rTable[m.to][d].next
            \/ t[d].next = m.from
  <2>1. CASE near[m.to][m.from] >= MAX_COST
    <3>1. t = rTable[m.to]
      BY <2>1
    <3> HIDE DEF t
    <3> QED
      BY <1>1, <3>1 DEF Grown, DSDVInv, TypeOK, IsTable, Entry
  <2>2. CASE ~(near[m.to][m.from] >= MAX_COST)
    <3>1. t = updateRT(m.to, m.from, m.table)
      BY <2>2
    <3> HIDE DEF t
    <3> QED
      BY <3>1, Received, ReceivedIsGrown
  <2> QED
    BY <2>1, <2>2
<1> HIDE DEF t
<1>4. /\ DOMAIN rTable' = Routers
      /\ \A n \in Routers : IsTable(rTable'[n])
      /\ \A n \in Routers : DOMAIN rTable[n] \subseteq DOMAIN rTable'[n]
      /\ TablesInv'
  BY <1>1, <1>3, <1>8, GrownTables DEF Replaced
<1>5. TypeOK'
  <2>1. \A x \in flight' : {x.from, x.to} \in Links /\ IsTable(x.table)
    BY <1>2 DEF DSDVInv, TypeOK
  <2> QED
    BY <1>2, <1>4, <2>1 DEF DSDVInv, TypeOK, Near, Links
<1>6. FlightInv'
  <2>1. ASSUME NEW x \in flight' PROVE DOMAIN x.table \subseteq DOMAIN rTable'[x.from]
    <3>1. x.from \in Routers /\ DOMAIN x.table \subseteq DOMAIN rTable[x.from]
      BY <1>2, Ends DEF DSDVInv, FlightInv
    <3> QED
      BY <1>4, <3>1
  <2>2. \A x, y \in flight' : x.from = y.from /\ x.to = y.to => x = y
    BY <1>2 DEF DSDVInv, FlightInv
  <2> QED
    BY <2>1, <2>2 DEF FlightInv
<1>7. LookupFinds'
  <2>1. ASSUME NEW x \in flight'
        PROVE  /\ x.from \in DOMAIN x.table
               /\ \A d \in DOMAIN rTable'[x.to] :
                     rTable'[x.to][d].next = x.from => d \in DOMAIN x.table
    <3>1. /\ x \in flight /\ x # m /\ x.to \in Routers /\ x.from \in DOMAIN x.table
          /\ \A d \in DOMAIN rTable[x.to] :
                rTable[x.to][d].next = x.from => d \in DOMAIN x.table
      BY <1>2, Ends DEF DSDVInv, LookupFinds
    <3>2. CASE x.to # m.to
      <4>1. rTable'[x.to] = rTable[x.to]
        BY <1>8, <3>1, <3>2 DEF Replaced
      <4> QED
        BY <3>1, <4>1
    <3>3. CASE x.to = m.to
      <4>1. rTable'[x.to] = t
        BY <1>8, <3>3 DEF Replaced
      <4>2. x.from # m.from
        BY <3>1, <3>3 DEF DSDVInv, FlightInv
      <4> QED
        BY <1>3, <3>1, <3>3, <4>1, <4>2
    <3> QED
      BY <3>2, <3>3
  <2> QED
    BY <2>1 DEF LookupFinds
<1> QED
  BY <1>2, <1>4, <1>5, <1>6, <1>7 DEF DSDVInv

\* A change of a link touches no table.
LEMMA StepChange ==
    ASSUME DSDVInv, NEW e \in Edits, Change(e[1], e[2])
    PROVE  DSDVInv'
<1>1. /\ cost' = [cost EXCEPT ![e[1]] = e[2]] /\ quiet' = 0 /\ changes' = changes + 1
      /\ rTable' = rTable /\ near' = near /\ update_seq' = update_seq /\ flight' = flight
      /\ arriving' = arriving /\ done' = done
  BY DEF Change
<1>2. cost' \in [Links -> 0 .. MAX_COST]
  <2>1. e[1] \in Links /\ e[2] \in 0 .. MAX_COST
    BY Constants
  <2> QED
    BY <1>1, <2>1 DEF DSDVInv, TypeOK
<1>3. TypeOK'
  <2>1. /\ arriving' \in BOOLEAN /\ done' \subseteq Routers /\ {quiet', changes'} \subseteq Nat
        /\ update_seq' \in [Routers -> 0 .. SEQ_PERIOD - 1]
    BY <1>1 DEF DSDVInv, TypeOK
  <2>2. \A r \in Routers : IsTable(rTable'[r]) /\ near'[r] \in [Near(r) -> 0 .. MAX_COST]
    BY <1>1 DEF DSDVInv, TypeOK
  <2>3. \A m \in flight' : {m.from, m.to} \in Links /\ IsTable(m.table)
    BY <1>1 DEF DSDVInv, TypeOK
  <2> QED
    BY <1>2, <2>1, <2>2, <2>3 DEF TypeOK, Near, Links
<1>4. TablesInv' /\ FlightInv' /\ LookupFinds'
  BY <1>1 DEF DSDVInv, TablesInv, FlightInv, LookupFinds, Near, Links
<1> QED
  BY <1>1, <1>3, <1>4 DEF DSDVInv

\* Every step keeps the invariant: one lemma for each action.
LEMMA StepInv == DSDVInv /\ [Next]_vars => DSDVInv'
<1> SUFFICES ASSUME DSDVInv, [Next]_vars PROVE DSDVInv'
  OBVIOUS
<1>1. ASSUME NEW r \in Routers, Round(r) PROVE DSDVInv'
  BY <1>1, StepRound
<1>2. ASSUME NEW m \in flight, Receive(m) PROVE DSDVInv'
  BY <1>2, StepReceive
<1>3. ASSUME NEW e \in Edits, Change(e[1], e[2]) PROVE DSDVInv'
  BY <1>3, StepChange
<1>4. ASSUME UNCHANGED vars PROVE DSDVInv'
  <2>1. /\ cost' = cost /\ rTable' = rTable /\ near' = near /\ update_seq' = update_seq
        /\ flight' = flight /\ arriving' = arriving /\ done' = done /\ quiet' = quiet
        /\ changes' = changes
    BY <1>4 DEF vars, clock
  <2> QED
    BY <2>1 DEF DSDVInv, TypeOK, IsTable, TablesInv, FlightInv, LookupFinds, Near, Links
<1> QED
  BY <1>1, <1>2, <1>3, <1>4 DEF Next

\* The invariant holds of every run of every network.
LEMMA SystemInv == Spec => []DSDVInv
  BY InitInv, StepInv, PTL DEF Spec

-----------------------------------------------------------------------------
(* What it establishes.                                                    *)

\* Tables, configuration and messages have their types: next hops and
\* destinations are routers, numbers fit an unsigned short.
THEOREM TypeCorrect == Spec => []TypeOK
<1>1. DSDVInv => TypeOK
  BY DEF DSDVInv
<1> QED
  BY <1>1, SystemInv, PTL

\* updateRT never dereferences the end of the received table: it has an entry
\* of its sender, and of all that its receiver routes through the sender
\* (dsdv_table.cc:185,194).
THEOREM FindsWhatItLooksUp == Spec => []LookupFinds
<1>1. DSDVInv => LookupFinds
  BY DEF DSDVInv
<1> QED
  BY <1>1, SystemInv, PTL
=============================================================================
