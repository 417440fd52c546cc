----------------------- MODULE ForwardingTables_proofs -----------------------
(***************************************************************************)
(* The routing tables stay free of dead ends and of forwarding loops,      *)
(* whatever uplinks, paths and iteration order an update uses and however  *)
(* old the entries are that it leaves in place.                            *)
(***************************************************************************)
EXTENDS ForwardingTables, FiniteSetTheorems, WellFoundedInduction, TLAPS

(* A bounded non-empty set of naturals has a largest element. *)
LEMMA LargestNatural ==
  ASSUME NEW n \in Nat, NEW S \in SUBSET (0 .. n), S # {}
  PROVE  \E m \in S : \A k \in S : k <= m
<1> DEFINE T == {n - k : k \in S}
           R == OpToRel(<, Nat)
<1>0. \A k \in S : k \in Nat /\ k <= n /\ n - k \in Nat
  OBVIOUS
<1>1. T \subseteq Nat /\ T # {}
  BY <1>0
<1>2. IsWellFoundedOn(R, Nat)
  BY NatLessThanWellFounded
<1>3. \E x \in T : \A y \in T : ~ (<<y, x>> \in R)
  <2> HIDE DEF T, R
  <2> QED BY <1>1, <1>2, WFMin
<1>4. PICK x \in T : \A y \in T : ~ (<<y, x>> \in R)
  BY <1>3
<1>5. \A y \in T : ~ (y < x)
  BY <1>1, <1>4 DEF OpToRel
<1>6. PICK m \in S : x = n - m
  OBVIOUS
<1>7. \A k \in S : ~ (n - k < n - m)
  BY <1>5, <1>6
<1>8. \A k \in S : k <= m
  BY <1>0, <1>7
<1> QED BY <1>8

-----------------------------------------------------------------------------
Entries == Link \cup {NoLink}

(* Elementary facts about the stations and links. *)
LEMMA StationFacts ==
  /\ Ground \subseteq Nat \ {0} /\ Sat \subseteq Nat \ {0}
  /\ \A g \in Ground, s \in Sat : g < s /\ g # s
  /\ NoLink \notin Link
BY NetworkAssumption DEF Ground, Sat, Station, Link, NoLink

LEMMA UplinkFacts ==
  ASSUME NEW d \in Ground, NEW new \in Sat, NEW s \in Sat
  PROVE  /\ <<d, new>> \in Link
         /\ OtherStation(<<d, new>>, s) = d
BY StationFacts DEF Station, Link, OtherStation

LEMMA LinkOfFacts ==
  ASSUME NEW x \in Sat, NEW y \in Sat, x # y
  PROVE  /\ LinkOf(x, y) \in Link
         /\ OtherStation(LinkOf(x, y), x) = y
BY StationFacts DEF Station, Link, OtherStation, LinkOf

LEMMA WalkFacts ==
  ASSUME NEW w \in Walk
  PROVE  /\ Len(w) \in Nat \ {0}
         /\ \A i \in 1 .. Len(w) : w[i] \in Sat
         /\ \A i, j \in 1 .. Len(w) : w[i] = w[j] => i = j
<1>1. PICK n \in 1 .. NumSat : w \in [1 .. n -> Sat]
  BY DEF Walk
<1>2. n \in Nat \ {0} /\ w \in Seq(Sat) /\ Len(w) = n /\ DOMAIN w = 1 .. n
  BY <1>1, NetworkAssumption
<1>3. \A i, j \in DOMAIN w : w[i] = w[j] => i = j
  BY DEF Walk
<1> QED BY <1>1, <1>2, <1>3

LEMMA NextOnFacts ==
  ASSUME NEW w \in Walk, NEW i \in 1 .. Len(w) - 1
  PROVE  /\ ForwardsOn(w, w[i])
         /\ NextOn(w, w[i]) = w[i + 1]
<1>1. \A j, k \in 1 .. Len(w) - 1 : w[j] = w[k] => j = k
  BY WalkFacts
<1>2. (CHOOSE j \in 1 .. Len(w) - 1 : w[j] = w[i]) = i
  BY <1>1
<1>3. 1 + i = i + 1
  BY WalkFacts
<1> QED BY <1>2, <1>3 DEF ForwardsOn, NextOn

-----------------------------------------------------------------------------
(* The uplink of d moves: the tables stay typed, without dead ends, without *)
(* loops, and the new satellite hands packets for d to d.                   *)
LEMMA SetSatLinkKeeps ==
  ASSUME NEW col \in [Sat -> Entries], NEW d \in Ground,
         NEW old, NEW new \in Sat, NoDeadEnd(col, d), NoCycle(col)
  PROVE  LET c == SetSatLink(col, d, old, new)
         IN /\ c \in [Sat -> Entries]
            /\ NoDeadEnd(c, d)
            /\ NoCycle(c)
            /\ c[new] # NoLink /\ NextHop(c, new) = d
<1> DEFINE c == SetSatLink(col, d, old, new)
<1>1. \A s \in Sat : c[s] = IF s = new \/ s = old THEN <<d, new>> ELSE col[s]
  BY DEF SetSatLink
<1>2. c \in [Sat -> Entries]
  BY UplinkFacts DEF SetSatLink, Entries
<1>3. <<d, new>> # NoLink
  BY UplinkFacts, StationFacts
<1>4. \A s \in Sat : s = new \/ s = old => c[s] # NoLink /\ NextHop(c, s) = d
  BY <1>1, <1>3, UplinkFacts DEF NextHop
<1>5. \A s \in Sat : ~(s = new \/ s = old) => c[s] = col[s] /\ NextHop(c, s) = NextHop(col, s)
  BY <1>1 DEF NextHop
<1>6. \A s \in Sat : col[s] # NoLink => c[s] # NoLink
  BY <1>1, <1>3
<1> HIDE DEF c
<1>7. NoDeadEnd(c, d)
  BY <1>4, <1>5, <1>6 DEF NoDeadEnd
<1>8. NoCycle(c)
  <2> SUFFICES ASSUME NEW C \in SUBSET Sat, C # {}
               PROVE  \E s \in C : c[s] = NoLink \/ NextHop(c, s) \notin C
    BY DEF NoCycle
  <2>1. CASE \E s \in C : s = new \/ s = old
    BY <2>1, <1>4, StationFacts
  <2>2. CASE ~ \E s \in C : s = new \/ s = old
    <3>1. PICK s \in C : col[s] = NoLink \/ NextHop(col, s) \notin C
      BY DEF NoCycle
    <3> QED BY <3>1, <2>2, <1>5
  <2> QED BY <2>1, <2>2
<1> QED BY <1>2, <1>4, <1>7, <1>8 DEF c

-----------------------------------------------------------------------------
(* The loop that writes the paths into the tables, for paths that all end   *)
(* at satellite "end", which hands packets for d to d.                      *)
PathsInto(walk, end) ==
  /\ walk \in [DOMAIN walk -> Walk]
  /\ \A g \in DOMAIN walk : walk[g][Len(walk[g])] = end

IsOrder(order, D) ==
  /\ \E n \in Nat : order \in [D -> 1 .. n]
  /\ \A g, h \in D : order[g] = order[h] => g = h

(* The satellite "end" is written by no path. *)
LEMMA EndUnwritten ==
  ASSUME NEW walk, NEW end, PathsInto(walk, end)
  PROVE  Writers(walk, end) = {}
<1> SUFFICES ASSUME NEW g \in DOMAIN walk, ForwardsOn(walk[g], end)
             PROVE  FALSE
  BY DEF Writers
<1>1. walk[g] \in Walk /\ walk[g][Len(walk[g])] = end
  BY DEF PathsInto
<1>2. PICK i \in 1 .. Len(walk[g]) - 1 : walk[g][i] = end
  BY DEF ForwardsOn
<1>3. Len(walk[g]) \in Nat \ {0}
  BY <1>1, WalkFacts
<1>4. i \in 1 .. Len(walk[g]) /\ Len(walk[g]) \in 1 .. Len(walk[g]) /\ i # Len(walk[g])
  BY <1>2, <1>3
<1> QED BY <1>1, <1>2, <1>4, WalkFacts

(* The last sender through s exists and is the only one that comes last. *)
LEMMA LastWriterFacts ==
  ASSUME NEW walk, NEW order, IsOrder(order, DOMAIN walk),
         NEW s, Writers(walk, s) # {}
  PROVE  /\ LastWriter(walk, order, s) \in Writers(walk, s)
         /\ \A h \in Writers(walk, s) : order[h] <= order[LastWriter(walk, order, s)]
<1> DEFINE W == Writers(walk, s)
           K == {order[g] : g \in W}
<1>1. PICK n \in Nat : order \in [DOMAIN walk -> 1 .. n]
  BY DEF IsOrder
<1>2. W \subseteq DOMAIN walk
  BY DEF Writers
<1>3. K \in SUBSET (0 .. n) /\ K # {}
  BY <1>1, <1>2
<1>4. PICK m \in K : \A k \in K : k <= m
  BY <1>3, LargestNatural
<1>5. \E g \in W : \A h \in W : order[h] <= order[g]
  BY <1>4
<1> QED BY <1>5 DEF LastWriter

(* What the loop leaves behind, satellite by satellite: a written entry     *)
(* leads along the path of the last sender through the satellite.           *)
LEMMA PopulateFacts ==
  ASSUME NEW col \in [Sat -> Entries], NEW walk, NEW order, NEW end,
         PathsInto(walk, end), IsOrder(order, DOMAIN walk), NEW s \in Sat
  PROVE  LET c == PopulateRoutes(col, walk, order)
             g == LastWriter(walk, order, s)
         IN /\ Writers(walk, s) = {} => c[s] = col[s]
            /\ Writers(walk, s) # {} =>
                 \E i \in 1 .. Len(walk[g]) - 1 :
                    /\ g \in DOMAIN walk /\ walk[g] \in Walk
                    /\ walk[g][i] = s
                    /\ c[s] \in Link
                    /\ NextHop(c, s) = walk[g][i + 1]
<1> DEFINE c == PopulateRoutes(col, walk, order)
           g == LastWriter(walk, order, s)
<1>1. Writers(walk, s) = {} => c[s] = col[s]
  BY DEF PopulateRoutes
<1>2. ASSUME Writers(walk, s) # {}
      PROVE  \E i \in 1 .. Len(walk[g]) - 1 :
                /\ g \in DOMAIN walk /\ walk[g] \in Walk
                /\ walk[g][i] = s
                /\ c[s] \in Link
                /\ NextHop(c, s) = walk[g][i + 1]
  <2>1. g \in DOMAIN walk /\ ForwardsOn(walk[g], s)
    BY <1>2, LastWriterFacts DEF Writers
  <2>2. walk[g] \in Walk
    BY <2>1 DEF PathsInto
  <2>3. c[s] = LinkOf(s, NextOn(walk[g], s))
    BY <1>2 DEF PopulateRoutes
  <2> HIDE DEF c, g
  <2>4. PICK i \in 1 .. Len(walk[g]) - 1 : walk[g][i] = s
    BY <2>1 DEF ForwardsOn
  <2>5. NextOn(walk[g], s) = walk[g][i + 1]
    BY <2>2, <2>4, NextOnFacts
  <2>6. i \in 1 .. Len(walk[g]) /\ i + 1 \in 1 .. Len(walk[g]) /\ i # i + 1
    BY <2>2, <2>4, WalkFacts
  <2>7. walk[g][i + 1] \in Sat /\ walk[g][i + 1] # s
    BY <2>2, <2>4, <2>6, WalkFacts
  <2>8. c[s] \in Link /\ OtherStation(c[s], s) = walk[g][i + 1]
    BY <2>3, <2>5, <2>7, LinkOfFacts
  <2> QED BY <2>1, <2>2, <2>4, <2>8 DEF NextHop
<1> HIDE DEF c, g
<1> QED BY <1>1, <1>2 DEF c, g

(* The loop over the senders brings in neither a dead end nor a cycle.      *)
(* Dead ends: a written satellite leads to the next one of the path, which  *)
(* is written as well or is "end"; an entry left in place leads where it    *)
(* did.  Cycles: a set of satellites that forward among themselves holds no *)
(* written one, since from the last sender in it a packet follows that      *)
(* sender's path until it leaves the set; and the entries left in place had *)
(* no cycle before.                                                         *)
LEMMA PopulateKeeps ==
  ASSUME NEW col \in [Sat -> Entries], NEW d \in Ground,
         NoDeadEnd(col, d), NoCycle(col),
         NEW end \in Sat, col[end] # NoLink, NextHop(col, end) = d,
         NEW walk, PathsInto(walk, end),
         NEW order, IsOrder(order, DOMAIN walk)
  PROVE  LET c == PopulateRoutes(col, walk, order)
         IN c \in [Sat -> Entries] /\ NoDeadEnd(c, d) /\ NoCycle(c)
<1> DEFINE c == PopulateRoutes(col, walk, order)
           Last(s) == LastWriter(walk, order, s)
           Stale(s) == Writers(walk, s) = {}
<1>0. \A s \in Sat : s # d
  BY StationFacts
<1>1. \A s \in Sat : Stale(s) => c[s] = col[s] /\ NextHop(c, s) = NextHop(col, s)
  BY PopulateFacts DEF NextHop
<1>2. \A s \in Sat : ~ Stale(s) =>
         \E i \in 1 .. Len(walk[Last(s)]) - 1 :
            /\ Last(s) \in DOMAIN walk /\ walk[Last(s)] \in Walk
            /\ walk[Last(s)][i] = s
            /\ c[s] \in Link
            /\ NextHop(c, s) = walk[Last(s)][i + 1]
  BY PopulateFacts
<1>3. Stale(end)
  BY EndUnwritten
<1>4. c \in [Sat -> Entries]
  <2>1. DOMAIN c = Sat /\ c = [s \in Sat |-> c[s]]
    BY DEF PopulateRoutes
  <2> HIDE DEF c, Last, Stale
  <2>2. \A s \in Sat : c[s] \in Entries
    BY <1>1, <1>2 DEF Entries
  <2> QED BY <2>1, <2>2
<1>5. \A g \in DOMAIN walk : \A i \in 1 .. Len(walk[g]) - 1 :
         walk[g] \in Walk => /\ walk[g][i] \in Sat
                             /\ ~ Stale(walk[g][i])
                             /\ g \in Writers(walk, walk[g][i])
  <2> SUFFICES ASSUME NEW g \in DOMAIN walk, NEW i \in 1 .. Len(walk[g]) - 1,
                      walk[g] \in Walk
               PROVE  walk[g][i] \in Sat /\ g \in Writers(walk, walk[g][i])
    OBVIOUS
  <2>1. i \in 1 .. Len(walk[g])
    BY WalkFacts
  <2> QED BY <2>1, WalkFacts, NextOnFacts DEF Writers
<1>6. \A s \in Sat : col[s] # NoLink => c[s] # NoLink
  <2> HIDE DEF c, Last, Stale
  <2> QED BY <1>1, <1>2, StationFacts
<1>7. \A g \in DOMAIN walk : walk[g] \in Walk =>
         Len(walk[g]) \in Nat \ {0} /\ walk[g][Len(walk[g])] = end
  BY WalkFacts DEF PathsInto
<1>8. NoDeadEnd(c, d)
  <2> HIDE DEF c, Stale
  <2> SUFFICES ASSUME NEW s \in Sat, c[s] # NoLink
               PROVE  \/ NextHop(c, s) = d
                      \/ NextHop(c, s) \in Sat /\ c[NextHop(c, s)] # NoLink
    BY DEF NoDeadEnd
  <2>1. CASE Stale(s)
    BY <2>1, <1>1, <1>6 DEF NoDeadEnd
  <2>2. CASE ~ Stale(s)
    <3> DEFINE g == Last(s)
    <3> HIDE DEF Last
    <3>1. PICK i \in 1 .. Len(walk[g]) - 1 :
             /\ g \in DOMAIN walk /\ walk[g] \in Walk
             /\ NextHop(c, s) = walk[g][i + 1]
      BY <2>2, <1>2
    <3>2. CASE i + 1 = Len(walk[g])
      BY <3>1, <3>2, <1>3, <1>6, <1>7
    <3>3. CASE i + 1 # Len(walk[g])
      <4>1. i + 1 \in 1 .. Len(walk[g]) - 1
        BY <3>1, <3>3, <1>7
      <4>2. walk[g][i + 1] \in Sat /\ ~ Stale(walk[g][i + 1])
        BY <3>1, <4>1, <1>5
      <4>3. c[walk[g][i + 1]] \in Link
        BY <4>2, <1>2
      <4> QED BY <3>1, <4>2, <4>3, StationFacts
    <3> QED BY <3>2, <3>3
  <2> QED BY <2>1, <2>2
<1>9. NoCycle(c)
  <2> SUFFICES ASSUME NEW C \in SUBSET Sat, C # {}
               PROVE  \E s \in C : c[s] = NoLink \/ NextHop(c, s) \notin C
    BY DEF NoCycle
  <2>1. CASE \A s \in C : Stale(s)
    <3> HIDE DEF c, Stale
    <3>1. PICK s \in C : col[s] = NoLink \/ NextHop(col, s) \notin C
      BY DEF NoCycle
    <3> QED BY <3>1, <2>1, <1>1
  <2>2. CASE end \in C
    <3> HIDE DEF c, Stale
    <3> QED BY <2>2, <1>0, <1>1, <1>3
  <2>3. CASE end \notin C /\ \E s \in C : ~ Stale(s)
    <3> DEFINE F == {s \in C : ~ Stale(s)}
               K == {order[Last(s)] : s \in F}
    <3>1. PICK n \in Nat : order \in [DOMAIN walk -> 1 .. n]
      BY DEF IsOrder
    <3>2. \A s \in F : Last(s) \in DOMAIN walk
      BY <1>2
    <3>3. K \in SUBSET (0 .. n) /\ K # {}
      <4> HIDE DEF Last, Stale
      <4> QED BY <2>3, <3>1, <3>2
    <3>4. PICK top \in F : \A s \in F : order[Last(s)] <= order[Last(top)]
      <4> HIDE DEF Last, Stale, F
      <4>1. PICK m \in K : \A k \in K : k <= m
        BY <3>3, LargestNatural
      <4> QED BY <4>1
    <3> DEFINE g == Last(top)
               I == {i \in 1 .. Len(walk[g]) - 1 : walk[g][i] \in C}
    <3>5. /\ g \in DOMAIN walk /\ walk[g] \in Walk
          /\ \E i \in 1 .. Len(walk[g]) - 1 : walk[g][i] = top
      <4> HIDE DEF c, Last, Stale
      <4> QED BY <1>2
    <3>6. Len(walk[g]) \in Nat \ {0} /\ walk[g][Len(walk[g])] = end
      BY <3>5, <1>7
    <3>7. I \in SUBSET (0 .. Len(walk[g])) /\ I # {}
      <4> HIDE DEF c, Last, Stale
      <4> QED BY <3>5, <3>6
    <3>8. PICK i \in I : \A k \in I : k <= i
      <4> HIDE DEF I, g
      <4> QED BY <3>6, <3>7, LargestNatural
    <3> DEFINE s == walk[g][i]
    <3>9. i \in 1 .. Len(walk[g]) - 1 /\ s \in C
      BY <3>8
    <3>10. s \in F /\ g \in Writers(walk, s)
      BY <1>5, <3>5, <3>9
    <3>11. order[g] <= order[Last(s)] /\ order[Last(s)] <= order[g]
      <4>1. order[g] <= order[Last(s)]
        BY <3>10, LastWriterFacts
      <4> HIDE DEF s, F
      <4> QED BY <4>1, <3>4, <3>10
    <3>12. Last(s) = g
      <4>1. Last(s) \in DOMAIN walk
        BY <3>2, <3>10
      <4>2. order[g] \in Nat /\ order[Last(s)] \in Nat
        <5> HIDE DEF s, g, Last
        <5> QED BY <3>1, <3>5, <4>1
      <4>3. order[g] = order[Last(s)]
        <5> HIDE DEF s, g, Last
        <5> QED BY <4>2, <3>11
      <4> HIDE DEF s, g, Last
      <4> QED BY <4>1, <4>3, <3>5 DEF IsOrder
    <3>13. NextHop(c, s) = walk[g][i + 1]
      <4> HIDE DEF c
      <4>1. PICK j \in 1 .. Len(walk[g]) - 1 :
               walk[g][j] = s /\ NextHop(c, s) = walk[g][j + 1]
        <5>1. s \in Sat /\ ~ Stale(s)
          BY <3>10
        <5> HIDE DEF s, g, Last, Stale
        <5> QED BY <1>2, <3>12, <5>1
      <4>2. i \in 1 .. Len(walk[g]) /\ j \in 1 .. Len(walk[g])
        BY <3>6, <3>9
      <4>3. j = i
        BY <4>1, <4>2, <3>5, WalkFacts
      <4> QED BY <4>1, <4>3
    <3>14. walk[g][i + 1] \notin C
      <4> HIDE DEF g
      <4>1. CASE i + 1 = Len(walk[g])
        BY <4>1, <2>3, <3>6
      <4>2. CASE i + 1 # Len(walk[g])
        <5>1. i + 1 \in 1 .. Len(walk[g]) - 1 /\ ~ (i + 1 <= i)
          BY <4>2, <3>6, <3>9
        <5> QED BY <5>1, <3>8
      <4> QED BY <4>1, <4>2
    <3> QED BY <3>9, <3>13, <3>14
  <2> QED BY <2>1, <2>2, <2>3
<1> QED BY <1>4, <1>8, <1>9

-----------------------------------------------------------------------------
LEMMA OrderFacts ==
  ASSUME NEW d \in Ground, NEW order \in IterationOrders(d)
  PROVE  IsOrder(order, Sources(d))
<1>1. IsFiniteSet(Ground)
  BY FS_Interval, NetworkAssumption DEF Ground
<1>2. Cardinality(Sources(d)) \in Nat
  BY <1>1, FS_Subset, FS_CardinalityType DEF Sources
<1> QED BY <1>2 DEF IsOrder, IterationOrders

(* One call of updateSattelitePositions keeps the column of d typed and     *)
(* free of dead ends and cycles.                                            *)
LEMMA RerouteKeeps ==
  ASSUME NEW col \in [Sat -> Entries], NEW d \in Ground,
         NoDeadEnd(col, d), NoCycle(col),
         NEW old, NEW new \in Sat,
         NEW walk \in [Sources(d) -> Walk],
         \A g \in Sources(d) : walk[g] \in WalkTo(new),
         NEW order \in IterationOrders(d)
  PROVE  LET c == Reroute(col, d, old, new, walk, order)
         IN c \in [Sat -> Entries] /\ NoDeadEnd(c, d) /\ NoCycle(c)
<1> DEFINE c1 == SetSatLink(col, d, old, new)
<1>1. /\ c1 \in [Sat -> Entries]
      /\ NoDeadEnd(c1, d)
      /\ NoCycle(c1)
      /\ c1[new] # NoLink /\ NextHop(c1, new) = d
  BY SetSatLinkKeeps
<1>2. DOMAIN walk = Sources(d) /\ PathsInto(walk, new)
  BY DEF PathsInto, WalkTo
<1>3. IsOrder(order, DOMAIN walk)
  BY <1>2, OrderFacts
<1> HIDE DEF c1
<1>4. LET c == PopulateRoutes(c1, walk, order)
      IN c \in [Sat -> Entries] /\ NoDeadEnd(c, d) /\ NoCycle(c)
  BY <1>1, <1>2, <1>3, PopulateKeeps
<1> QED BY <1>4 DEF c1, Reroute

(* An update removes no entry, and gives one to every satellite that a path *)
(* of the update begins at.                                                 *)
LEMMA RerouteFills ==
  ASSUME NEW col \in [Sat -> Entries], NEW d \in Ground,
         NoDeadEnd(col, d), NoCycle(col),
         NEW old, NEW new \in Sat,
         NEW walk \in [Sources(d) -> Walk],
         \A g \in Sources(d) : walk[g] \in WalkTo(new),
         NEW order \in IterationOrders(d)
  PROVE  LET c == Reroute(col, d, old, new, walk, order)
         IN /\ \A s \in Sat : col[s] # NoLink => c[s] # NoLink
            /\ \A g \in Sources(d) : walk[g][1] \in Sat /\ c[walk[g][1]] # NoLink
<1> DEFINE c1 == SetSatLink(col, d, old, new)
           c == Reroute(col, d, old, new, walk, order)
<1>1. c1 \in [Sat -> Entries] /\ c1[new] # NoLink
  BY SetSatLinkKeeps
<1>2. \A s \in Sat : col[s] # NoLink => c1[s] # NoLink
  BY UplinkFacts, StationFacts DEF SetSatLink
<1>3. DOMAIN walk = Sources(d) /\ PathsInto(walk, new)
  BY DEF PathsInto, WalkTo
<1>4. IsOrder(order, DOMAIN walk)
  BY <1>3, OrderFacts
<1>5. c = PopulateRoutes(c1, walk, order)
  BY DEF Reroute
<1> HIDE DEF c1, c
<1>6. ASSUME NEW s \in Sat
      PROVE  /\ Writers(walk, s) = {} => c[s] = c1[s]
             /\ Writers(walk, s) # {} => c[s] # NoLink
  BY <1>1, <1>3, <1>4, <1>5, PopulateFacts, StationFacts
<1>7. \A s \in Sat : col[s] # NoLink => c[s] # NoLink
  BY <1>2, <1>6
<1>8. ASSUME NEW g \in Sources(d) PROVE walk[g][1] \in Sat /\ c[walk[g][1]] # NoLink
  <2>1. walk[g] \in Walk /\ walk[g][Len(walk[g])] = new
    BY DEF WalkTo
  <2>2. Len(walk[g]) \in Nat \ {0} /\ walk[g][1] \in Sat
    BY <2>1, WalkFacts
  <2> DEFINE n == Len(walk[g])
  <2>3. CASE Len(walk[g]) = 1
    <3>1. walk[g][1] = new
      BY <2>1, <2>3
    <3> QED BY <1>1, <1>6, <2>2, <3>1
  <2>4. CASE Len(walk[g]) # 1
    <3>1. 1 \in 1 .. n - 1
      <4>1. n \in Nat \ {0} /\ n # 1
        BY <2>2, <2>4
      <4> HIDE DEF n
      <4> QED BY <4>1
    <3>2. ForwardsOn(walk[g], walk[g][1])
      BY <3>1 DEF ForwardsOn
    <3>3. g \in Writers(walk, walk[g][1])
      BY <1>3, <3>2 DEF Writers
    <3> QED BY <1>6, <2>2, <3>3
  <2> QED BY <2>3, <2>4
<1> QED BY <1>7, <1>8 DEF c
=============================================================================
