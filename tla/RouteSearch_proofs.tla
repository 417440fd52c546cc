------------------------- MODULE RouteSearch_proofs -------------------------
(***************************************************************************)
(* The search for a path returns one, it is a walk, its loss is the best,  *)
(* and no iteration goes round in circles, whatever the number of stations *)
(* and the losses of the links.                                            *)
(***************************************************************************)
EXTENDS RouteSearch, ForwardingTables_proofs, SequenceTheorems

-----------------------------------------------------------------------------
(* Functions on 0 .. n that give every value from the one before it.        *)
Follows(f, n, S, a, next) ==
  /\ f = [k \in 0 .. n |-> f[k]]
  /\ f[0] = a
  /\ \A k \in 1 .. n : f[k - 1] \in S => f[k] = next[k][f[k - 1]]

(* A bounded non-empty set of naturals has a least element.                 *)
LEMMA LeastNatural ==
  ASSUME NEW S \in SUBSET Nat, S # {}
  PROVE  \E m \in S : \A k \in S : m <= k
<1> DEFINE R == OpToRel(<, Nat)
<1>1. IsWellFoundedOn(R, Nat)
  BY NatLessThanWellFounded
<1>2. \E x \in S : \A y \in S : ~ (<<y, x>> \in R)
  <2> HIDE DEF R
  <2> QED BY <1>1, WFMin
<1>3. PICK x \in S : \A y \in S : ~ (<<y, x>> \in R)
  BY <1>2
<1>4. \A y \in S : ~ (y < x)
  BY <1>3 DEF OpToRel
<1> QED BY <1>4

LEMMA FollowsUntil ==
  ASSUME NEW n \in Nat, NEW S, NEW a \in S, NEW next \in [1 .. n -> [S -> S]],
         NEW m \in 0 .. n
  PROVE  \E f \in [0 .. m -> S] : Follows(f, m, S, a, next)
<1> DEFINE Good(j) == \E f \in [0 .. j -> S] : Follows(f, j, S, a, next)
           T == {j \in 0 .. n : ~ Good(j)}
<1>1. SUFFICES ASSUME T # {} PROVE FALSE
  OBVIOUS
<1>2. PICK j \in T : \A k \in T : j <= k
  <2>1. T \in SUBSET Nat
    OBVIOUS
  <2> HIDE DEF T
  <2> QED BY <1>1, <2>1, LeastNatural
<1>3. j \in 0 .. n /\ ~ Good(j)
  BY <1>2
<1>4. j # 0
  <2> DEFINE f == [k \in 0 .. 0 |-> a]
  <2>1. f \in [0 .. 0 -> S] /\ Follows(f, 0, S, a, next)
    BY DEF Follows
  <2> QED BY <2>1, <1>3
<1>5. j - 1 \in 0 .. n /\ ~ (j <= j - 1)
  BY <1>3, <1>4
<1>6. Good(j - 1)
  BY <1>2, <1>5
<1>7. PICK f \in [0 .. j - 1 -> S] : Follows(f, j - 1, S, a, next)
  BY <1>6
<1> DEFINE g == [k \in 0 .. j |-> IF k = j THEN next[j][f[j - 1]] ELSE f[k]]
<1>8. j \in 1 .. n /\ f[j - 1] \in S /\ next[j][f[j - 1]] \in S
  <2>1. j \in 1 .. n /\ j - 1 \in 0 .. j - 1
    BY <1>3, <1>4
  <2>2. f[j - 1] \in S /\ next[j] \in [S -> S]
    BY <2>1, <1>7
  <2> QED BY <2>1, <2>2
<1>9. \A k \in 0 .. j : k # j => k \in 0 .. j - 1
  BY <1>8
<1>10. g \in [0 .. j -> S]
  BY <1>7, <1>8, <1>9
<1>11. g[0] = a /\ \A k \in 0 .. j - 1 : g[k] = f[k]
  BY <1>7, <1>8 DEF Follows
<1>12. g[j] = next[j][f[j - 1]]
  BY <1>8
<1> HIDE DEF g
<1>13. ASSUME NEW k \in 1 .. j PROVE g[k] = next[k][g[k - 1]]
  <2>1. k - 1 \in 0 .. j - 1 /\ g[k - 1] = f[k - 1] /\ f[k - 1] \in S
    BY <1>7, <1>8, <1>11
  <2>2. CASE k = j
    BY <1>12, <2>1, <2>2
  <2>3. CASE k # j
    <3>1. k \in 1 .. j - 1 /\ k \in 0 .. j - 1
      BY <1>8, <2>3
    <3> QED BY <1>7, <1>11, <2>1, <3>1 DEF Follows
  <2> QED BY <2>2, <2>3
<1>14. Follows(g, j, S, a, next)
  BY <1>10, <1>11, <1>13 DEF Follows
<1> QED BY <1>3, <1>10, <1>14

(* There is one such function, and only one.                                *)
LEMMA Iteration ==
  ASSUME NEW n \in Nat, NEW S, NEW a \in S, NEW next \in [1 .. n -> [S -> S]]
  PROVE  \E f \in [0 .. n -> S] :
           /\ Follows(f, n, S, a, next)
           /\ \A g : Follows(g, n, S, a, next) => g = f
<1>1. n \in 0 .. n
  OBVIOUS
<1>2. PICK f \in [0 .. n -> S] : Follows(f, n, S, a, next)
  BY <1>1, FollowsUntil
<1>3. ASSUME NEW g, Follows(g, n, S, a, next) PROVE g = f
  <2> DEFINE T == {k \in 0 .. n : g[k] # f[k]}
  <2>1. SUFFICES ASSUME T # {} PROVE FALSE
    BY <1>2, <1>3 DEF Follows
  <2>2. PICK j \in T : \A k \in T : j <= k
    <3>1. T \in SUBSET Nat
      OBVIOUS
    <3> HIDE DEF T
    <3> QED BY <2>1, <3>1, LeastNatural
  <2>3. j \in 0 .. n /\ g[j] # f[j]
    BY <2>2
  <2>4. j # 0
    BY <2>3, <1>2, <1>3 DEF Follows
  <2>5. j \in 1 .. n /\ j - 1 \in 0 .. n /\ ~ (j <= j - 1)
    BY <2>3, <2>4
  <2>6. g[j - 1] = f[j - 1] /\ f[j - 1] \in S
    BY <2>2, <2>5, <1>2
  <2> QED BY <2>3, <2>5, <2>6, <1>2, <1>3, ZenonT(30) DEF Follows
<1> QED BY <1>2, <1>3

-----------------------------------------------------------------------------
(* The loss of a path, link by link.                                        *)
LossTyped == loss \in [Channel -> 0 .. Lost]

IsTotal(f, p, st) ==
  f = [i \in 0 .. Len(p) |-> IF i = 0 THEN 0 ELSE f[i - 1] + LossSeenBy(p[i], st)]

Totals(p, st) == CHOOSE f : IsTotal(f, p, st)

Total(p, st) == Totals(p, st)[Len(p)]

LEMMA PathLossIsTotal == \A p, st : PathLoss(p, st) = Capped(Total(p, st))
BY DEF PathLoss, Total, Totals, IsTotal

LEMMA CappedFacts ==
  ASSUME NEW a \in Nat, NEW b \in Nat
  PROVE  /\ Capped(a) \in 0 .. Lost /\ Capped(a) \in Nat /\ Capped(a) <= a
         /\ Capped(a) < Unlabelled
         /\ a <= b => Capped(a) <= Capped(b)
         /\ Capped(Capped(a) + b) = Capped(a + b)
         /\ a <= Lost => Capped(a) = a
BY SearchAssumption DEF Capped, Unlabelled

LEMMA SeenFacts ==
  ASSUME LossTyped, NEW l \in Link, NEW st
  PROVE  LossSeenBy(l, st) \in Nat
<1>1. l \in Station \X Station
  BY DEF Link, Station
<1>2. \A x \in Station : (x = l[1] \/ x = l[2]) => <<l, x>> \in Channel
  BY DEF Channel
<1>3. OtherStation(l, st) \in Station /\ (OtherStation(l, st) = l[1] \/ OtherStation(l, st) = l[2])
  BY <1>1 DEF OtherStation
<1>4. <<l, OtherStation(l, st)>> \in Channel
  BY <1>2, <1>3
<1>5. loss[<<l, OtherStation(l, st)>>] \in 0 .. Lost
  BY <1>4 DEF LossTyped
<1> QED BY <1>5, SearchAssumption DEF LossSeenBy

LEMMA TotalsFacts ==
  ASSUME LossTyped, NEW p \in Seq(Link), NEW st
  PROVE  /\ Totals(p, st) \in [0 .. Len(p) -> Nat]
         /\ Totals(p, st)[0] = 0
         /\ \A i \in 1 .. Len(p) :
              Totals(p, st)[i] = Totals(p, st)[i - 1] + LossSeenBy(p[i], st)
<1> DEFINE n == Len(p)
           next == [i \in 1 .. n |-> [x \in Nat |-> x + LossSeenBy(p[i], st)]]
<1>1. n \in Nat /\ \A i \in 1 .. n : LossSeenBy(p[i], st) \in Nat
  BY ElementOfSeq, LenProperties, SeenFacts
<1>2. next \in [1 .. n -> [Nat -> Nat]]
  BY <1>1
<1>3. 0 \in Nat
  OBVIOUS
<1>4. PICK f \in [0 .. n -> Nat] :
        /\ Follows(f, n, Nat, 0, next)
        /\ \A g : Follows(g, n, Nat, 0, next) => g = f
  <2> HIDE DEF next, n
  <2> QED BY <1>1, <1>2, <1>3, Iteration
<1>5. \A i \in 1 .. n, x \in Nat : next[i][x] = x + LossSeenBy(p[i], st)
  OBVIOUS
<1> HIDE DEF next
<1>6. \A i \in 0 .. n : i # 0 => i \in 1 .. n /\ i - 1 \in 0 .. n
  BY <1>1
<1>7. \A i \in 1 .. n : i \in 0 .. n /\ i # 0 /\ i - 1 \in 0 .. n
  BY <1>1
<1>8. \A i \in 1 .. n : f[i] = f[i - 1] + LossSeenBy(p[i], st)
  BY <1>4, <1>5, <1>7 DEF Follows
<1>9. IsTotal(f, p, st)
  <2>1. \A i \in 0 .. n : f[i] = IF i = 0 THEN 0 ELSE f[i - 1] + LossSeenBy(p[i], st)
    BY <1>4, <1>6, <1>8 DEF Follows
  <2> QED BY <1>4, <2>1 DEF IsTotal
<1>10. ASSUME NEW g, IsTotal(g, p, st) PROVE g = f
  <2>1. g = [i \in 0 .. n |-> IF i = 0 THEN 0 ELSE g[i - 1] + LossSeenBy(p[i], st)]
    BY <1>10 DEF IsTotal
  <2>2. g[0] = 0
    <3>1. 0 \in 0 .. n
      BY <1>1
    <3> QED BY <2>1, <3>1
  <2>3. \A i \in 1 .. n : g[i - 1] \in Nat => g[i] = next[i][g[i - 1]]
    BY <1>5, <1>7, <2>1
  <2>4. g = [i \in 0 .. n |-> g[i]]
    BY <2>1
  <2> QED BY <1>4, <2>2, <2>3, <2>4 DEF Follows
<1>11. Totals(p, st) = f
  BY <1>9, <1>10 DEF Totals
<1> QED BY <1>4, <1>8, <1>11 DEF Follows

LEMMA TotalType ==
  ASSUME LossTyped, NEW p \in Seq(Link), NEW st
  PROVE  /\ Len(p) \in Nat
         /\ \A i \in 0 .. Len(p) : Totals(p, st)[i] \in Nat
         /\ Total(p, st) \in Nat
BY TotalsFacts, LenProperties DEF Total

LEMMA TotalsGrow ==
  ASSUME LossTyped, NEW p \in Seq(Link), NEW st,
         NEW i \in 0 .. Len(p), NEW j \in i .. Len(p)
  PROVE  Totals(p, st)[i] <= Totals(p, st)[j]
<1> DEFINE t == Totals(p, st)
           T == {k \in i .. Len(p) : ~ (t[i] <= t[k])}
<1>1. Len(p) \in Nat /\ \A k \in 1 .. Len(p) : LossSeenBy(p[k], st) \in Nat
  BY ElementOfSeq, LenProperties, SeenFacts
<1>2. /\ \A k \in 0 .. Len(p) : t[k] \in Nat
      /\ \A k \in 1 .. Len(p) : t[k] = t[k - 1] + LossSeenBy(p[k], st)
  BY TotalsFacts
<1> HIDE DEF t
<1>3. SUFFICES ASSUME T # {} PROVE FALSE
  BY DEF t
<1>4. PICK k \in T : \A m \in T : k <= m
  <2>1. T \in SUBSET Nat
    BY <1>1
  <2> HIDE DEF T
  <2> QED BY <1>3, <2>1, LeastNatural
<1>5. k \in i .. Len(p) /\ ~ (t[i] <= t[k])
  BY <1>4
<1>6. k # i /\ k \in Nat /\ i \in Nat
  BY <1>1, <1>2, <1>5
<1>7. k - 1 \in i .. Len(p) /\ ~ (k <= k - 1) /\ k \in 1 .. Len(p) /\ k - 1 \in 0 .. Len(p) /\ k \in 0 .. Len(p)
  BY <1>1, <1>5, <1>6
<1>8. t[i] <= t[k - 1]
  BY <1>4, <1>7
<1>9. t[k] = t[k - 1] + LossSeenBy(p[k], st) /\ LossSeenBy(p[k], st) \in Nat
  BY <1>1, <1>2, <1>7
<1>10. t[i] <= t[k]
  <2>1. t[i] \in Nat /\ t[k - 1] \in Nat /\ t[k] \in Nat
    BY <1>1, <1>2, <1>5, <1>7
  <2>2. \A a, b, c, d \in Nat : a <= b /\ c = b + d => a <= c
    OBVIOUS
  <2> QED BY <1>8, <1>9, <2>1, <2>2
<1> QED BY <1>5, <1>10

LEMMA TotalsAgree ==
  ASSUME LossTyped, NEW p \in Seq(Link), NEW q \in Seq(Link), NEW st,
         NEW n \in Nat, n <= Len(p), n <= Len(q), \A i \in 1 .. n : p[i] = q[i]
  PROVE  \A i \in 0 .. n : Totals(p, st)[i] = Totals(q, st)[i]
<1> DEFINE T == {k \in 0 .. n : Totals(p, st)[k] # Totals(q, st)[k]}
<1>1. SUFFICES ASSUME T # {} PROVE FALSE
  OBVIOUS
<1>2. PICK k \in T : \A m \in T : k <= m
  <2>1. T \in SUBSET Nat
    OBVIOUS
  <2> HIDE DEF T
  <2> QED BY <1>1, <2>1, LeastNatural
<1>3. k \in 0 .. n /\ Totals(p, st)[k] # Totals(q, st)[k]
  BY <1>2
<1>4. k # 0
  BY <1>3, TotalsFacts
<1>5. Len(p) \in Nat /\ Len(q) \in Nat
  BY LenProperties
<1>6. k \in 1 .. n /\ k - 1 \in 0 .. n /\ ~ (k <= k - 1) /\ k \in 1 .. Len(p) /\ k \in 1 .. Len(q)
  BY <1>3, <1>4, <1>5
<1>7. Totals(p, st)[k - 1] = Totals(q, st)[k - 1]
  BY <1>2, <1>6
<1>8. p[k] = q[k]
  BY <1>6
<1>9. /\ Totals(p, st)[k] = Totals(p, st)[k - 1] + LossSeenBy(p[k], st)
      /\ Totals(q, st)[k] = Totals(q, st)[k - 1] + LossSeenBy(q[k], st)
  BY <1>6, TotalsFacts
<1> QED BY <1>3, <1>7, <1>8, <1>9

(* A link more.                                                             *)
LEMMA TotalOfNone ==
  ASSUME LossTyped, NEW st
  PROVE  <<>> \in Seq(Link) /\ Total(<<>>, st) = 0 /\ PathLoss(<<>>, st) = 0
<1>1. <<>> \in Seq(Link) /\ Len(<<>>) = 0
  BY EmptySeq
<1>2. Total(<<>>, st) = 0
  BY <1>1, TotalsFacts DEF Total
<1> QED BY <1>1, <1>2, PathLossIsTotal, SearchAssumption DEF Capped

LEMMA TotalAppend ==
  ASSUME LossTyped, NEW p \in Seq(Link), NEW l \in Link, NEW st
  PROVE  /\ Append(p, l) \in Seq(Link) /\ Len(Append(p, l)) = Len(p) + 1
         /\ Total(Append(p, l), st) = Total(p, st) + LossSeenBy(l, st)
         /\ \A i \in 0 .. Len(p) : Totals(Append(p, l), st)[i] = Totals(p, st)[i]
<1> DEFINE q == Append(p, l)
           n == Len(p)
<1>1. /\ q \in Seq(Link) /\ Len(q) = n + 1 /\ n \in Nat /\ q[n + 1] = l
      /\ \A i \in 1 .. n : q[i] = p[i]
  BY AppendProperties, LenProperties
<1> HIDE DEF q, n
<1>2. \A i \in 0 .. n : Totals(p, st)[i] = Totals(q, st)[i]
  <2>1. n <= Len(q) /\ n <= Len(p)
    BY <1>1 DEF n
  <2> QED BY <1>1, <2>1, TotalsAgree
<1>3. Totals(q, st)[n + 1] = Totals(q, st)[n] + LossSeenBy(l, st)
  <2>1. n + 1 \in 1 .. Len(q) /\ (n + 1) - 1 = n
    BY <1>1
  <2>2. Totals(q, st)[n + 1] = Totals(q, st)[(n + 1) - 1] + LossSeenBy(q[n + 1], st)
    BY <1>1, <2>1, TotalsFacts
  <2> QED BY <1>1, <2>1, <2>2
<1>4. n \in 0 .. n
  BY <1>1
<1>5. Total(q, st) = Total(p, st) + LossSeenBy(l, st)
  BY <1>1, <1>2, <1>3, <1>4 DEF Total, n
<1> QED BY <1>1, <1>2, <1>5 DEF q, n

-----------------------------------------------------------------------------
(* The links of a satellite lead to every other station.                    *)
LEMMA LinksFacts ==
  ASSUME NEW point \in Sat
  PROVE  /\ LinksOf(point) \in Seq(Link)
         /\ Len(LinksOf(point)) = NumGround + NumSat - 1
         /\ NumGround + NumSat - 1 \in Nat
         /\ point \in Station
         /\ \A k \in 1 .. NumGround + NumSat - 1 :
              \E o \in Station \ {point} :
                LinksOf(point)[k] = LinkOf(o, point)
         /\ \A o \in Station \ {point} :
              \E k \in 1 .. NumGround + NumSat - 1 : LinksOf(point)[k] = LinkOf(o, point)
         /\ \A o \in Station \ {point} :
              /\ LinkOf(o, point) \in Link
              /\ LinkOf(point, o) = LinkOf(o, point)
              /\ OtherStation(LinkOf(o, point), point) = o
              /\ OtherStation(LinkOf(o, point), o) = point
<1> DEFINE n == NumGround + NumSat - 1
           other(k) == IF k < point THEN k ELSE k + 1
<1>1. /\ n \in Nat /\ Station = 1 .. n + 1 /\ point \in Station /\ point \in Nat
      /\ Sat = NumGround + 1 .. n + 1 /\ NumGround \in Nat
  BY NetworkAssumption DEF Station, Ground, Sat
<1>2. \A o \in Station \ {point} :
        /\ LinkOf(o, point) \in Link
        /\ LinkOf(point, o) = LinkOf(o, point)
        /\ OtherStation(LinkOf(o, point), point) = o
        /\ OtherStation(LinkOf(o, point), o) = point
  <2> SUFFICES ASSUME NEW o \in Station, o # point
               PROVE  /\ LinkOf(o, point) \in Link
                      /\ LinkOf(point, o) = LinkOf(o, point)
                      /\ OtherStation(LinkOf(o, point), point) = o
                      /\ OtherStation(LinkOf(o, point), o) = point
    OBVIOUS
  <2>1. CASE o < point
    <3>1. <<o, point>> \in Link /\ ~ (point < o)
      BY <1>1, <2>1 DEF Link
    <3> QED BY <1>1, <2>1, <3>1 DEF LinkOf, OtherStation
  <2>2. CASE point < o
    <3>1. o \in Sat
      BY <1>1, <2>2
    <3>2. <<point, o>> \in Link /\ ~ (o < point)
      BY <1>1, <2>2, <3>1 DEF Link
    <3> QED BY <1>1, <2>2, <3>2 DEF LinkOf, OtherStation
  <2> QED BY <1>1, <2>1, <2>2
<1>3. \A k \in 1 .. n : other(k) \in Station \ {point}
  BY <1>1
<1>4. LinksOf(point) = [k \in 1 .. n |-> LinkOf(other(k), point)]
  BY DEF LinksOf
<1>5. \A o \in Station \ {point} : \E k \in 1 .. n : other(k) = o
  <2> SUFFICES ASSUME NEW o \in Station, o # point PROVE \E k \in 1 .. n : other(k) = o
    OBVIOUS
  <2>1. CASE o < point
    BY <1>1, <2>1
  <2>2. CASE point < o
    <3>1. o - 1 \in 1 .. n /\ other(o - 1) = o
      BY <1>1, <2>2
    <3> QED BY <3>1
  <2> QED BY <1>1, <2>1, <2>2
<1> HIDE DEF other, n
<1>6. \A k \in 1 .. n : LinkOf(other(k), point) \in Link
  BY <1>2, <1>3
<1>7. LinksOf(point) \in Seq(Link) /\ Len(LinksOf(point)) = n
  <2>1. LinksOf(point) \in [1 .. n -> Link]
    BY <1>4, <1>6
  <2> QED BY <1>1, <2>1
<1>8. \A k \in 1 .. n : LinksOf(point)[k] = LinkOf(other(k), point)
  BY <1>4
<1>9. \A k \in 1 .. n : \E o \in Station \ {point} : LinksOf(point)[k] = LinkOf(o, point)
  BY <1>3, <1>8
<1>10. \A o \in Station \ {point} : \E k \in 1 .. n : LinksOf(point)[k] = LinkOf(o, point)
  BY <1>5, <1>8
<1> QED BY <1>1, <1>2, <1>7, <1>9, <1>10 DEF n

-----------------------------------------------------------------------------
(* The states of the search within an iteration.                            *)
Labels == [Station -> 0 .. Unlabelled]
Paths == [Station -> Seq(Link)]
Searches == [label : Labels, path : Paths, frontier : Seq(Station)]

SearchTyped ==
  /\ LossTyped
  /\ source \in Sat /\ dest \in Sat
  /\ label \in Labels /\ path \in Paths /\ frontier \in Seq(Station)

Visit(s, l, point) == UpdateLength(s, OtherStation(l, point), Append(s.path[point], l))

Begun == [label |-> label, path |-> path, frontier |-> Tail(frontier)]

IsExploring(f, point) ==
  f = [k \in 0 .. Len(LinksOf(point)) |->
         IF k = 0 THEN Begun ELSE Visit(f[k - 1], LinksOf(point)[k], point)]

Exploring(point) == CHOOSE f : IsExploring(f, point)

LEMMA ExploredIsExploring ==
  \A point : Explored(point) = Exploring(point)[Len(LinksOf(point))]
BY DEF Explored, Exploring, IsExploring, Visit, Begun

(* What an accepted path changes.                                           *)
LEMMA VisitFacts ==
  ASSUME LossTyped, NEW s \in Searches, NEW point \in Sat, NEW o \in Station \ {point}
  PROVE  LET l == LinkOf(o, point)
             p == Append(s.path[point], l)
             t == Visit(s, l, point)
         IN /\ p \in Seq(Link)
            /\ s.path[point] \in Seq(Link)
            /\ PathLoss(p, o) \in 0 .. Lost
            /\ s.label[o] \in 0 .. Unlabelled
            /\ t \in Searches
            /\ ~ PathLoss(p, o) < s.label[o] => t = s
            /\ PathLoss(p, o) < s.label[o] =>
                 /\ t.label[o] = PathLoss(p, o)
                 /\ t.path[o] = p
                 /\ t.frontier = Append(s.frontier, o)
                 /\ \A x \in Station : x # o => t.label[x] = s.label[x] /\ t.path[x] = s.path[x]
<1> DEFINE l == LinkOf(o, point)
           p == Append(s.path[point], l)
           t == Visit(s, l, point)
<1>1. /\ s.label \in Labels /\ s.path \in Paths /\ s.frontier \in Seq(Station)
      /\ s = [label |-> s.label, path |-> s.path, frontier |-> s.frontier]
  BY DEF Searches
<1>2. l \in Link /\ OtherStation(l, point) = o /\ point \in Station
  BY LinksFacts
<1>3. s.path[point] \in Seq(Link) /\ s.label[o] \in 0 .. Unlabelled
  BY <1>1, <1>2 DEF Paths, Labels
<1> HIDE DEF l
<1>4. p \in Seq(Link)
  BY <1>2, <1>3, TotalAppend
<1>5. t = UpdateLength(s, o, p)
  BY <1>2 DEF Visit
<1> HIDE DEF p, t
<1>6. PathLoss(p, o) \in 0 .. Lost
  BY <1>4, TotalType, PathLossIsTotal, CappedFacts
<1>7. PathLoss(p, o) \in 0 .. Unlabelled
  BY <1>6, SearchAssumption DEF Unlabelled
<1>8. CASE ~ PathLoss(p, o) < s.label[o]
  <2>1. t = s
    BY <1>5, <1>8 DEF UpdateLength
  <2> QED BY <1>3, <1>4, <1>6, <1>8, <2>1 DEF l, p, t
<1>9. CASE PathLoss(p, o) < s.label[o]
  <2>1. t = [label    |-> [s.label EXCEPT ![o] = PathLoss(p, o)],
             path     |-> [s.path EXCEPT ![o] = p],
             frontier |-> Append(s.frontier, o)]
    BY <1>5, <1>9 DEF UpdateLength, Relabelled
  <2>2. /\ [s.label EXCEPT ![o] = PathLoss(p, o)] \in Labels
        /\ [s.path EXCEPT ![o] = p] \in Paths
        /\ Append(s.frontier, o) \in Seq(Station)
    BY <1>1, <1>4, <1>7, AppendProperties DEF Labels, Paths
  <2>3. t \in Searches
    BY <2>1, <2>2 DEF Searches
  <2>4. /\ t.label[o] = PathLoss(p, o)
        /\ t.path[o] = p
        /\ t.frontier = Append(s.frontier, o)
        /\ \A x \in Station : x # o => t.label[x] = s.label[x] /\ t.path[x] = s.path[x]
    BY <1>1, <2>1 DEF Labels, Paths
  <2> QED BY <1>3, <1>4, <1>6, <1>9, <2>3, <2>4 DEF l, p, t
<1> QED BY <1>8, <1>9

LEMMA ExploringFacts ==
  ASSUME SearchTyped, frontier # <<>>, NEW point \in Sat
  PROVE  LET n == NumGround + NumSat - 1
             f == Exploring(point)
         IN /\ Begun \in Searches
            /\ f[0] = Begun
            /\ f \in [0 .. n -> Searches]
            /\ \A k \in 1 .. n : f[k] = Visit(f[k - 1], LinksOf(point)[k], point)
            /\ Explored(point) = f[n]
<1> DEFINE n == NumGround + NumSat - 1
           links == LinksOf(point)
           next == [k \in 1 .. n |-> [s \in Searches |-> Visit(s, links[k], point)]]
<1>1. LossTyped /\ n \in Nat /\ Len(links) = n
  BY LinksFacts DEF SearchTyped
<1>2. Begun \in Searches
  BY HeadTailProperties DEF SearchTyped, Begun, Searches
<1>3. ASSUME NEW k \in 1 .. n, NEW s \in Searches PROVE Visit(s, links[k], point) \in Searches
  <2>1. PICK o \in Station \ {point} : links[k] = LinkOf(o, point)
    BY LinksFacts
  <2> QED BY <1>1, <2>1, VisitFacts
<1>4. next \in [1 .. n -> [Searches -> Searches]]
  BY <1>3
<1>5. \A k \in 1 .. n, s \in Searches : next[k][s] = Visit(s, links[k], point)
  OBVIOUS
<1> HIDE DEF n, links, next
<1>6. PICK f \in [0 .. n -> Searches] :
        /\ Follows(f, n, Searches, Begun, next)
        /\ \A g : Follows(g, n, Searches, Begun, next) => g = f
  BY <1>1, <1>2, <1>4, Iteration, ZenonT(30)
<1>7. /\ \A k \in 0 .. n : k # 0 => k \in 1 .. n /\ k - 1 \in 0 .. n
      /\ \A k \in 1 .. n : k \in 0 .. n /\ k # 0 /\ k - 1 \in 0 .. n
      /\ 0 \in 0 .. n
  BY <1>1
<1>8. \A k \in 1 .. n : f[k] = Visit(f[k - 1], links[k], point)
  BY <1>5, <1>6, <1>7 DEF Follows
<1>9. \A g : IsExploring(g, point) <=>
        g = [k \in 0 .. n |-> IF k = 0 THEN Begun ELSE Visit(g[k - 1], links[k], point)]
  BY <1>1 DEF IsExploring, links
<1>10. IsExploring(f, point)
  <2>1. \A k \in 0 .. n : f[k] = IF k = 0 THEN Begun ELSE Visit(f[k - 1], links[k], point)
    BY <1>6, <1>7, <1>8, ZenonT(30) DEF Follows
  <2> QED BY <1>6, <1>9, <2>1
<1>11. ASSUME NEW g, IsExploring(g, point) PROVE g = f
  <2>1. g = [k \in 0 .. n |-> IF k = 0 THEN Begun ELSE Visit(g[k - 1], links[k], point)]
    BY <1>9, <1>11
  <2>2. g[0] = Begun /\ g = [k \in 0 .. n |-> g[k]]
    BY <1>7, <2>1
  <2>3. \A k \in 1 .. n : g[k - 1] \in Searches => g[k] = next[k][g[k - 1]]
    BY <1>5, <1>7, <2>1
  <2> QED BY <1>6, <2>2, <2>3 DEF Follows
<1>12. Exploring(point) = f
  BY <1>10, <1>11 DEF Exploring
<1>13. Explored(point) = f[n]
  BY <1>1, <1>12, ExploredIsExploring DEF links
<1>14. f[0] = Begun
  BY <1>6 DEF Follows
<1> QED BY <1>2, <1>6, <1>8, <1>12, <1>13, <1>14 DEF n, links

(* What the loop over the links establishes, step by step.                  *)
LEMMA Exploration ==
  ASSUME SearchTyped, frontier # <<>>, NEW point \in Sat,
         NEW G \in [0 .. NumGround + NumSat - 1 -> SUBSET Searches],
         Begun \in G[0],
         \A k \in 1 .. NumGround + NumSat - 1 :
           \A s \in G[k - 1], o \in Station \ {point} :
             LinksOf(point)[k] = LinkOf(o, point) => Visit(s, LinkOf(o, point), point) \in G[k]
  PROVE  Explored(point) \in G[NumGround + NumSat - 1]
<1> DEFINE n == NumGround + NumSat - 1
           f == Exploring(point)
           T == {k \in 0 .. n : f[k] \notin G[k]}
<1>1. /\ f[0] = Begun
      /\ f \in [0 .. n -> Searches]
      /\ \A k \in 1 .. n : f[k] = Visit(f[k - 1], LinksOf(point)[k], point)
      /\ Explored(point) = f[n]
      /\ n \in Nat
      /\ \A k \in 1 .. n : \E o \in Station \ {point} : LinksOf(point)[k] = LinkOf(o, point)
  BY ExploringFacts, LinksFacts
<1> HIDE DEF n, f
<1>2. T = {}
  <2>1. SUFFICES ASSUME T # {} PROVE FALSE
    OBVIOUS
  <2>2. PICK k \in T : \A m \in T : k <= m
    <3>1. T \in SUBSET Nat
      OBVIOUS
    <3> HIDE DEF T
    <3> QED BY <2>1, <3>1, LeastNatural
  <2>3. k \in 0 .. n /\ f[k] \notin G[k]
    BY <2>2
  <2>4. k # 0
    BY <2>3, <1>1
  <2>5. k \in 1 .. n /\ k - 1 \in 0 .. n /\ ~ (k <= k - 1)
    BY <2>3, <2>4, <1>1
  <2>6. f[k - 1] \in G[k - 1]
    BY <2>2, <2>5
  <2>7. PICK o \in Station \ {point} : LinksOf(point)[k] = LinkOf(o, point)
    BY <1>1, <2>5
  <2>8. f[k] = Visit(f[k - 1], LinkOf(o, point), point)
    BY <1>1, <2>5, <2>7
  <2> QED BY <2>3, <2>5, <2>6, <2>7, <2>8 DEF n
<1>3. n \in 0 .. n
  BY <1>1
<1> QED BY <1>1, <1>2, <1>3 DEF n

-----------------------------------------------------------------------------
(* Sorting keeps the stations of the frontier and puts the least label      *)
(* first.                                                                   *)
Ordered(lab, q) == \A i, j \in 1 .. Len(q) : i <= j => lab[q[i]] <= lab[q[j]]

SameStations(q, r) ==
  /\ \A i \in 1 .. Len(q) : \E j \in 1 .. Len(r) : q[i] = r[j]
  /\ \A j \in 1 .. Len(r) : \E i \in 1 .. Len(q) : q[i] = r[j]

LEMMA SortedByFacts ==
  ASSUME NEW lab \in Labels, NEW q \in Seq(Station)
  PROVE  /\ SortedBy(lab, q) \in Seq(Station)
         /\ Len(SortedBy(lab, q)) = Len(q)
         /\ SameStations(SortedBy(lab, q), q)
         /\ Ordered(lab, SortedBy(lab, q))
<1> DEFINE n == Len(q)
           v(i) == lab[q[i]]
           before(i) == {j \in DOMAIN q : v(j) < v(i) \/ (v(j) = v(i) /\ j < i)}
           rank(i) == 1 + Cardinality(before(i))
           r == [i \in 1 .. n |-> rank(i)]
           at(k) == CHOOSE i \in DOMAIN q : rank(i) = k
<1>1. n \in Nat /\ DOMAIN q = 1 .. n /\ \A i \in 1 .. n : q[i] \in Station
  BY LenProperties, ElementOfSeq
<1>2. \A i \in 1 .. n : v(i) \in Nat
  BY <1>1, SearchAssumption DEF Labels, Unlabelled
<1>3. SortedBy(lab, q) = [k \in DOMAIN q |-> q[at(k)]]
  BY DEF SortedBy
<1> HIDE DEF v, n
<1>4. \A i, j \in 1 .. n : j \in before(i) <=> (v(j) < v(i) \/ (v(j) = v(i) /\ j < i))
  BY <1>1
<1>5. \A i \in 1 .. n : before(i) \subseteq 1 .. n
  BY <1>1
<1> HIDE DEF before
<1>6. IsFiniteSet(1 .. n) /\ Cardinality(1 .. n) = n
  BY <1>1, FS_Interval
<1>7. ASSUME NEW i \in 1 .. n
      PROVE  IsFiniteSet(before(i)) /\ Cardinality(before(i)) \in Nat /\ rank(i) \in 1 .. n
  <2>1. i \notin before(i)
    BY <1>1, <1>2, <1>4
  <2>2. before(i) \in SUBSET (1 .. n) /\ before(i) # 1 .. n
    BY <1>5, <2>1
  <2>3. IsFiniteSet(before(i)) /\ Cardinality(before(i)) <= n /\ Cardinality(before(i)) # n
    BY <1>6, <2>2, FS_Subset, ZenonT(30)
  <2>4. Cardinality(before(i)) \in Nat
    BY <2>3, FS_CardinalityType
  <2> QED BY <1>1, <2>3, <2>4
<1>8. ASSUME NEW i \in 1 .. n, NEW j \in 1 .. n, i \in before(j)
      PROVE  rank(i) < rank(j)
  <2>1. before(i) \subseteq before(j)
    BY <1>1, <1>2, <1>4, <1>5, <1>8
  <2>2. i \notin before(i)
    BY <1>1, <1>2, <1>4
  <2>3. before(i) # before(j)
    BY <2>2, <1>8
  <2>4. Cardinality(before(i)) <= Cardinality(before(j)) /\ Cardinality(before(i)) # Cardinality(before(j))
    BY <1>7, <2>1, <2>3, FS_Subset
  <2> QED BY <1>7, <2>4
<1>9. \A i, j \in 1 .. n : i # j => i \in before(j) \/ j \in before(i)
  BY <1>1, <1>2, <1>4
<1>10. \A i, j \in 1 .. n : rank(i) = rank(j) => i = j
  <2> SUFFICES ASSUME NEW i \in 1 .. n, NEW j \in 1 .. n, i # j PROVE rank(i) # rank(j)
    OBVIOUS
  <2>1. rank(i) < rank(j) \/ rank(j) < rank(i)
    BY <1>8, <1>9
  <2>2. rank(i) \in 1 .. n /\ rank(j) \in 1 .. n
    BY <1>7
  <2> HIDE DEF rank
  <2> QED BY <2>1, <2>2, <1>1
<1> HIDE DEF rank
<1>11. r \in Surjection(1 .. n, 1 .. n)
  <2>1. r \in [1 .. n -> 1 .. n] /\ \A i \in 1 .. n : r[i] = rank(i)
    BY <1>7
  <2>2. r \in Injection(1 .. n, 1 .. n)
    <3> HIDE DEF r
    <3> QED BY <1>10, <2>1 DEF Injection, IsInjective
  <2> HIDE DEF r
  <2> QED BY <1>6, <2>2, FS_Injection
<1>12. \A k \in 1 .. n : \E i \in 1 .. n : rank(i) = k
  <2>1. \A k \in 1 .. n : \E i \in 1 .. n : r[i] = k
    <3> HIDE DEF r
    <3> QED BY <1>11 DEF Surjection
  <2> QED BY <2>1
<1>13. \A k \in 1 .. n : at(k) \in 1 .. n /\ rank(at(k)) = k
  BY <1>1, <1>12
<1>14. \A i \in 1 .. n : rank(i) \in 1 .. n /\ at(rank(i)) = i
  BY <1>1, <1>7, <1>10, <1>13 DEF rank
<1>15. SortedBy(lab, q) = [k \in 1 .. n |-> q[at(k)]]
  BY <1>1, <1>3
<1> HIDE DEF at
<1>16. SortedBy(lab, q) \in Seq(Station) /\ Len(SortedBy(lab, q)) = n
  <2>1. [k \in 1 .. n |-> q[at(k)]] \in [1 .. n -> Station]
    BY <1>1, <1>13
  <2> QED BY <1>1, <1>15, <2>1
<1>17. \A k \in 1 .. n : SortedBy(lab, q)[k] = q[at(k)]
  BY <1>15
<1>18. \A i \in 1 .. n : SortedBy(lab, q)[rank(i)] = q[i]
  BY <1>14, <1>17
<1>19. SameStations(SortedBy(lab, q), q)
  BY <1>13, <1>14, <1>16, <1>17, <1>18 DEF SameStations, n
<1>20. ASSUME NEW k \in 1 .. n, NEW m \in 1 .. n, k <= m
       PROVE  v(at(k)) <= v(at(m))
  <2>1. at(k) \in 1 .. n /\ at(m) \in 1 .. n /\ rank(at(k)) = k /\ rank(at(m)) = m
    BY <1>13
  <2>2. ~ at(m) \in before(at(k))
    <3> SUFFICES ASSUME at(m) \in before(at(k)) PROVE FALSE
      OBVIOUS
    <3>1. rank(at(m)) < rank(at(k))
      BY <2>1, <1>8
    <3>2. m < k
      BY <2>1, <3>1
    <3> QED BY <1>1, <1>20, <3>2
  <2>3. ~ (v(at(m)) < v(at(k)))
    BY <1>4, <2>1, <2>2
  <2> QED BY <1>2, <2>1, <2>3
<1>21. Ordered(lab, SortedBy(lab, q))
  BY <1>16, <1>17, <1>20 DEF Ordered, v
<1> QED BY <1>16, <1>19, <1>21 DEF n

-----------------------------------------------------------------------------
(* The invariants of the search, of its states within an iteration too.     *)
In(q, x) == \E i \in 1 .. Len(q) : q[i] = x

Labelled(s, st) == s.label[st] # Unlabelled

Matched(s) ==
  \A st \in Station : Labelled(s, st) => s.label[st] = PathLoss(s.path[st], st)

(* The stations of the path of st.  Each of them already had a label no     *)
(* worse than the part of the path that leads to it, and has not lost it.   *)
Trail(s, w, st) ==
  /\ w # <<>> /\ w[1] = source /\ w[Len(w)] = st
  /\ \A i \in 1 .. Len(w) : i < Len(w) => w[i] \in Sat
  /\ \A i, j \in 1 .. Len(w) : w[i] = w[j] => i = j
  /\ s.path[st] = PathLinks(w)
  /\ \A i \in 1 .. Len(w) : s.label[w[i]] <= Capped(Totals(s.path[st], w[i])[i - 1])

Trails(s) ==
  \A st \in Station : Labelled(s, st) => \E w \in Seq(Station) : Trail(s, w, st)

Marked(s) == \A i \in 1 .. Len(s.frontier) : Labelled(s, s.frontier[i])

Awaited(s) == Labelled(s, dest) => In(s.frontier, dest)

LEMMA PathLinksFacts ==
  ASSUME NEW w \in Seq(Station), w # <<>>
  PROVE  /\ Len(w) \in Nat \ {0}
         /\ DOMAIN PathLinks(w) = 1 .. Len(w) - 1
         /\ PathLinks(w) \in Seq(Link) => Len(PathLinks(w)) = Len(w) - 1
         /\ \A i \in 1 .. Len(w) - 1 : PathLinks(w)[i] = LinkOf(w[i], w[i + 1])
<1>1. Len(w) \in Nat \ {0}
  BY EmptySeq
<1>2. DOMAIN PathLinks(w) = 1 .. Len(w) - 1
  BY DEF PathLinks
<1>3. ASSUME PathLinks(w) \in Seq(Link) PROVE Len(PathLinks(w)) = Len(w) - 1
  <2>1. DOMAIN PathLinks(w) = 1 .. Len(PathLinks(w)) /\ Len(PathLinks(w)) \in Nat
    BY <1>3, LenProperties
  <2> DEFINE a == Len(PathLinks(w))
             b == Len(w) - 1
  <2>2. 1 .. a = 1 .. b /\ a \in Nat /\ b \in Nat
    BY <1>1, <1>2, <2>1
  <2> HIDE DEF a, b
  <2>3. a = b
    <3>1. \A k \in Nat : k \in 1 .. a <=> k \in 1 .. b
      BY <2>2
    <3> QED BY <3>1, <2>2
  <2> QED BY <2>3 DEF a, b
<1> QED BY <1>1, <1>2, <1>3 DEF PathLinks

LEMMA MatchedKept ==
  ASSUME LossTyped, NEW s \in Searches, NEW point \in Sat, NEW o \in Station \ {point}, Matched(s)
  PROVE  Matched(Visit(s, LinkOf(o, point), point))
<1> DEFINE t == Visit(s, LinkOf(o, point), point)
           p == Append(s.path[point], LinkOf(o, point))
<1>1. \/ t = s
      \/ /\ t.label[o] = PathLoss(p, o) /\ t.path[o] = p
         /\ \A x \in Station : x # o => t.label[x] = s.label[x] /\ t.path[x] = s.path[x]
  BY VisitFacts
<1> HIDE DEF t, p
<1>2. Matched(t)
  BY <1>1 DEF Matched, Labelled
<1> QED BY <1>2 DEF t

(* Labels only get better.                                                  *)
LEMMA VisitImproves ==
  ASSUME LossTyped, NEW s \in Searches, NEW point \in Sat, NEW o \in Station \ {point}
  PROVE  LET t == Visit(s, LinkOf(o, point), point)
             p == Append(s.path[point], LinkOf(o, point))
         IN /\ \A x \in Station :
                 /\ s.label[x] \in 0 .. Unlabelled /\ t.label[x] \in 0 .. Unlabelled
                 /\ t.label[x] <= s.label[x]
                 /\ Labelled(s, x) => Labelled(t, x)
            /\ t.label[o] <= PathLoss(p, o)
            /\ \A x \in Station : In(s.frontier, x) => In(t.frontier, x)
<1> DEFINE l == LinkOf(o, point)
           p == Append(s.path[point], l)
           t == Visit(s, l, point)
<1>1. /\ PathLoss(p, o) \in 0 .. Lost
      /\ t \in Searches
      /\ ~ PathLoss(p, o) < s.label[o] => t = s
      /\ PathLoss(p, o) < s.label[o] =>
           /\ t.label[o] = PathLoss(p, o)
           /\ t.frontier = Append(s.frontier, o)
           /\ \A x \in Station : x # o => t.label[x] = s.label[x]
  BY VisitFacts
<1> HIDE DEF p, t
<1>2. \A x \in Station : s.label[x] \in 0 .. Unlabelled /\ t.label[x] \in 0 .. Unlabelled
  BY <1>1 DEF Searches, Labels
<1>3. Unlabelled \in Nat /\ Lost \in Nat /\ Lost < Unlabelled
  BY SearchAssumption DEF Unlabelled
<1>4. \A x \in Station : t.label[x] <= s.label[x]
  BY <1>1, <1>2, <1>3, SMTT(30)
<1>5. \A x \in Station : Labelled(s, x) => Labelled(t, x)
  BY <1>2, <1>3, <1>4 DEF Labelled
<1>6. t.label[o] <= PathLoss(p, o)
  BY <1>1, <1>2, <1>3
<1>7. \A x \in Station : In(s.frontier, x) => In(t.frontier, x)
  <2>1. s.frontier \in Seq(Station)
    BY DEF Searches
  <2>2. /\ Len(s.frontier) \in Nat /\ Len(Append(s.frontier, o)) = Len(s.frontier) + 1
        /\ \A i \in 1 .. Len(s.frontier) : Append(s.frontier, o)[i] = s.frontier[i]
    BY <2>1, AppendProperties, LenProperties
  <2>3. ASSUME NEW x \in Station, NEW i \in 1 .. Len(s.frontier), s.frontier[i] = x
        PROVE  In(Append(s.frontier, o), x)
    <3>1. i \in 1 .. Len(Append(s.frontier, o)) /\ Append(s.frontier, o)[i] = x
      BY <2>2, <2>3
    <3> QED BY <3>1, Zenon DEF In
  <2> QED BY <1>1, <2>3 DEF In
<1> QED BY <1>2, <1>4, <1>5, <1>6, <1>7 DEF p, t

(* No path comes back to a station: that station has a better label.        *)
LEMMA TrailAvoids ==
  ASSUME LossTyped, NEW s \in Searches, NEW point \in Sat, NEW o \in Station \ {point},
         NEW w \in Seq(Station), Trail(s, w, point),
         PathLoss(Append(s.path[point], LinkOf(o, point)), o) < s.label[o]
  PROVE  \A i \in 1 .. Len(w) : w[i] # o
<1> DEFINE p == s.path[point]
           l == LinkOf(o, point)
           q == Append(p, l)
<1> SUFFICES ASSUME NEW i \in 1 .. Len(w), w[i] = o PROVE FALSE
  OBVIOUS
<1>1. p \in Seq(Link) /\ p = PathLinks(w) /\ w # <<>> /\ l \in Link
      /\ s.label[o] <= Capped(Totals(p, o)[i - 1])
  BY VisitFacts, LinksFacts, ZenonT(30) DEF Trail
<1>2. Len(w) \in Nat \ {0} /\ Len(p) = Len(w) - 1
  BY <1>1, PathLinksFacts
<1> HIDE DEF p, l
<1>3. q \in Seq(Link) /\ Len(q) = Len(p) + 1 /\ \A j \in 0 .. Len(p) : Totals(q, o)[j] = Totals(p, o)[j]
  BY <1>1, TotalAppend
<1>4. i - 1 \in 0 .. Len(p) /\ i - 1 \in 0 .. Len(q) /\ Len(q) \in (i - 1) .. Len(q) /\ Len(q) \in 0 .. Len(q)
  BY <1>2, <1>3
<1> HIDE DEF q
<1>5. Totals(p, o)[i - 1] = Totals(q, o)[i - 1] /\ Totals(q, o)[i - 1] <= Total(q, o)
  BY <1>3, <1>4, TotalsGrow DEF Total
<1>6. Totals(q, o)[i - 1] \in Nat /\ Total(q, o) \in Nat
  BY <1>3, <1>4, TotalType
<1>7. Capped(Totals(q, o)[i - 1]) <= PathLoss(q, o)
  BY <1>5, <1>6, CappedFacts, PathLossIsTotal
<1>8. Capped(Totals(q, o)[i - 1]) \in Nat /\ PathLoss(q, o) \in Nat
  BY <1>6, CappedFacts, PathLossIsTotal
<1>9. s.label[o] \in Nat
  BY SearchAssumption DEF Searches, Labels, Unlabelled
<1>10. PathLoss(q, o) < s.label[o]
  BY DEF q, p, l
<1>11. s.label[o] <= Capped(Totals(q, o)[i - 1])
  BY <1>1, <1>5
<1> QED BY <1>7, <1>8, <1>9, <1>10, <1>11

LEMMA TrailGoesOn ==
  ASSUME LossTyped, NEW s \in Searches, NEW point \in Sat, NEW o \in Station \ {point},
         NEW w \in Seq(Station), Trail(s, w, point),
         PathLoss(Append(s.path[point], LinkOf(o, point)), o) < s.label[o]
  PROVE  Trail(Visit(s, LinkOf(o, point), point), Append(w, o), o)
<1> DEFINE p == s.path[point]
           l == LinkOf(o, point)
           q == Append(p, l)
           t == Visit(s, l, point)
           n == Len(w)
           v == Append(w, o)
<1>1. p \in Seq(Link) /\ p = PathLinks(w) /\ w # <<>> /\ l \in Link /\ l = LinkOf(point, o)
  BY VisitFacts, LinksFacts DEF Trail
<1>2. /\ n \in Nat \ {0} /\ Len(p) = n - 1
      /\ \A i \in 1 .. n - 1 : p[i] = LinkOf(w[i], w[i + 1])
  BY <1>1, PathLinksFacts
<1>3. /\ t.label[o] = PathLoss(q, o) /\ t.path[o] = q
      /\ \A x \in Station : x # o => t.label[x] = s.label[x]
  BY VisitFacts
<1>4. /\ v \in Seq(Station) /\ Len(v) = n + 1 /\ v # <<>> /\ v[n + 1] = o
      /\ \A i \in 1 .. n : v[i] = w[i] /\ w[i] \in Station
  BY AppendProperties, ElementOfSeq
<1>5. \A i \in 1 .. n : w[i] # o
  BY TrailAvoids
<1>6. /\ w[1] = source /\ w[n] = point
      /\ \A i \in 1 .. n : i < n => w[i] \in Sat
      /\ \A i, j \in 1 .. n : w[i] = w[j] => i = j
      /\ \A i \in 1 .. n : s.label[w[i]] <= Capped(Totals(p, w[i])[i - 1])
  BY DEF Trail
<1> HIDE DEF p, l
<1>7. /\ q \in Seq(Link) /\ Len(q) = n /\ q[n] = l
      /\ \A i \in 1 .. n - 1 : q[i] = p[i]
  BY <1>1, <1>2, AppendProperties
<1>8. \A x : \A i \in 0 .. Len(p) : Totals(q, x)[i] = Totals(p, x)[i]
  BY <1>1, TotalAppend
<1> HIDE DEF q, t, v, n
<1>9. \A i \in 1 .. n + 1 : (i \in 1 .. n /\ i # n + 1) \/ i = n + 1
  BY <1>2
<1>10. v[1] = source /\ v[Len(v)] = o
  BY <1>2, <1>4, <1>6
<1>11. \A i \in 1 .. Len(v) : i < Len(v) => v[i] \in Sat
  <2> SUFFICES ASSUME NEW i \in 1 .. n + 1, i < n + 1 PROVE v[i] \in Sat
    BY <1>4
  <2>1. i \in 1 .. n /\ v[i] = w[i]
    BY <1>2, <1>4
  <2>2. CASE i = n
    BY <2>1, <2>2, <1>6
  <2>3. CASE i # n
    <3>1. i < n
      BY <1>2, <2>1, <2>3
    <3> QED BY <2>1, <3>1, <1>6
  <2> QED BY <2>2, <2>3
<1>12. \A i, j \in 1 .. Len(v) : v[i] = v[j] => i = j
  <2> SUFFICES ASSUME NEW i \in 1 .. n + 1, NEW j \in 1 .. n + 1, v[i] = v[j] PROVE i = j
    BY <1>4
  <2>1. CASE i = n + 1 /\ j # n + 1
    BY <2>1, <1>4, <1>5, <1>9
  <2>2. CASE i # n + 1 /\ j = n + 1
    BY <2>2, <1>4, <1>5, <1>9
  <2>3. CASE i # n + 1 /\ j # n + 1
    BY <2>3, <1>4, <1>6, <1>9
  <2> QED BY <2>1, <2>2, <2>3
<1>13. t.path[o] = PathLinks(v)
  <2>1. ASSUME NEW i \in 1 .. n PROVE q[i] = LinkOf(v[i], v[i + 1])
    <3>1. CASE i = n
      BY <1>1, <1>2, <1>4, <1>6, <1>7, <3>1
    <3>2. CASE i # n
      <4>1. i \in 1 .. n - 1 /\ i + 1 \in 1 .. n
        BY <1>2, <3>2
      <4> QED BY <4>1, <1>2, <1>4, <1>7
    <3> QED BY <3>1, <3>2
  <2>2. Len(v) - 1 = n
    BY <1>2, <1>4
  <2>3. PathLinks(v) = [i \in 1 .. n |-> LinkOf(v[i], v[i + 1])]
    BY <2>2 DEF PathLinks
  <2>4. q = [i \in 1 .. n |-> q[i]]
    BY <1>7, LenProperties
  <2> QED BY <1>3, <2>1, <2>3, <2>4
<1>14. ASSUME NEW i \in 1 .. n + 1
       PROVE  t.label[v[i]] <= Capped(Totals(q, v[i])[i - 1])
  <2>1. CASE i = n + 1
    <3>1. v[i] = o /\ i - 1 = n /\ t.label[o] = PathLoss(q, o)
      BY <1>2, <1>3, <1>4, <2>1
    <3>2. PathLoss(q, o) = Capped(Totals(q, o)[n])
      BY <1>7, PathLossIsTotal DEF Total
    <3>3. Total(q, o) \in Nat
      BY <1>7, TotalType
    <3>4. PathLoss(q, o) \in Nat
      BY <3>3, CappedFacts, PathLossIsTotal
    <3> QED BY <3>1, <3>2, <3>4
  <2>2. CASE i \in 1 .. n
    <3>1. v[i] = w[i] /\ w[i] \in Station /\ w[i] # o
      BY <1>4, <1>5, <2>2
    <3>2. t.label[v[i]] = s.label[w[i]]
      BY <1>3, <3>1
    <3>3. i - 1 \in 0 .. Len(p)
      BY <1>2, <2>2
    <3>4. Totals(q, v[i])[i - 1] = Totals(p, w[i])[i - 1]
      BY <1>8, <3>1, <3>3
    <3> QED BY <1>6, <2>2, <3>2, <3>4
  <2> QED BY <1>9, <2>1, <2>2
<1>15. \A i \in 1 .. Len(v) : t.label[v[i]] <= Capped(Totals(t.path[o], v[i])[i - 1])
  BY <1>3, <1>4, <1>14
<1>16. Trail(t, v, o)
  BY <1>4, <1>10, <1>11, <1>12, <1>13, <1>15 DEF Trail
<1> QED BY <1>16 DEF t, l, v

LEMMA TrailsKept ==
  ASSUME LossTyped, NEW s \in Searches, NEW point \in Sat, NEW o \in Station \ {point},
         Labelled(s, point), Trails(s)
  PROVE  Trails(Visit(s, LinkOf(o, point), point))
<1> DEFINE l == LinkOf(o, point)
           q == Append(s.path[point], l)
           t == Visit(s, l, point)
<1>1. /\ ~ PathLoss(q, o) < s.label[o] => t = s
      /\ PathLoss(q, o) < s.label[o] =>
           \A x \in Station : x # o => t.label[x] = s.label[x] /\ t.path[x] = s.path[x]
  BY VisitFacts
<1>2. \A x \in Station :
        s.label[x] \in 0 .. Unlabelled /\ t.label[x] \in 0 .. Unlabelled /\ t.label[x] <= s.label[x]
  BY VisitImproves
<1>3. CASE ~ PathLoss(q, o) < s.label[o]
  BY <1>1, <1>3
<1>4. CASE PathLoss(q, o) < s.label[o]
  <2>1. point \in Station
    BY LinksFacts
  <2>2. PICK w \in Seq(Station) : Trail(s, w, point)
    BY <2>1 DEF Trails
  <2>3. Append(w, o) \in Seq(Station) /\ Trail(t, Append(w, o), o)
    BY <1>4, <2>2, TrailGoesOn, AppendProperties
  <2> HIDE DEF t, q
  <2>4. ASSUME NEW x \in Station, x # o, Labelled(t, x)
        PROVE  \E v \in Seq(Station) : Trail(t, v, x)
    <3>1. t.label[x] = s.label[x] /\ t.path[x] = s.path[x]
      BY <1>1, <1>4, <2>4
    <3>2. PICK v \in Seq(Station) : Trail(s, v, x)
      BY <2>4, <3>1 DEF Trails, Labelled
    <3>3. s.path[x] \in Seq(Link)
      BY DEF Searches, Paths
    <3>4. /\ v # <<>> /\ s.path[x] = PathLinks(v)
          /\ \A i \in 1 .. Len(v) : s.label[v[i]] <= Capped(Totals(s.path[x], v[i])[i - 1])
      BY <3>2 DEF Trail
    <3>5. Len(v) \in Nat \ {0} /\ Len(s.path[x]) = Len(v) - 1
      BY <3>3, <3>4, PathLinksFacts
    <3>6. ASSUME NEW i \in 1 .. Len(v)
          PROVE  t.label[v[i]] <= Capped(Totals(t.path[x], v[i])[i - 1])
      <4> DEFINE c == Capped(Totals(s.path[x], v[i])[i - 1])
      <4>1. i - 1 \in 0 .. Len(s.path[x])
        BY <3>5
      <4>2. Totals(s.path[x], v[i])[i - 1] \in Nat
        BY <3>3, <4>1, TotalType
      <4>3. c \in Nat
        BY <4>2, CappedFacts
      <4>4. v[i] \in Station
        BY ElementOfSeq
      <4>5. s.label[v[i]] <= c /\ t.label[v[i]] <= s.label[v[i]]
            /\ s.label[v[i]] \in Nat /\ t.label[v[i]] \in Nat
        BY <1>2, <3>4, <4>4, SearchAssumption DEF Unlabelled
      <4>6. t.label[v[i]] <= c
        <5> HIDE DEF c
        <5> QED BY <4>3, <4>5
      <4> QED BY <3>1, <4>6
    <3>7. Trail(t, v, x)
      BY <3>1, <3>2, <3>6 DEF Trail
    <3> QED BY <3>7
  <2>5. Trails(t)
    BY <2>3, <2>4 DEF Trails
  <2> QED BY <2>5 DEF t
<1> QED BY <1>3, <1>4

LEMMA MarkedKept ==
  ASSUME LossTyped, dest \in Station,
         NEW s \in Searches, NEW point \in Sat, NEW o \in Station \ {point},
         Marked(s), Awaited(s)
  PROVE  LET t == Visit(s, LinkOf(o, point), point)
         IN Marked(t) /\ Awaited(t)
<1> DEFINE l == LinkOf(o, point)
           q == Append(s.path[point], l)
           t == Visit(s, l, point)
<1>1. /\ PathLoss(q, o) \in 0 .. Lost
      /\ ~ PathLoss(q, o) < s.label[o] => t = s
      /\ PathLoss(q, o) < s.label[o] =>
           /\ t.label[o] = PathLoss(q, o)
           /\ t.frontier = Append(s.frontier, o)
           /\ \A x \in Station : x # o => t.label[x] = s.label[x]
  BY VisitFacts
<1>2. \A x \in Station : Labelled(s, x) => Labelled(t, x)
  BY VisitImproves
<1>3. CASE ~ PathLoss(q, o) < s.label[o]
  BY <1>1, <1>3
<1>4. CASE PathLoss(q, o) < s.label[o]
  <2> DEFINE f == s.frontier
             n == Len(f)
  <2>1. /\ f \in Seq(Station) /\ n \in Nat /\ \A i \in 1 .. n : f[i] \in Station
    BY LenProperties, ElementOfSeq DEF Searches
  <2>2. /\ Len(t.frontier) = n + 1 /\ t.frontier[n + 1] = o
        /\ \A i \in 1 .. n : t.frontier[i] = f[i]
    <3> DEFINE g == Append(f, o)
    <3>1. t.frontier = g
      BY <1>1, <1>4
    <3>2. Len(g) = n + 1 /\ g[n + 1] = o /\ \A i \in 1 .. n : g[i] = f[i]
      <4> HIDE DEF f
      <4> QED BY <2>1, AppendProperties
    <3> HIDE DEF g, t
    <3> QED BY <3>1, <3>2
  <2>3. Labelled(t, o)
    BY <1>1, <1>4, SearchAssumption DEF Labelled, Unlabelled
  <2> HIDE DEF t, q, n
  <2>4. \A i \in 1 .. n + 1 : i \in 1 .. n \/ i = n + 1
    BY <2>1
  <2>5. Marked(t)
    BY <1>2, <2>1, <2>2, <2>3, <2>4 DEF Marked, n
  <2>6. Awaited(t)
    <3>1. CASE dest = o
      <4>1. n + 1 \in 1 .. n + 1
        BY <2>1
      <4> QED BY <2>2, <3>1, <4>1 DEF Awaited, In
    <3>2. CASE dest # o
      <4>1. Labelled(t, dest) => Labelled(s, dest)
        BY <1>1, <1>4, <3>2 DEF Labelled
      <4>2. \A i \in 1 .. n : i \in 1 .. n + 1
        BY <2>1
      <4> QED BY <2>2, <4>1, <4>2 DEF Awaited, In, n
    <3> QED BY <3>1, <3>2
  <2> QED BY <2>5, <2>6 DEF t
<1> QED BY <1>3, <1>4

-----------------------------------------------------------------------------
(* An iteration at a satellite.                                             *)
Now == [label |-> label, path |-> path, frontier |-> frontier]

(* The directions of every link are equally good.                           *)
Equal == \A l \in Link, x, y \in Station : LossSeenBy(l, x) = LossSeenBy(l, y)

(* A satellite that does not wait in the frontier has told its neighbours.  *)
Settled(s, x) ==
  Labelled(s, x) /\ ~ In(s.frontier, x) =>
    \A o \in Station \ {x} :
      s.label[o] <= Capped(s.label[x] + LossSeenBy(LinkOf(o, x), o))

Better(s) == \A st \in Station : s.label[st] <= label[st]

Moved(s) ==
  \/ s.label = label /\ s.frontier = Tail(frontier)
  \/ \E st \in Station : s.label[st] < label[st]

Told(s, point, k) ==
  \A j \in 1 .. k, o \in Station \ {point} :
    LinksOf(point)[j] = LinkOf(o, point) =>
      s.label[o] <= PathLoss(Append(path[point], LinkOf(o, point)), o)

Within(s, point, k) ==
  /\ Matched(s) /\ Trails(s) /\ Marked(s) /\ Awaited(s)
  /\ s.label[point] = label[point] /\ s.path[point] = path[point]
  /\ Better(s) /\ Moved(s)
  /\ Equal => \A x \in Sat \ {point} : Settled(s, x)
  /\ Told(s, point, k)

LEMMA SettledKept ==
  ASSUME LossTyped, NEW s \in Searches, NEW point \in Sat, NEW o \in Station \ {point},
         NEW x \in Sat, Settled(s, x)
  PROVE  Settled(Visit(s, LinkOf(o, point), point), x)
<1> DEFINE l == LinkOf(o, point)
           q == Append(s.path[point], l)
           t == Visit(s, l, point)
<1>1. /\ ~ PathLoss(q, o) < s.label[o] => t = s
      /\ PathLoss(q, o) < s.label[o] =>
           /\ t.frontier = Append(s.frontier, o)
           /\ \A y \in Station : y # o => t.label[y] = s.label[y]
  BY VisitFacts
<1>2. /\ \A y \in Station :
           s.label[y] \in 0 .. Unlabelled /\ t.label[y] \in 0 .. Unlabelled /\ t.label[y] <= s.label[y]
      /\ \A y \in Station : In(s.frontier, y) => In(t.frontier, y)
  BY VisitImproves
<1>3. CASE ~ PathLoss(q, o) < s.label[o]
  BY <1>1, <1>3
<1>4. CASE PathLoss(q, o) < s.label[o]
  <2>1. x \in Station
    BY LinksFacts
  <2>2. s.frontier \in Seq(Station)
    BY DEF Searches
  <2>3. In(t.frontier, o)
    <3>1. /\ Len(Append(s.frontier, o)) = Len(s.frontier) + 1 /\ Len(s.frontier) \in Nat
          /\ Append(s.frontier, o)[Len(s.frontier) + 1] = o
      BY <2>2, AppendProperties, LenProperties
    <3>2. Len(s.frontier) + 1 \in 1 .. Len(Append(s.frontier, o))
      BY <3>1
    <3> QED BY <1>1, <1>4, <3>1, <3>2 DEF In
  <2> HIDE DEF t, q
  <2>4. ASSUME Labelled(t, x), ~ In(t.frontier, x), NEW y \in Station \ {x}
        PROVE  t.label[y] <= Capped(t.label[x] + LossSeenBy(LinkOf(y, x), y))
    <3>1. x # o /\ t.label[x] = s.label[x] /\ Labelled(s, x) /\ ~ In(s.frontier, x)
      BY <1>1, <1>2, <1>4, <2>1, <2>3, <2>4 DEF Labelled
    <3> DEFINE a == s.label[x] + LossSeenBy(LinkOf(y, x), y)
    <3>2. s.label[y] <= Capped(a)
      BY <3>1 DEF Settled
    <3>3. LossSeenBy(LinkOf(y, x), y) \in Nat
      BY LinksFacts, SeenFacts
    <3>4. Unlabelled \in Nat
      BY SearchAssumption DEF Unlabelled
    <3>5. s.label[x] \in Nat /\ s.label[y] \in Nat /\ t.label[y] \in Nat /\ t.label[y] <= s.label[y]
      BY <1>2, <2>1, <3>4
    <3>6. Capped(a) \in Nat
      <4>1. a \in Nat
        BY <3>3, <3>5
      <4> HIDE DEF a
      <4> QED BY <4>1, CappedFacts
    <3>7. t.label[y] <= Capped(a)
      <4> HIDE DEF a
      <4> QED BY <3>2, <3>5, <3>6
    <3> QED BY <3>1, <3>7
  <2>5. Settled(t, x)
    BY <2>4 DEF Settled
  <2> QED BY <2>5 DEF t
<1> QED BY <1>3, <1>4

LEMMA WithinKept ==
  ASSUME SearchTyped, NEW point \in Sat, NEW s \in Searches, NEW o \in Station \ {point},
         NEW k \in 1 .. NumGround + NumSat - 1,
         LinksOf(point)[k] = LinkOf(o, point), Labelled(s, point), Within(s, point, k - 1)
  PROVE  Within(Visit(s, LinkOf(o, point), point), point, k)
<1> DEFINE l == LinkOf(o, point)
           q == Append(s.path[point], l)
           t == Visit(s, l, point)
<1>1. /\ LossTyped /\ dest \in Station /\ point \in Station /\ k \in Nat
      /\ \A x \in Station : label[x] \in 0 .. Unlabelled
      /\ Unlabelled \in Nat
  BY LinksFacts, SearchAssumption DEF SearchTyped, Station, Labels, Unlabelled
<1>2. /\ ~ PathLoss(q, o) < s.label[o] => t = s
      /\ PathLoss(q, o) < s.label[o] =>
           /\ t.label[o] = PathLoss(q, o)
           /\ \A y \in Station : y # o => t.label[y] = s.label[y] /\ t.path[y] = s.path[y]
  BY <1>1, VisitFacts
<1>3. /\ \A y \in Station :
           s.label[y] \in 0 .. Unlabelled /\ t.label[y] \in 0 .. Unlabelled /\ t.label[y] <= s.label[y]
      /\ t.label[o] <= PathLoss(q, o)
  BY <1>1, VisitImproves
<1>4. Matched(t) /\ Trails(t) /\ Marked(t) /\ Awaited(t)
  BY <1>1, MatchedKept, TrailsKept, MarkedKept DEF Within
<1>5. Equal => \A x \in Sat \ {point} : Settled(t, x)
  BY <1>1, SettledKept DEF Within
<1>6. s.label[point] = label[point] /\ s.path[point] = path[point] /\ Better(s) /\ Moved(s) /\ Told(s, point, k - 1)
  BY DEF Within
<1>7. q = Append(path[point], l)
  BY <1>6
<1> HIDE DEF t, q
<1>8. t.label[point] = label[point] /\ t.path[point] = path[point]
  BY <1>1, <1>2, <1>6
<1>9. Better(t)
  BY <1>1, <1>3, <1>6 DEF Better
<1>10. Moved(t)
  <2>1. CASE ~ PathLoss(q, o) < s.label[o]
    BY <1>2, <1>6, <2>1
  <2>2. CASE PathLoss(q, o) < s.label[o]
    <3>1. t.label[o] < label[o]
      BY <1>1, <1>2, <1>3, <1>6, <2>2 DEF Better
    <3> QED BY <3>1 DEF Moved
  <2> QED BY <2>1, <2>2
<1>11. Told(t, point, k)
  <2> SUFFICES ASSUME NEW j \in 1 .. k, NEW y \in Station \ {point},
                      LinksOf(point)[j] = LinkOf(y, point)
               PROVE  t.label[y] <= PathLoss(Append(path[point], LinkOf(y, point)), y)
    BY DEF Told
  <2> DEFINE c == PathLoss(Append(path[point], LinkOf(y, point)), y)
  <2>1. c \in Nat
    <3>1. path[point] \in Seq(Link) /\ LinkOf(y, point) \in Link
      BY <1>1, LinksFacts DEF SearchTyped, Paths
    <3>2. Append(path[point], LinkOf(y, point)) \in Seq(Link)
      BY <1>1, <3>1, TotalAppend
    <3>3. Total(Append(path[point], LinkOf(y, point)), y) \in Nat
      BY <1>1, <3>2, TotalType
    <3> QED BY <3>3, PathLossIsTotal, CappedFacts
  <2>2. CASE j = k
    <3>1. LinkOf(y, point) = LinkOf(o, point)
      BY <2>2
    <3>2. OtherStation(LinkOf(y, point), point) = y /\ OtherStation(LinkOf(o, point), point) = o
      BY LinksFacts
    <3>3. y = o
      BY <3>1, <3>2
    <3> QED BY <1>3, <1>7, <3>3
  <2>3. CASE j # k
    <3>1. j \in 1 .. k - 1
      BY <1>1, <2>3
    <3>2. s.label[y] <= c
      BY <1>6, <3>1 DEF Told
    <3> HIDE DEF c
    <3>3. t.label[y] <= c
      BY <1>1, <1>3, <2>1, <3>2
    <3> QED BY <3>3 DEF c
  <2> QED BY <2>2, <2>3
<1>12. Within(t, point, k)
  BY <1>4, <1>5, <1>8, <1>9, <1>10, <1>11 DEF Within
<1> QED BY <1>12 DEF t

(* The inductive invariant.                                                 *)
SearchInv ==
  /\ SearchTyped
  /\ Matched(Now) /\ Trails(Now) /\ Marked(Now)
  /\ label[source] = 0
  /\ Ordered(label, frontier)
  /\ Equal => \A x \in Sat : Settled(Now, x)
  /\ outcome = "searching" =>
       Awaited(Now) /\ (label[dest] # Unlabelled \/ frontier = <<source>>)
  /\ outcome # "searching" =>
       outcome = "found" /\ frontier # <<>> /\ Head(frontier) = dest

LEMMA NowFacts ==
  /\ Now.label = label /\ Now.path = path /\ Now.frontier = frontier
  /\ Begun.label = label /\ Begun.path = path /\ Begun.frontier = Tail(frontier)
BY DEF Now, Begun

(* The frontier after its first station has been taken.                     *)
LEMMA RestFacts ==
  ASSUME frontier \in Seq(Station), frontier # <<>>
  PROVE  /\ Head(frontier) \in Station /\ Tail(frontier) \in Seq(Station)
         /\ Len(Tail(frontier)) = Len(frontier) - 1 /\ Len(frontier) \in Nat \ {0}
         /\ frontier[1] = Head(frontier)
         /\ \A i \in 1 .. Len(frontier) - 1 : Tail(frontier)[i] = frontier[i + 1]
         /\ \A x : x # Head(frontier) => (In(frontier, x) <=> In(Tail(frontier), x))
<1>1. /\ Head(frontier) \in Station /\ Tail(frontier) \in Seq(Station)
      /\ Len(Tail(frontier)) = Len(frontier) - 1 /\ Len(frontier) \in Nat \ {0}
      /\ frontier[1] = Head(frontier)
      /\ \A i \in 1 .. Len(frontier) - 1 : Tail(frontier)[i] = frontier[i + 1]
  BY HeadTailProperties, EmptySeq
<1>2. ASSUME NEW x, x # Head(frontier), In(frontier, x) PROVE In(Tail(frontier), x)
  <2>1. PICK i \in 1 .. Len(frontier) : frontier[i] = x
    BY <1>2 DEF In
  <2>2. i # 1
    BY <1>1, <1>2, <2>1
  <2>3. i - 1 \in 1 .. Len(frontier) - 1 /\ (i - 1) + 1 = i
    BY <1>1, <2>1, <2>2
  <2>4. Tail(frontier)[i - 1] = x
    BY <1>1, <2>1, <2>3
  <2> QED BY <1>1, <2>3, <2>4 DEF In
<1>3. ASSUME NEW x, In(Tail(frontier), x) PROVE In(frontier, x)
  <2>1. PICK i \in 1 .. Len(frontier) - 1 : Tail(frontier)[i] = x
    BY <1>1, <1>3 DEF In
  <2>2. i + 1 \in 1 .. Len(frontier)
    BY <1>1, <2>1
  <2> QED BY <1>1, <2>1, <2>2 DEF In
<1> QED BY <1>1, <1>2, <1>3

LEMMA HeadLabelled ==
  ASSUME SearchInv, frontier # <<>>
  PROVE  label[Head(frontier)] # Unlabelled
<1>1. frontier \in Seq(Station)
  BY DEF SearchInv, SearchTyped
<1>2. 1 \in 1 .. Len(frontier) /\ frontier[1] = Head(frontier)
  BY <1>1, RestFacts
<1> QED BY <1>2, NowFacts DEF SearchInv, Marked, Labelled

LEMMA WithinBegun ==
  ASSUME SearchInv, Searching, Head(frontier) \in Sat
  PROVE  Within(Begun, Head(frontier), 0)
<1> DEFINE point == Head(frontier)
<1>1. /\ SearchTyped /\ frontier \in Seq(Station) /\ frontier # <<>> /\ point # dest
      /\ Matched(Now) /\ Trails(Now) /\ Marked(Now) /\ Awaited(Now)
      /\ Equal => \A x \in Sat : Settled(Now, x)
  BY DEF SearchInv, SearchTyped, Searching
<1>2. /\ Len(Tail(frontier)) = Len(frontier) - 1 /\ Len(frontier) \in Nat \ {0}
      /\ \A i \in 1 .. Len(frontier) - 1 : Tail(frontier)[i] = frontier[i + 1]
      /\ \A x : x # point => (In(frontier, x) <=> In(Tail(frontier), x))
  BY <1>1, RestFacts
<1> HIDE DEF point
<1>3. Matched(Begun)
  BY <1>1, NowFacts DEF Matched, Labelled
<1>4. Trails(Begun)
  BY <1>1, NowFacts, SMTT(30) DEF Trails, Trail, Labelled
<1>5. Marked(Begun)
  <2> SUFFICES ASSUME NEW i \in 1 .. Len(Tail(frontier)) PROVE label[Tail(frontier)[i]] # Unlabelled
    BY NowFacts DEF Marked, Labelled
  <2>1. i + 1 \in 1 .. Len(frontier) /\ Tail(frontier)[i] = frontier[i + 1]
    BY <1>2
  <2> QED BY <1>1, <2>1, NowFacts DEF Marked, Labelled
<1>6. Awaited(Begun)
  BY <1>1, <1>2, NowFacts DEF Awaited, Labelled
<1>7. Equal => \A x \in Sat \ {point} : Settled(Begun, x)
  BY <1>1, <1>2, NowFacts DEF Settled, Labelled
<1>8. Better(Begun) /\ Moved(Begun)
  <2>1. \A x \in Station : label[x] \in Nat
    BY <1>1, SearchAssumption DEF SearchTyped, Labels, Unlabelled
  <2> QED BY <2>1, NowFacts DEF Better, Moved
<1>9. Told(Begun, point, 0)
  BY DEF Told
<1>10. Within(Begun, point, 0)
  BY <1>3, <1>4, <1>5, <1>6, <1>7, <1>8, <1>9, NowFacts DEF Within
<1> QED BY <1>10 DEF point

LEMMA AfterIteration ==
  ASSUME SearchInv, Searching, Head(frontier) \in Sat
  PROVE  /\ Explored(Head(frontier)) \in Searches
         /\ Within(Explored(Head(frontier)), Head(frontier), NumGround + NumSat - 1)
<1> DEFINE point == Head(frontier)
           n == NumGround + NumSat - 1
           G == [k \in 0 .. n |-> {s \in Searches : Within(s, point, k)}]
<1>1. SearchTyped /\ frontier # <<>> /\ point \in Sat /\ label[point] # Unlabelled
  BY HeadLabelled DEF SearchInv, Searching
<1>2. Within(Begun, point, 0)
  BY WithinBegun
<1>3. Begun \in Searches /\ n \in Nat
  BY <1>1, ExploringFacts, LinksFacts
<1> HIDE DEF point
<1>4. G \in [0 .. n -> SUBSET Searches]
  OBVIOUS
<1>5. \A k \in 0 .. n : \A s : s \in G[k] <=> s \in Searches /\ Within(s, point, k)
  OBVIOUS
<1> HIDE DEF G
<1>6. Begun \in G[0]
  BY <1>2, <1>3, <1>5
<1>7. ASSUME NEW k \in 1 .. n, NEW s \in G[k - 1], NEW o \in Station \ {point},
             LinksOf(point)[k] = LinkOf(o, point)
      PROVE  Visit(s, LinkOf(o, point), point) \in G[k]
  <2>1. k \in 0 .. n /\ k - 1 \in 0 .. n
    BY <1>3
  <2>2. s \in Searches /\ Within(s, point, k - 1)
    BY <1>5, <1>7, <2>1
  <2>3. Labelled(s, point)
    BY <1>1, <2>2 DEF Within, Labelled
  <2>4. Within(Visit(s, LinkOf(o, point), point), point, k)
    BY <1>1, <1>7, <2>2, <2>3, WithinKept
  <2>5. Visit(s, LinkOf(o, point), point) \in Searches
    BY <1>1, <2>2, VisitFacts DEF SearchTyped
  <2> QED BY <1>5, <2>1, <2>4, <2>5
<1>8. Explored(point) \in G[n]
  BY <1>1, <1>4, <1>6, <1>7, Exploration
<1>9. n \in 0 .. n
  BY <1>3
<1> QED BY <1>5, <1>8, <1>9 DEF point

(* Where the directions of a link are equal, a path loses the same whoever  *)
(* asks.                                                                    *)
LEMMA EqualTotals ==
  ASSUME LossTyped, Equal, NEW p \in Seq(Link), NEW x \in Station, NEW y \in Station
  PROVE  /\ \A i \in 0 .. Len(p) : Totals(p, x)[i] = Totals(p, y)[i]
         /\ Total(p, x) = Total(p, y)
<1> DEFINE n == Len(p)
           T == {j \in 0 .. n : Totals(p, x)[j] # Totals(p, y)[j]}
<1>1. /\ n \in Nat
      /\ \A j \in 1 .. n : p[j] \in Link
      /\ \A st : /\ Totals(p, st)[0] = 0
                 /\ \A j \in 1 .. n : Totals(p, st)[j] = Totals(p, st)[j - 1] + LossSeenBy(p[j], st)
  BY TotalsFacts, LenProperties, ElementOfSeq
<1>2. T = {}
  <2>1. SUFFICES ASSUME T # {} PROVE FALSE
    OBVIOUS
  <2>2. PICK j \in T : \A m \in T : j <= m
    <3>1. T \in SUBSET Nat
      OBVIOUS
    <3> HIDE DEF T
    <3> QED BY <2>1, <3>1, LeastNatural
  <2>3. j \in 0 .. n /\ Totals(p, x)[j] # Totals(p, y)[j]
    BY <2>2
  <2>4. j # 0
    BY <1>1, <2>3
  <2>5. j \in 1 .. n /\ j - 1 \in 0 .. n /\ ~ (j <= j - 1)
    BY <1>1, <2>3, <2>4
  <2>6. Totals(p, x)[j - 1] = Totals(p, y)[j - 1]
    BY <2>2, <2>5
  <2>7. LossSeenBy(p[j], x) = LossSeenBy(p[j], y)
    BY <1>1, <2>5 DEF Equal
  <2>8. /\ Totals(p, x)[j] = Totals(p, x)[j - 1] + LossSeenBy(p[j], x)
        /\ Totals(p, y)[j] = Totals(p, y)[j - 1] + LossSeenBy(p[j], y)
    BY <1>1, <2>5
  <2> QED BY <2>3, <2>6, <2>7, <2>8
<1>3. n \in 0 .. n
  BY <1>1
<1> QED BY <1>2, <1>3 DEF Total

(* The satellite of an iteration has told all its neighbours.               *)
LEMMA PointSettled ==
  ASSUME SearchInv, Searching, Head(frontier) \in Sat, Equal
  PROVE  Settled(Explored(Head(frontier)), Head(frontier))
<1> DEFINE point == Head(frontier)
           e == Explored(point)
           n == NumGround + NumSat - 1
<1>1. /\ SearchTyped /\ LossTyped /\ point \in Sat /\ point \in Station
      /\ label[point] # Unlabelled /\ Matched(Now)
      /\ path[point] \in Seq(Link)
  BY HeadLabelled, LinksFacts DEF SearchInv, SearchTyped, Searching, Paths
<1>2. e.label[point] = label[point] /\ Told(e, point, n)
  BY AfterIteration DEF Within
<1> HIDE DEF point, e
<1>3. ASSUME NEW o \in Station \ {point}
      PROVE  e.label[o] <= Capped(label[point] + LossSeenBy(LinkOf(o, point), o))
  <2> DEFINE l == LinkOf(o, point)
             p == path[point]
  <2>1. l \in Link /\ \E j \in 1 .. n : LinksOf(point)[j] = l
    BY <1>1, LinksFacts
  <2> HIDE DEF l
  <2>2. e.label[o] <= PathLoss(Append(p, l), o)
    BY <1>2, <2>1 DEF Told, l
  <2>3. Total(Append(p, l), o) = Total(p, o) + LossSeenBy(l, o)
    BY <1>1, <2>1, TotalAppend
  <2>4. Total(p, o) = Total(p, point)
    BY <1>1, EqualTotals
  <2>5. label[point] = Capped(Total(p, point))
    BY <1>1, NowFacts, PathLossIsTotal DEF Matched, Labelled
  <2>6. Total(p, point) \in Nat /\ LossSeenBy(l, o) \in Nat
    BY <1>1, <2>1, TotalType, SeenFacts
  <2>7. PathLoss(Append(p, l), o) = Capped(Total(p, point) + LossSeenBy(l, o))
    BY <2>3, <2>4, PathLossIsTotal
  <2> HIDE DEF p
  <2>8. PathLoss(Append(p, l), o) = Capped(label[point] + LossSeenBy(l, o))
    BY <2>5, <2>6, <2>7, CappedFacts
  <2> QED BY <2>2, <2>8 DEF l
<1>4. Settled(e, point)
  BY <1>2, <1>3 DEF Settled
<1> QED BY <1>4 DEF e, point

-----------------------------------------------------------------------------
LEMMA ProblemKept ==
  ASSUME UNCHANGED problem
  PROVE  /\ loss' = loss /\ source' = source /\ dest' = dest
         /\ \A l, st : LossSeenBy(l, st)' = LossSeenBy(l, st)
         /\ \A p, st : Totals(p, st)' = Totals(p, st)
         /\ \A p, st : PathLoss(p, st)' = PathLoss(p, st)
         /\ Equal' <=> Equal
         /\ LossTyped' <=> LossTyped
<1>1. loss' = loss /\ source' = source /\ dest' = dest
  BY DEF problem
<1>2. \A l, st : LossSeenBy(l, st)' = LossSeenBy(l, st)
  BY <1>1 DEF LossSeenBy
<1>3. \A f, p, st : IsTotal(f, p, st)' <=> IsTotal(f, p, st)
  BY <1>2 DEF IsTotal
<1>4. \A p, st : Totals(p, st)' = Totals(p, st)
  BY <1>3 DEF Totals
<1>5. \A p, st : Total(p, st)' = Total(p, st)
  BY <1>4 DEF Total
<1>6. \A p, st : PathLoss(p, st)' = PathLoss(p, st)
  <2>1. \A p, st : PathLoss(p, st)' = Capped(Total(p, st)')
    BY <1>1 DEF PathLoss, Total, Totals, IsTotal
  <2> QED BY <1>5, <2>1, PathLossIsTotal
<1>7. Equal' <=> Equal
  BY <1>2 DEF Equal
<1>8. LossTyped' <=> LossTyped
  BY <1>1 DEF LossTyped
<1> QED BY <1>1, <1>2, <1>4, <1>6, <1>7, <1>8

(* The state a step leads to, given by what an iteration ends with and an   *)
(* order of its frontier.                                                   *)
LEMMA StateAfter ==
  ASSUME SearchTyped, UNCHANGED problem, NEW s \in Searches,
         label' = s.label, path' = s.path, frontier' \in Seq(Station),
         SameStations(frontier', s.frontier),
         Matched(s), Trails(s), Marked(s)
  PROVE  /\ SearchTyped'
         /\ Matched(Now)' /\ Trails(Now)' /\ Marked(Now)'
         /\ Awaited(s) => Awaited(Now)'
         /\ \A x \in Sat : Settled(s, x) => Settled(Now, x)'
<1>1. /\ loss' = loss /\ source' = source /\ dest' = dest
      /\ \A l, st : LossSeenBy(l, st)' = LossSeenBy(l, st)
      /\ \A p, st : Totals(p, st)' = Totals(p, st)
      /\ \A p, st : PathLoss(p, st)' = PathLoss(p, st)
      /\ LossTyped' <=> LossTyped
  BY ProblemKept
<1>2. Now'.label = s.label /\ Now'.path = s.path /\ Now'.frontier = frontier'
  BY DEF Now
<1>3. SearchTyped'
  BY <1>1 DEF SearchTyped, Searches
<1>4. \A x : In(s.frontier, x) <=> In(frontier', x)
  <2>1. \A x : In(s.frontier, x) => In(frontier', x)
    BY DEF In, SameStations
  <2>2. \A x : In(frontier', x) => In(s.frontier, x)
    BY DEF In, SameStations
  <2> QED BY <2>1, <2>2
<1>5. \A st : Labelled(Now, st)' <=> Labelled(s, st)
  BY <1>2 DEF Labelled
<1>6. Matched(Now)'
  BY <1>1, <1>2, <1>5 DEF Matched
<1>7. Trails(Now)'
  <2>1. \A w, st : Trail(s, w, st) => Trail(Now, w, st)'
    BY <1>1, <1>2 DEF Trail
  <2> QED BY <1>5, <2>1 DEF Trails
<1>8. Marked(Now)'
  <2>1. \A i \in 1 .. Len(frontier') : \E j \in 1 .. Len(s.frontier) : frontier'[i] = s.frontier[j]
    BY DEF SameStations
  <2> QED BY <1>2, <1>5, <2>1 DEF Marked
<1>9. Awaited(s) => Awaited(Now)'
  BY <1>1, <1>2, <1>4, <1>5 DEF Awaited
<1>10. \A x \in Sat : Settled(s, x) => Settled(Now, x)'
  BY <1>1, <1>2, <1>4, <1>5 DEF Settled
<1> QED BY <1>3, <1>6, <1>7, <1>8, <1>9, <1>10

LEMMA ExpandKeeps ==
  ASSUME SearchInv, Expand
  PROVE  SearchInv'
<1> DEFINE point == Head(frontier)
           e == Explored(point)
           n == NumGround + NumSat - 1
<1>1. /\ SearchTyped /\ Searching /\ point \in Sat /\ UNCHANGED problem /\ outcome' = outcome
      /\ outcome = "searching" /\ point # dest /\ frontier # <<>>
      /\ label' = e.label /\ path' = e.path /\ frontier' = SortedBy(e.label, e.frontier)
  BY DEF SearchInv, Expand, Searching
<1>2. e \in Searches /\ Within(e, point, n)
  BY <1>1, AfterIteration
<1>3. Equal => \A x \in Sat : Settled(e, x)
  BY <1>1, <1>2, PointSettled DEF Within
<1>4. /\ Matched(e) /\ Trails(e) /\ Marked(e) /\ Awaited(e) /\ Better(e) /\ Told(e, point, n)
  BY <1>2 DEF Within
<1>5. /\ frontier' \in Seq(Station) /\ SameStations(frontier', e.frontier)
      /\ Ordered(e.label, frontier')
  BY <1>1, <1>2, SortedByFacts DEF Searches
<1> HIDE DEF e
<1>6. /\ SearchTyped'
      /\ Matched(Now)' /\ Trails(Now)' /\ Marked(Now)' /\ Awaited(Now)'
      /\ \A x \in Sat : Settled(e, x) => Settled(Now, x)'
  BY <1>1, <1>2, <1>4, <1>5, StateAfter
<1>7. Equal' => \A x \in Sat : Settled(Now, x)'
  BY <1>1, <1>3, <1>6, ProblemKept
<1>8. Ordered(label, frontier)'
  BY <1>1, <1>5 DEF Ordered
<1>9. /\ \A x \in Station : label[x] \in 0 .. Unlabelled /\ label'[x] \in 0 .. Unlabelled
      /\ \A x \in Station : label'[x] <= label[x]
      /\ Unlabelled \in Nat
      /\ source' = source /\ dest' = dest /\ source \in Station /\ dest \in Station
  BY <1>1, <1>4, <1>6, ProblemKept, SearchAssumption, SMTT(30)
     DEF SearchTyped, Labels, Better, Unlabelled, Station
<1>10. label'[source'] = 0
  BY <1>9 DEF SearchInv
<1>11. label'[dest'] # Unlabelled
  <2>1. CASE label[dest] # Unlabelled
    BY <1>9, <2>1
  <2>2. CASE frontier = <<source>>
    <3>1. dest \in Station \ {point}
      BY <1>1, <1>9
    <3>2. PICK k \in 1 .. n : LinksOf(point)[k] = LinkOf(dest, point)
      BY <1>1, <3>1, LinksFacts
    <3> DEFINE q == Append(path[point], LinkOf(dest, point))
    <3>3. label'[dest] <= PathLoss(q, dest)
      BY <1>1, <1>4, <3>1, <3>2 DEF Told
    <3>4. LossTyped /\ path[point] \in Seq(Link) /\ LinkOf(dest, point) \in Link
      BY <1>1, <3>1, LinksFacts DEF SearchTyped, Paths
    <3>5. q \in Seq(Link)
      BY <3>4, TotalAppend
    <3> HIDE DEF q
    <3>6. Total(q, dest) \in Nat
      BY <3>4, <3>5, TotalType
    <3>7. PathLoss(q, dest) < Unlabelled /\ PathLoss(q, dest) \in Nat
      BY <3>6, CappedFacts, PathLossIsTotal
    <3> QED BY <1>9, <3>3, <3>7
  <2> QED BY <1>1, <2>1, <2>2 DEF SearchInv
<1> QED BY <1>1, <1>6, <1>7, <1>8, <1>10, <1>11 DEF SearchInv

LEMMA SkipKeeps ==
  ASSUME SearchInv, Skip
  PROVE  SearchInv'
<1>1. /\ SearchTyped /\ Searching /\ Head(frontier) \in Ground /\ UNCHANGED problem
      /\ outcome' = outcome /\ outcome = "searching" /\ Head(frontier) # dest /\ frontier # <<>>
      /\ label' = label /\ path' = path /\ frontier' = Tail(frontier)
      /\ frontier \in Seq(Station) /\ source \in Sat /\ dest \in Sat
      /\ label \in Labels /\ path \in Paths
  BY DEF SearchInv, SearchTyped, Skip, Searching
<1>2. /\ Tail(frontier) \in Seq(Station)
      /\ Len(Tail(frontier)) = Len(frontier) - 1 /\ Len(frontier) \in Nat \ {0}
      /\ frontier[1] = Head(frontier)
      /\ \A i \in 1 .. Len(frontier) - 1 : Tail(frontier)[i] = frontier[i + 1]
      /\ \A x : x # Head(frontier) => (In(frontier, x) <=> In(Tail(frontier), x))
  BY <1>1, RestFacts
<1>3. Begun \in Searches
  BY <1>1, <1>2 DEF Begun, Searches
<1>4. /\ Matched(Now) /\ Trails(Now) /\ Marked(Now) /\ Awaited(Now)
      /\ Equal => \A x \in Sat : Settled(Now, x)
  BY <1>1 DEF SearchInv
<1>5. Matched(Begun) /\ Trails(Begun)
  BY <1>4, NowFacts DEF Matched, Labelled, Trails, Trail
<1>6. Marked(Begun)
  <2> SUFFICES ASSUME NEW i \in 1 .. Len(Tail(frontier)) PROVE label[Tail(frontier)[i]] # Unlabelled
    BY NowFacts DEF Marked, Labelled
  <2>1. i + 1 \in 1 .. Len(frontier) /\ Tail(frontier)[i] = frontier[i + 1]
    BY <1>2
  <2> QED BY <1>4, <2>1, NowFacts DEF Marked, Labelled
<1>7. Awaited(Begun)
  BY <1>1, <1>2, <1>4, NowFacts DEF Awaited, Labelled
<1>8. \A x \in Sat : x # Head(frontier)
  BY <1>1, StationFacts
<1>9. Equal => \A x \in Sat : Settled(Begun, x)
  BY <1>2, <1>4, <1>8, NowFacts DEF Settled, Labelled
<1>10. SameStations(frontier', Begun.frontier)
  BY <1>1, NowFacts DEF SameStations
<1>11. label' = Begun.label /\ path' = Begun.path /\ frontier' \in Seq(Station)
  BY <1>1, <1>2, NowFacts
<1>12. /\ SearchTyped'
       /\ Matched(Now)' /\ Trails(Now)' /\ Marked(Now)' /\ Awaited(Now)'
       /\ \A x \in Sat : Settled(Begun, x) => Settled(Now, x)'
  BY <1>1, <1>3, <1>5, <1>6, <1>7, <1>10, <1>11, StateAfter
<1>13. Equal' => \A x \in Sat : Settled(Now, x)'
  BY <1>1, <1>9, <1>12, ProblemKept
<1>14. Ordered(label, frontier)'
  <2> SUFFICES ASSUME NEW i \in 1 .. Len(Tail(frontier)), NEW j \in 1 .. Len(Tail(frontier)), i <= j
               PROVE  label[Tail(frontier)[i]] <= label[Tail(frontier)[j]]
    BY <1>1 DEF Ordered
  <2>1. i + 1 \in 1 .. Len(frontier) /\ j + 1 \in 1 .. Len(frontier) /\ i + 1 <= j + 1
    BY <1>2
  <2>2. Tail(frontier)[i] = frontier[i + 1] /\ Tail(frontier)[j] = frontier[j + 1]
    BY <1>2
  <2> QED BY <2>1, <2>2 DEF SearchInv, Ordered
<1>15. frontier # <<source>>
  BY <1>1, <1>8
<1>16. label'[source'] = 0 /\ label'[dest'] # Unlabelled
  BY <1>1, <1>15, ProblemKept DEF SearchInv
<1> QED BY <1>1, <1>12, <1>13, <1>14, <1>16 DEF SearchInv

LEMMA NowTyped == SearchTyped => Now \in Searches
BY DEF SearchTyped, Now, Searches

LEMMA ReturnKeeps ==
  ASSUME SearchInv, Return
  PROVE  SearchInv'
<1>1. /\ SearchTyped /\ UNCHANGED problem /\ label' = label /\ path' = path /\ frontier' = frontier
      /\ outcome = "searching" /\ (frontier = <<>> \/ Head(frontier) = dest)
      /\ outcome' = IF frontier = <<>> THEN "null" ELSE "found"
      /\ frontier \in Seq(Station)
      /\ Awaited(Now) /\ (label[dest] # Unlabelled \/ frontier = <<source>>)
  BY DEF SearchInv, SearchTyped, Return, Searching
<1>2. frontier # <<>>
  <2>1. CASE label[dest] # Unlabelled
    <3>1. PICK i \in 1 .. Len(frontier) : frontier[i] = dest
      BY <1>1, <2>1, NowFacts DEF Awaited, Labelled, In
    <3>2. Len(<<>>) = 0
      BY EmptySeq
    <3> QED BY <3>1, <3>2
  <2>2. CASE frontier = <<source>>
    BY <2>2
  <2> QED BY <1>1, <2>1, <2>2
<1>3. outcome' = "found" /\ Head(frontier) = dest
  BY <1>1, <1>2
<1>4. SameStations(frontier', Now.frontier)
  BY <1>1, NowFacts DEF SameStations
<1>5. /\ SearchTyped'
      /\ Matched(Now)' /\ Trails(Now)' /\ Marked(Now)'
      /\ \A x \in Sat : Settled(Now, x) => Settled(Now, x)'
  <2>1. Matched(Now) /\ Trails(Now) /\ Marked(Now) /\ Now \in Searches
    BY <1>1, NowTyped DEF SearchInv
  <2>2. label' = Now.label /\ path' = Now.path /\ frontier' \in Seq(Station)
    BY <1>1, NowFacts
  <2> QED BY <1>1, <1>4, <2>1, <2>2, StateAfter
<1>6. Equal' => \A x \in Sat : Settled(Now, x)'
  BY <1>1, <1>5, ProblemKept DEF SearchInv
<1>7. label'[source'] = 0 /\ Ordered(label, frontier)' /\ dest' = dest
  BY <1>1, ProblemKept DEF SearchInv, Ordered
<1>8. outcome' # "searching" /\ frontier' # <<>> /\ Head(frontier') = dest'
  BY <1>1, <1>2, <1>3, <1>7
<1> QED BY <1>3, <1>5, <1>6, <1>7, <1>8 DEF SearchInv

LEMMA SearchInit == Init => SearchInv
<1> SUFFICES ASSUME Init PROVE SearchInv
  OBVIOUS
<1>1. /\ source \in Sat /\ dest \in Sat /\ source \in Station
      /\ label = [st \in Station |-> IF st = source THEN 0 ELSE Unlabelled]
      /\ path = [st \in Station |-> <<>>]
      /\ frontier = <<source>> /\ outcome = "searching"
  BY DEF Init, Station
<1>2. LossTyped
  <2>1. \A c \in SatChannel : c \in Channel /\ c[1] \in SatLink
    BY DEF SatChannel
  <2>2. CASE loss \in EqualLosses
    <3>1. PICK f \in [SatLink -> Loss], g \in GroundLoss :
            loss = [c \in Channel |-> IF c \in SatChannel THEN f[c[1]] ELSE g]
      BY <2>2 DEF EqualLosses
    <3>2. \A c \in SatChannel : f[c[1]] \in Loss
      BY <2>1
    <3>3. \A c \in Channel : (IF c \in SatChannel THEN f[c[1]] ELSE g) \in 0 .. Lost
      BY <3>2, SearchAssumption
    <3> QED BY <3>1, <3>3 DEF LossTyped
  <2>3. CASE loss \in SkewedLosses
    <3>1. PICK f \in [SatChannel -> SkewedLoss], g \in GroundLoss :
            loss = [c \in Channel |-> IF c \in SatChannel THEN f[c] ELSE g]
      BY <2>3 DEF SkewedLosses
    <3>2. \A c \in Channel : (IF c \in SatChannel THEN f[c] ELSE g) \in 0 .. Lost
      BY SearchAssumption
    <3> QED BY <3>1, <3>2 DEF LossTyped
  <2> QED BY <2>2, <2>3 DEF Init
<1>3. Unlabelled \in Nat /\ Unlabelled # 0 /\ 0 \in 0 .. Unlabelled /\ Unlabelled \in 0 .. Unlabelled
  BY SearchAssumption DEF Unlabelled
<1>4. SearchTyped
  <2>1. label \in Labels
    BY <1>1, <1>3 DEF Labels
  <2>2. path \in Paths
    BY <1>1, EmptySeq DEF Paths
  <2> QED BY <1>1, <1>2, <2>1, <2>2 DEF SearchTyped
<1>5. /\ \A st \in Station : label[st] # Unlabelled => st = source
      /\ label[source] = 0 /\ path[source] = <<>>
      /\ Len(frontier) = 1 /\ frontier[1] = source
  BY <1>1
<1>6. Matched(Now)
  BY <1>2, <1>5, NowFacts, TotalOfNone DEF Matched, Labelled
<1>7. Trails(Now)
  <2> DEFINE w == <<source>>
  <2>1. w \in Seq(Station) /\ Len(w) = 1 /\ w[1] = source /\ w # <<>>
    BY <1>1
  <2>2. Totals(<<>>, source)[0] = 0
    BY <1>2, TotalOfNone, TotalsFacts
  <2>3. Capped(0) = 0
    BY SearchAssumption DEF Capped
  <2>4. PathLinks(w) = <<>>
    BY <2>1 DEF PathLinks
  <2> HIDE DEF w
  <2>5. Trail(Now, w, source)
    BY <1>5, <2>1, <2>2, <2>3, <2>4, NowFacts DEF Trail
  <2> QED BY <1>5, <2>1, <2>5, NowFacts DEF Trails, Labelled
<1>8. Marked(Now)
  <2>1. \A i \in 1 .. Len(frontier) : frontier[i] = source
    BY <1>5
  <2>2. \A i \in 1 .. Len(frontier) : label[frontier[i]] # Unlabelled
    BY <1>3, <1>5, <2>1
  <2> QED BY <2>2, NowFacts DEF Marked, Labelled
<1>9. In(frontier, source)
  BY <1>5 DEF In
<1>10. Awaited(Now) /\ \A x \in Sat : Settled(Now, x)
  <2>1. \A x \in Sat : x \in Station
    BY DEF Station
  <2> QED BY <1>1, <1>5, <1>9, <2>1, NowFacts DEF Awaited, Settled, Labelled
<1>11. Ordered(label, frontier)
  BY <1>5 DEF Ordered
<1> QED BY <1>1, <1>4, <1>5, <1>6, <1>7, <1>8, <1>10, <1>11 DEF SearchInv

LEMMA SearchStep == SearchInv /\ [Next]_vars => SearchInv'
<1>1. ASSUME SearchInv, UNCHANGED vars PROVE SearchInv'
  <2>1. /\ SearchTyped /\ UNCHANGED problem /\ label' = label /\ path' = path /\ frontier' = frontier
        /\ outcome' = outcome /\ frontier \in Seq(Station) /\ Now \in Searches
        /\ Matched(Now) /\ Trails(Now) /\ Marked(Now)
    BY <1>1, NowTyped DEF SearchInv, SearchTyped, vars
  <2>2. SameStations(frontier', Now.frontier)
    BY <2>1, NowFacts DEF SameStations
  <2>3. label' = Now.label /\ path' = Now.path
    BY <2>1, NowFacts
  <2>4. /\ SearchTyped'
        /\ Matched(Now)' /\ Trails(Now)' /\ Marked(Now)'
        /\ Awaited(Now) => Awaited(Now)'
        /\ \A x \in Sat : Settled(Now, x) => Settled(Now, x)'
    BY <2>1, <2>2, <2>3, StateAfter
  <2>5. source' = source /\ dest' = dest /\ (Equal' <=> Equal)
    BY <2>1, ProblemKept
  <2>6. Ordered(label, frontier)'
    BY <1>1, <2>1 DEF SearchInv, Ordered
  <2> QED BY <1>1, <2>1, <2>4, <2>5, <2>6 DEF SearchInv
<1> QED BY <1>1, ExpandKeeps, SkipKeeps, ReturnKeeps DEF Next

(* A trail that ends at a satellite is a walk.                              *)
LEMMA TrailIsWalk ==
  ASSUME NEW w \in Seq(Station), w # <<>>, w[Len(w)] \in Sat,
         \A i \in 1 .. Len(w) : i < Len(w) => w[i] \in Sat,
         \A i, j \in 1 .. Len(w) : w[i] = w[j] => i = j
  PROVE  w \in Walk
<1> DEFINE n == Len(w)
<1>1. n \in Nat \ {0} /\ w \in [1 .. n -> Station] /\ DOMAIN w = 1 .. n
  BY EmptySeq, LenProperties
<1>2. \A i \in 1 .. n : w[i] \in Sat
  <2> SUFFICES ASSUME NEW i \in 1 .. n PROVE w[i] \in Sat
    OBVIOUS
  <2>1. i < n \/ i = n
    <3> HIDE DEF n
    <3> QED BY <1>1
  <2> QED BY <2>1
<1>3. w \in [1 .. n -> Sat]
  BY <1>1, <1>2
<1>4. n <= NumSat
  <2>1. w \in Injection(1 .. n, Sat)
    BY <1>1, <1>3 DEF Injection, IsInjective
  <2>2. IsFiniteSet(Sat) /\ Cardinality(Sat) = NumSat
    <3>1. NumGround + 1 \in Int /\ NumGround + NumSat \in Int
      BY NetworkAssumption
    <3>2. IsFiniteSet(Sat) /\ Cardinality(Sat) =
            IF NumGround + 1 > NumGround + NumSat THEN 0
            ELSE (NumGround + NumSat) - (NumGround + 1) + 1
      BY <3>1, FS_Interval DEF Sat
    <3> QED BY <3>2, NetworkAssumption
  <2>3. Cardinality(1 .. n) = n
    BY <1>1, FS_Interval
  <2> QED BY <2>1, <2>2, <2>3, FS_Injection
<1>5. n \in 1 .. NumSat
  BY <1>1, <1>4, NetworkAssumption
<1> QED BY <1>1, <1>3, <1>5 DEF Walk

(* Manager.route always returns a path, from source to dest over satellites *)
(* only and to none of them twice, whatever the losses.                     *)
THEOREM RouteFound == Spec => []RouteIsWalk
<1>1. ASSUME SearchInv PROVE RouteIsWalk
  <2> SUFFICES ASSUME outcome # "searching"
               PROVE  /\ outcome = "found"
                      /\ \E w \in Walk : w[1] = source /\ w \in WalkTo(dest) /\ path[dest] = PathLinks(w)
    BY DEF RouteIsWalk
  <2>1. outcome = "found" /\ frontier # <<>> /\ Head(frontier) = dest /\ dest \in Sat
    BY <1>1 DEF SearchInv, SearchTyped
  <2>2. label[dest] # Unlabelled /\ dest \in Station
    BY <1>1, <2>1, HeadLabelled DEF Station
  <2>3. PICK w \in Seq(Station) : Trail(Now, w, dest)
    BY <1>1, <2>2, NowFacts DEF SearchInv, Trails, Labelled
  <2>4. w \in Walk
    BY <2>1, <2>3, TrailIsWalk DEF Trail
  <2>5. w[1] = source /\ w[Len(w)] = dest /\ path[dest] = PathLinks(w)
    BY <2>3, NowFacts DEF Trail
  <2> QED BY <2>1, <2>4, <2>5 DEF WalkTo
<1> QED BY <1>1, SearchInit, SearchStep, PTL DEF Spec

LEMMA EqualLossesAreEqual == loss \in EqualLosses => Equal
<1> SUFFICES ASSUME loss \in EqualLosses, NEW l \in Link, NEW x \in Station, NEW y \in Station
             PROVE  LossSeenBy(l, x) = LossSeenBy(l, y)
  BY DEF Equal
<1>1. PICK f \in [SatLink -> Loss], g \in GroundLoss :
        loss = [c \in Channel |-> IF c \in SatChannel THEN f[c[1]] ELSE g]
  BY DEF EqualLosses
<1>2. l \in Station \X Station
  BY DEF Link, Station
<1>3. \A z \in Station : (z = l[1] \/ z = l[2]) => <<l, z>> \in Channel
  BY DEF Channel
<1>4. \A st : <<l, OtherStation(l, st)>> \in Channel
  BY <1>2, <1>3 DEF OtherStation
<1>5. \A st : loss[<<l, OtherStation(l, st)>>] = IF l \in SatLink THEN f[l] ELSE g
  BY <1>1, <1>4 DEF SatChannel
<1> QED BY <1>5 DEF LossSeenBy

(* What the search has at its end is no worse than any walk.                *)
LEMMA NoBetterWalk ==
  ASSUME SearchInv, Equal, outcome = "found",
         NEW w \in WalkTo(dest), w[1] = source
  PROVE  label[dest] <= PathLoss(PathLinks(w), dest)
<1> DEFINE n == Len(w)
           p == PathLinks(w)
           t == Totals(p, dest)
           T == {i \in 1 .. n : ~ (\/ label[dest] <= Capped(t[i - 1])
                                   \/ label[w[i]] <= Capped(t[i - 1]))}
<1>1. /\ n \in Nat \ {0} /\ w[n] = dest /\ \A i \in 1 .. n : w[i] \in Sat /\ w[i] \in Station
      /\ \A i, j \in 1 .. n : w[i] = w[j] => i = j
  BY WalkFacts DEF WalkTo, Station
<1>2. /\ LossTyped /\ frontier \in Seq(Station) /\ frontier # <<>> /\ Head(frontier) = dest
      /\ Ordered(label, frontier) /\ label[source] = 0 /\ dest \in Station
      /\ \A x \in Sat : Settled(Now, x)
  BY DEF SearchInv, SearchTyped, Station
<1>3. Unlabelled \in Nat /\ \A x \in Station : label[x] \in Nat
  BY SearchAssumption DEF SearchInv, SearchTyped, Labels, Unlabelled
<1>4. \A i \in 1 .. n - 1 : p[i] = LinkOf(w[i + 1], w[i]) /\ p[i] \in Link
  <2> SUFFICES ASSUME NEW i \in 1 .. n - 1
               PROVE  p[i] = LinkOf(w[i + 1], w[i]) /\ p[i] \in Link
    OBVIOUS
  <2>1. i \in 1 .. n /\ i + 1 \in 1 .. n /\ i # i + 1
    BY <1>1
  <2>2. w[i] \in Sat /\ w[i + 1] \in Station \ {w[i]}
    BY <1>1, <2>1
  <2>3. p[i] = LinkOf(w[i], w[i + 1])
    BY DEF PathLinks
  <2> QED BY <2>2, <2>3, LinksFacts
<1>5. p \in Seq(Link) /\ Len(p) = n - 1
  <2>1. p = [i \in 1 .. n - 1 |-> p[i]]
    BY DEF PathLinks
  <2>2. p \in [1 .. n - 1 -> Link] /\ n - 1 \in Nat
    BY <1>1, <1>4, <2>1
  <2> HIDE DEF p
  <2> QED BY <2>2
<1> HIDE DEF n, p
<1>6. /\ \A i \in 0 .. n - 1 : t[i] \in Nat
      /\ t[0] = 0
      /\ \A i \in 1 .. n - 1 : t[i] = t[i - 1] + LossSeenBy(p[i], dest)
  BY <1>2, <1>5, TotalsFacts
<1>7. PathLoss(p, dest) = Capped(t[n - 1])
  BY <1>5, PathLossIsTotal DEF Total
<1> HIDE DEF t
<1>8. T = {}
  <2>1. SUFFICES ASSUME T # {} PROVE FALSE
    OBVIOUS
  <2>2. PICK i \in T : \A m \in T : i <= m
    <3>1. T \in SUBSET Nat
      BY <1>1
    <3> HIDE DEF T
    <3> QED BY <2>1, <3>1, LeastNatural
  <2>3. /\ i \in 1 .. n
        /\ ~ (label[dest] <= Capped(t[i - 1])) /\ ~ (label[w[i]] <= Capped(t[i - 1]))
    BY <2>2
  <2>4. i # 1
    <3>1. Capped(0) = 0
      BY SearchAssumption DEF Capped
    <3> SUFFICES ASSUME i = 1 PROVE FALSE
      OBVIOUS
    <3>2. t[i - 1] = 0 /\ label[w[i]] = 0
      BY <1>2, <1>6
    <3> QED BY <2>3, <3>1, <3>2
  <2> DEFINE j == i - 1
             a == t[j - 1]
             b == LossSeenBy(p[j], dest)
             x == w[j]
             y == w[i]
  <2>5. j \in 1 .. n /\ j \in 1 .. n - 1 /\ j - 1 \in 0 .. n - 1 /\ ~ (i <= j) /\ i = j + 1
    <3> HIDE DEF T
    <3>1. i \in Nat /\ n \in Nat /\ 1 <= i /\ i <= n /\ i # 1
      BY <1>1, <2>3, <2>4
    <3> QED BY <3>1
  <2>6. label[dest] <= Capped(a) \/ label[x] <= Capped(a)
    BY <2>2, <2>5
  <2>7. t[j] = a + b /\ a \in Nat /\ b \in Nat
    BY <1>2, <1>4, <1>6, <2>5, SeenFacts
  <2>8. x \in Sat /\ x \in Station /\ y \in Station /\ p[j] = LinkOf(y, x) /\ p[j] \in Link /\ y # x
    BY <1>1, <1>4, <2>3, <2>5
  <2>9. LossSeenBy(LinkOf(y, x), y) = b
    BY <1>2, <2>8 DEF Equal
  <2>10. ~ (label[dest] <= Capped(a + b)) /\ ~ (label[y] <= Capped(a + b))
    BY <2>3, <2>7
  <2> HIDE DEF a, b, x, y, j
  <2>11. Capped(a) <= Capped(a + b) /\ Capped(a) \in Nat /\ Capped(a + b) \in Nat /\ Capped(a) < Unlabelled
    <3>1. a <= a + b /\ a + b \in Nat
      BY <2>7
    <3> DEFINE c == a + b
    <3> HIDE DEF c
    <3>2. a <= c /\ c \in Nat
      BY <3>1 DEF c
    <3>3. Capped(a) <= Capped(c) /\ Capped(a) \in Nat /\ Capped(c) \in Nat /\ Capped(a) < Unlabelled
      BY <2>7, <3>2, CappedFacts
    <3> QED BY <3>3 DEF c
  <2>12. label[x] <= Capped(a) /\ label[x] # Unlabelled
    BY <1>2, <1>3, <2>6, <2>8, <2>10, <2>11
  <2>13. ~ In(frontier, x)
    <3> SUFFICES ASSUME NEW k \in 1 .. Len(frontier), frontier[k] = x PROVE FALSE
      BY DEF In
    <3>1. 1 \in 1 .. Len(frontier) /\ 1 <= k /\ frontier[1] = dest
      BY <1>2, RestFacts
    <3>2. label[dest] <= label[x]
      BY <1>2, <3>1 DEF Ordered
    <3> QED BY <1>2, <1>3, <2>8, <2>10, <2>11, <2>12, <3>2
  <2>14. label[y] <= Capped(label[x] + b)
    BY <1>2, <2>8, <2>9, <2>12, <2>13, NowFacts DEF Settled, Labelled
  <2>15. Capped(label[x] + b) <= Capped(Capped(a) + b) /\ Capped(label[x] + b) \in Nat
    <3> DEFINE c == label[x] + b
               d == Capped(a) + b
    <3>1. c \in Nat /\ d \in Nat /\ c <= d
      BY <1>3, <2>7, <2>8, <2>11, <2>12
    <3> HIDE DEF c, d
    <3>2. Capped(c) <= Capped(d) /\ Capped(c) \in Nat
      BY <3>1, CappedFacts
    <3> QED BY <3>2 DEF c, d
  <2>16. Capped(Capped(a) + b) = Capped(a + b)
    BY <2>7, CappedFacts
  <2> QED BY <1>3, <2>8, <2>10, <2>11, <2>14, <2>15, <2>16
<1>9. n \in 1 .. n
  BY <1>1
<1>10. label[dest] <= Capped(t[n - 1])
  BY <1>1, <1>8, <1>9
<1> QED BY <1>7, <1>10 DEF p

(* Where the two directions of every link are equally good, no path over    *)
(* satellites has a better probability than the one route returns.          *)
THEOREM RouteBest == Spec => []RouteIsBest
<1>1. ASSUME SearchInv PROVE RouteIsBest
  <2> SUFFICES ASSUME outcome = "found", loss \in EqualLosses,
                      NEW w \in WalkTo(dest), w[1] = source
               PROVE  PathLoss(path[dest], dest) <= PathLoss(PathLinks(w), dest)
    BY DEF RouteIsBest
  <2>1. frontier # <<>> /\ Head(frontier) = dest /\ dest \in Station /\ Matched(Now)
    BY <1>1 DEF SearchInv, SearchTyped, Station
  <2>2. label[dest] = PathLoss(path[dest], dest)
    BY <1>1, <2>1, HeadLabelled, NowFacts DEF Matched, Labelled
  <2>3. label[dest] <= PathLoss(PathLinks(w), dest)
    BY <1>1, EqualLossesAreEqual, NoBetterWalk
  <2> QED BY <2>2, <2>3
<1> QED BY <1>1, SearchInit, SearchStep, PTL DEF Spec

-----------------------------------------------------------------------------
(* A label is final once its station has left the list.  Within an          *)
(* iteration at the head of the list, with directions that are equally      *)
(* good, a station keeps what it has, or it is given a label between that   *)
(* of the head and its own, and enters the list.                            *)
Fresh(s, point, st) ==
  label[point] <= s.label[st] /\ s.label[st] < label[st] /\ In(s.frontier, st)

Same(s, st) == s.label[st] = label[st] /\ s.path[st] = path[st]

Beyond(s, point) ==
  /\ Same(s, point)
  /\ \A st \in Station : Same(s, st) \/ Fresh(s, point, st)
  /\ \A st \in Station : In(Tail(frontier), st) => In(s.frontier, st)
  /\ \A st \in Station :
       In(s.frontier, st) => In(Tail(frontier), st) \/ Fresh(s, point, st)

LEMMA InAppend ==
  ASSUME NEW q \in Seq(Station), NEW o \in Station
  PROVE  \A x : In(Append(q, o), x) <=> In(q, x) \/ x = o
<1> DEFINE r == Append(q, o)
           n == Len(q)
<1>1. Len(r) = n + 1 /\ n \in Nat /\ r[n + 1] = o /\ \A i \in 1 .. n : r[i] = q[i]
  BY AppendProperties, LenProperties
<1> HIDE DEF r
<1>2. \A i \in 1 .. n + 1 : i \in 1 .. n \/ i = n + 1
  BY <1>1
<1>3. n + 1 \in 1 .. n + 1 /\ \A i \in 1 .. n : i \in 1 .. n + 1
  BY <1>1
<1> HIDE DEF n
<1>4. ASSUME NEW x, In(r, x) PROVE (\E i \in 1 .. n : q[i] = x) \/ x = o
  BY <1>1, <1>2, <1>4 DEF In
<1>5. ASSUME NEW x, (\E i \in 1 .. n : q[i] = x) \/ x = o PROVE In(r, x)
  BY <1>1, <1>3, <1>5 DEF In
<1> QED BY <1>4, <1>5 DEF In, r, n

(* No path through the head of the list loses less than the head's own.     *)
LEMMA NoneBelowHead ==
  ASSUME SearchInv, Searching, Head(frontier) \in Sat, Equal,
         NEW o \in Station \ {Head(frontier)}
  PROVE  label[Head(frontier)] <=
           PathLoss(Append(path[Head(frontier)], LinkOf(o, Head(frontier))), o)
<1> DEFINE point == Head(frontier)
           l == LinkOf(o, point)
           p == path[point]
           a == Total(p, point)
           b == LossSeenBy(l, o)
<1>1. /\ LossTyped /\ point \in Sat /\ point \in Station
      /\ label[point] # Unlabelled /\ Matched(Now) /\ p \in Seq(Link)
  BY HeadLabelled, LinksFacts DEF SearchInv, SearchTyped, Searching, Paths
<1>2. l \in Link
  BY <1>1, LinksFacts
<1>3. label[point] = Capped(a)
  BY <1>1, NowFacts, PathLossIsTotal DEF Matched, Labelled
<1>4. Total(p, o) = a
  BY <1>1, EqualTotals
<1>5. a \in Nat /\ b \in Nat
  BY <1>1, <1>2, TotalType, SeenFacts
<1> HIDE DEF l, p
<1>6. PathLoss(Append(p, l), o) = Capped(a + b)
  BY <1>1, <1>2, <1>4, TotalAppend, PathLossIsTotal
<1> HIDE DEF a, b
<1>7. a + b \in Nat /\ a <= a + b
  BY <1>5
<1>8. Capped(a) <= Capped(a + b)
  BY <1>5, <1>7, CappedFacts
<1> QED BY <1>3, <1>6, <1>8 DEF l, p

LEMMA BeyondKept ==
  ASSUME SearchInv, Searching, Equal, NEW point \in Sat, point = Head(frontier),
         NEW s \in Searches, Beyond(s, point), NEW o \in Station \ {point}
  PROVE  Beyond(Visit(s, LinkOf(o, point), point), point)
<1> DEFINE l == LinkOf(o, point)
           q == Append(s.path[point], l)
           t == Visit(s, l, point)
           c == PathLoss(q, o)
<1>1. /\ LossTyped /\ point \in Station
      /\ \A st \in Station : label[st] \in Nat /\ s.label[st] \in Nat
      /\ s.frontier \in Seq(Station)
  BY LinksFacts, SearchAssumption DEF SearchInv, SearchTyped, Labels, Searches, Unlabelled
<1>2. /\ c \in 0 .. Lost
      /\ ~ c < s.label[o] => t = s
      /\ c < s.label[o] =>
           /\ t.label[o] = c
           /\ t.path[o] = q
           /\ t.frontier = Append(s.frontier, o)
           /\ \A y \in Station : y # o => t.label[y] = s.label[y] /\ t.path[y] = s.path[y]
  BY <1>1, VisitFacts, SMTT(30)
<1>3. label[point] <= c
  BY NoneBelowHead DEF Beyond, Same
<1> HIDE DEF t, c, q
<1>4. ASSUME ~ c < s.label[o] PROVE Beyond(t, point)
  BY <1>2, <1>4
<1>5. ASSUME c < s.label[o] PROVE Beyond(t, point)
  <2>1. \A x : In(t.frontier, x) <=> In(s.frontier, x) \/ x = o
    <3>1. o \in Station /\ s.frontier \in Seq(Station)
      BY <1>1
    <3>2. \A x : In(Append(s.frontier, o), x) <=> In(s.frontier, x) \/ x = o
      BY <3>1, InAppend, Zenon
    <3>3. t.frontier = Append(s.frontier, o)
      BY <1>2, <1>5
    <3> QED BY <3>2, <3>3, Zenon
  <2>2. s.label[o] <= label[o]
    BY <1>1 DEF Beyond, Same, Fresh
  <2>3. c < label[o] /\ c \in Nat
    BY <1>1, <1>2, <1>5, <2>2
  <2>4. Fresh(t, point, o)
    BY <1>2, <1>3, <1>5, <2>1, <2>3 DEF Fresh
  <2>5. \A st \in Station \ {o} :
          /\ Same(s, st) => Same(t, st)
          /\ Fresh(s, point, st) => Fresh(t, point, st)
    BY <1>2, <1>5, <2>1 DEF Same, Fresh
  <2>6. Same(t, point)
    BY <1>1, <2>5 DEF Beyond
  <2>7. \A st \in Station : Same(t, st) \/ Fresh(t, point, st)
    BY <2>4, <2>5 DEF Beyond
  <2>8. \A st \in Station : In(Tail(frontier), st) => In(t.frontier, st)
    BY <2>1 DEF Beyond
  <2>9. \A st \in Station : In(t.frontier, st) => In(Tail(frontier), st) \/ Fresh(t, point, st)
    BY <2>1, <2>4, <2>5 DEF Beyond
  <2> QED BY <2>6, <2>7, <2>8, <2>9 DEF Beyond
<1>6. Beyond(t, point)
  BY <1>4, <1>5
<1> QED BY <1>6 DEF t

LEMMA BeyondAfter ==
  ASSUME SearchInv, Searching, Equal, Head(frontier) \in Sat
  PROVE  Beyond(Explored(Head(frontier)), Head(frontier))
<1> DEFINE point == Head(frontier)
           n == NumGround + NumSat - 1
           G == [k \in 0 .. n |-> {s \in Searches : Beyond(s, point)}]
<1>1. SearchTyped /\ LossTyped /\ frontier # <<>> /\ point \in Sat
  BY DEF SearchInv, SearchTyped, Searching
<1>2. Begun \in Searches /\ n \in Nat
  BY <1>1, ExploringFacts, LinksFacts
<1>3. Beyond(Begun, point)
  BY NowFacts, <1>1, LinksFacts DEF Beyond, Same
<1> HIDE DEF point
<1>4. G \in [0 .. n -> SUBSET Searches]
  OBVIOUS
<1>5. \A k \in 0 .. n : \A s : s \in G[k] <=> s \in Searches /\ Beyond(s, point)
  OBVIOUS
<1> HIDE DEF G
<1>6. 0 \in 0 .. n /\ n \in 0 .. n
  BY <1>2
<1>7. Begun \in G[0]
  BY <1>2, <1>3, <1>5, <1>6
<1>8. ASSUME NEW k \in 1 .. n, NEW s \in G[k - 1], NEW o \in Station \ {point},
             LinksOf(point)[k] = LinkOf(o, point)
      PROVE  Visit(s, LinkOf(o, point), point) \in G[k]
  <2>1. k \in 0 .. n /\ k - 1 \in 0 .. n
    BY <1>2
  <2>2. s \in Searches /\ Beyond(s, point)
    BY <1>5, <2>1
  <2>3. Beyond(Visit(s, LinkOf(o, point), point), point)
    BY <1>1, <2>2, BeyondKept DEF point
  <2>4. Visit(s, LinkOf(o, point), point) \in Searches
    BY <1>1, <2>2, VisitFacts
  <2> QED BY <1>5, <2>1, <2>3, <2>4
<1>9. Explored(point) \in G[n]
  BY <1>1, <1>4, <1>7, <1>8, Exploration
<1> QED BY <1>5, <1>6, <1>9 DEF point

(* What has left the list is no worse than what is still in it.             *)
LeftBehind ==
  Equal => \A st \in Station, y \in Station :
             label[st] # Unlabelled /\ ~ In(frontier, st) /\ In(frontier, y) =>
               label[st] <= label[y]

LEMMA HeadIsLeast ==
  ASSUME SearchInv, frontier # <<>>
  PROVE  /\ Head(frontier) \in Station /\ In(frontier, Head(frontier))
         /\ \A y : In(frontier, y) => label[Head(frontier)] <= label[y]
         /\ \A y : In(frontier, y) <=> In(Tail(frontier), y) \/ y = Head(frontier)
<1>1. frontier \in Seq(Station) /\ Ordered(label, frontier)
  BY DEF SearchInv, SearchTyped
<1>2. /\ Head(frontier) \in Station /\ frontier[1] = Head(frontier)
      /\ Len(frontier) \in Nat \ {0} /\ Len(Tail(frontier)) = Len(frontier) - 1
      /\ \A i \in 1 .. Len(frontier) - 1 : Tail(frontier)[i] = frontier[i + 1]
      /\ \A x : x # Head(frontier) => (In(frontier, x) <=> In(Tail(frontier), x))
  BY <1>1, RestFacts
<1>3. 1 \in 1 .. Len(frontier) /\ \A i \in 1 .. Len(frontier) : 1 <= i
  BY <1>2
<1>4. In(frontier, Head(frontier))
  BY <1>2, <1>3 DEF In
<1>5. \A y : In(frontier, y) => label[Head(frontier)] <= label[y]
  BY <1>1, <1>2, <1>3 DEF In, Ordered
<1>6. \A y : In(frontier, y) <=> In(Tail(frontier), y) \/ y = Head(frontier)
  BY <1>2, <1>4
<1> QED BY <1>2, <1>4, <1>5, <1>6

LEMMA LeftBehindStep ==
  ASSUME SearchInv, SearchInv', LeftBehind, [Next]_vars
  PROVE  /\ LeftBehind'
         /\ Equal => \A st \in Station :
              label[st] # Unlabelled /\ ~ In(frontier, st) =>
                label'[st] = label[st] /\ path'[st] = path[st]
<1>1. CASE UNCHANGED vars
  <2>1. label' = label /\ path' = path /\ frontier' = frontier /\ UNCHANGED problem
    BY <1>1 DEF vars
  <2> QED BY <2>1, ProblemKept DEF LeftBehind, In
<1>2. CASE Return
  <2>1. label' = label /\ path' = path /\ frontier' = frontier /\ UNCHANGED problem
    BY <1>2 DEF Return
  <2> QED BY <2>1, ProblemKept DEF LeftBehind, In
<1>3. CASE Skip
  <2>1. /\ label' = label /\ path' = path /\ frontier' = Tail(frontier) /\ UNCHANGED problem
        /\ frontier # <<>>
    BY <1>3 DEF Skip, Searching
  <2>2. /\ \A y : In(frontier, y) => label[Head(frontier)] <= label[y]
        /\ \A y : In(frontier, y) <=> In(Tail(frontier), y) \/ y = Head(frontier)
    BY <2>1, HeadIsLeast
  <2>3. ASSUME Equal, NEW st \in Station, NEW y \in Station,
               label[st] # Unlabelled, ~ In(Tail(frontier), st), In(Tail(frontier), y)
        PROVE  label[st] <= label[y]
    <3>1. CASE st = Head(frontier)
      BY <2>2, <2>3, <3>1
    <3>2. CASE st # Head(frontier)
      BY <2>2, <2>3, <3>2 DEF LeftBehind
    <3> QED BY <3>1, <3>2
  <2> QED BY <2>1, <2>3, ProblemKept DEF LeftBehind, In
<1>4. CASE Expand
  <2> DEFINE point == Head(frontier)
             e == Explored(point)
  <2>1. /\ Searching /\ point \in Sat /\ frontier # <<>> /\ UNCHANGED problem
        /\ label' = e.label /\ path' = e.path /\ frontier' = SortedBy(e.label, e.frontier)
    BY <1>4 DEF Expand, Searching
  <2>2. e \in Searches
    BY <2>1, AfterIteration
  <2>3. Equal => Beyond(e, point)
    BY <2>1, BeyondAfter
  <2>4. SameStations(frontier', e.frontier)
    BY <2>1, <2>2, SortedByFacts DEF Searches
  <2>5. /\ point \in Station /\ \A y : In(frontier, y) => label[point] <= label[y]
        /\ \A y : In(frontier, y) <=> In(Tail(frontier), y) \/ y = point
        /\ In(frontier, point)
    BY <2>1, HeadIsLeast
  <2>6. \A st \in Station : label[st] \in Nat /\ label'[st] \in Nat
    BY SearchAssumption DEF SearchInv, SearchTyped, Labels, Unlabelled
  <2> HIDE DEF point, e
  <2>7. \A x : In(frontier', x) <=> In(e.frontier, x)
    BY <2>4 DEF In, SameStations
  <2>8. ASSUME Equal, NEW st \in Station, label[st] # Unlabelled, ~ In(frontier, st)
        PROVE  label'[st] = label[st] /\ path'[st] = path[st]
    <3>1. label[st] <= label[point]
      BY <2>5, <2>8 DEF LeftBehind
    <3>2. Same(e, st) \/ Fresh(e, point, st)
      BY <2>3, <2>8 DEF Beyond
    <3>3. ~ Fresh(e, point, st)
      BY <2>1, <2>5, <2>6, <3>1 DEF Fresh
    <3> QED BY <2>1, <3>2, <3>3 DEF Same
  <2>9. ASSUME Equal, NEW st \in Station, NEW y \in Station,
               label'[st] # Unlabelled, ~ In(frontier', st), In(frontier', y)
        PROVE  label'[st] <= label'[y]
    <3>1. Same(e, st) /\ ~ In(Tail(frontier), st)
      BY <2>3, <2>7, <2>9 DEF Beyond, Fresh
    <3>2. label'[st] = label[st] /\ label[st] <= label[point]
      <4>1. label'[st] = label[st]
        BY <2>1, <3>1 DEF Same
      <4>2. CASE st = point
        BY <2>6, <4>1, <4>2
      <4>3. CASE st # point
        BY <2>5, <2>9, <3>1, <4>1, <4>3 DEF LeftBehind
      <4> QED BY <4>1, <4>2, <4>3
    <3>3. label[point] <= label'[y]
      <4>1. CASE Fresh(e, point, y)
        BY <2>1, <4>1 DEF Fresh
      <4>2. CASE ~ Fresh(e, point, y)
        <5>1. In(Tail(frontier), y) /\ Same(e, y)
          BY <2>3, <2>7, <2>9, <4>2 DEF Beyond
        <5> QED BY <2>1, <2>5, <5>1 DEF Same
      <4> QED BY <4>1, <4>2
    <3> QED BY <2>5, <2>6, <3>2, <3>3
  <2>10. Equal' <=> Equal
    BY <2>1, ProblemKept
  <2>11. LeftBehind'
    <3>1. \A x : In(frontier, x)' <=> In(frontier', x)
      BY DEF In
    <3> QED BY <2>9, <2>10, <3>1 DEF LeftBehind
  <2> QED BY <2>8, <2>11
<1> QED BY <1>1, <1>2, <1>3, <1>4 DEF Next

(* Where the directions of the links are equally good, a station that has   *)
(* left the list of route keeps its label and its path to the end, however  *)
(* often the loop comes by it again: what updateLength tests and what sort  *)
(* puts first are enough.                                                   *)
THEOREM LabelsAreFinal == Spec => LabelsBecomeFinal
<1> DEFINE A == \A st \in Station :
                  loss \in EqualLosses /\ HasLeft(st) => UNCHANGED <<label[st], path[st]>>
<1>1. Init => LeftBehind
  <2> SUFFICES ASSUME Init PROVE LeftBehind
    OBVIOUS
  <2>1. /\ source \in Station /\ frontier = <<source>>
        /\ label = [st \in Station |-> IF st = source THEN 0 ELSE Unlabelled]
    BY DEF Init, Station
  <2>2. Len(frontier) = 1 /\ frontier[1] = source
    BY <2>1
  <2>3. In(frontier, source)
    BY <2>2 DEF In
  <2> QED BY <2>1, <2>3 DEF LeftBehind
<1>2. SearchInv /\ SearchInv' /\ LeftBehind /\ [Next]_vars => LeftBehind' /\ A
  <2> SUFFICES ASSUME SearchInv, SearchInv', LeftBehind, [Next]_vars PROVE LeftBehind' /\ A
    OBVIOUS
  <2>1. \A st : HasLeft(st) => label[st] # Unlabelled /\ ~ In(frontier, st)
    <3>1. DOMAIN frontier = 1 .. Len(frontier)
      BY LenProperties DEF SearchInv, SearchTyped
    <3> QED BY <3>1 DEF HasLeft, In
  <2> QED BY <2>1, LeftBehindStep, EqualLossesAreEqual
<1>3. LabelsBecomeFinal <=> [][A]_vars
  BY DEF LabelsBecomeFinal
<1> QED
  <2> HIDE DEF A
  <2> QED BY <1>1, <1>2, <1>3, SearchInit, SearchStep, PTL DEF Spec

-----------------------------------------------------------------------------
(* The sum of the labels.                                                   *)
IsSumOfLabels(f, lab) ==
  f = [st \in 0 .. NumGround + NumSat |-> IF st = 0 THEN 0 ELSE f[st - 1] + lab[st]]

SumsOfLabels(lab) == CHOOSE f : IsSumOfLabels(f, lab)

LEMMA LabelSumIs ==
  /\ LabelSum = SumsOfLabels(label)[NumGround + NumSat]
  /\ LabelSum' = SumsOfLabels(label')[NumGround + NumSat]
BY DEF LabelSum, SumsOfLabels, IsSumOfLabels

LEMMA SumsFacts ==
  ASSUME NEW lab \in Labels
  PROVE  LET n == NumGround + NumSat
             f == SumsOfLabels(lab)
         IN /\ n \in Nat /\ Station = 1 .. n
            /\ f \in [0 .. n -> Nat]
            /\ f[0] = 0
            /\ \A st \in 1 .. n : f[st] = f[st - 1] + lab[st]
<1> DEFINE n == NumGround + NumSat
           next == [st \in 1 .. n |-> [x \in Nat |-> x + lab[st]]]
<1>1. n \in Nat /\ Station = 1 .. n /\ 0 \in Nat
  BY NetworkAssumption DEF Station, Ground, Sat
<1> HIDE DEF n
<1>2. \A st \in 1 .. n : lab[st] \in Nat
  BY <1>1, SearchAssumption DEF Labels, Unlabelled
<1>3. next \in [1 .. n -> [Nat -> Nat]]
  BY <1>2
<1>4. \A st \in 1 .. n, x \in Nat : next[st][x] = x + lab[st]
  OBVIOUS
<1> HIDE DEF next
<1>5. PICK f \in [0 .. n -> Nat] :
        /\ Follows(f, n, Nat, 0, next)
        /\ \A g : Follows(g, n, Nat, 0, next) => g = f
  BY <1>1, <1>3, Iteration
<1>6. /\ \A st \in 0 .. n : st # 0 => st \in 1 .. n /\ st - 1 \in 0 .. n
      /\ \A st \in 1 .. n : st \in 0 .. n /\ st # 0 /\ st - 1 \in 0 .. n
      /\ 0 \in 0 .. n
  BY <1>1
<1>7. \A st \in 1 .. n : f[st] = f[st - 1] + lab[st]
  BY <1>4, <1>5, <1>6 DEF Follows
<1>8. \A g : IsSumOfLabels(g, lab) <=>
        g = [st \in 0 .. n |-> IF st = 0 THEN 0 ELSE g[st - 1] + lab[st]]
  BY DEF IsSumOfLabels, n
<1>9. IsSumOfLabels(f, lab)
  <2>1. \A st \in 0 .. n : f[st] = IF st = 0 THEN 0 ELSE f[st - 1] + lab[st]
    BY <1>5, <1>6, <1>7 DEF Follows
  <2> QED BY <1>5, <1>8, <2>1
<1>10. ASSUME NEW g, IsSumOfLabels(g, lab) PROVE g = f
  <2>1. g = [st \in 0 .. n |-> IF st = 0 THEN 0 ELSE g[st - 1] + lab[st]]
    BY <1>8, <1>10
  <2>2. g[0] = 0 /\ g = [st \in 0 .. n |-> g[st]]
    BY <1>6, <2>1
  <2>3. \A st \in 1 .. n : g[st - 1] \in Nat => g[st] = next[st][g[st - 1]]
    BY <1>4, <1>6, <2>1
  <2> QED BY <1>5, <2>2, <2>3 DEF Follows
<1>11. SumsOfLabels(lab) = f
  BY <1>9, <1>10 DEF SumsOfLabels
<1> QED BY <1>1, <1>5, <1>7, <1>11 DEF Follows, n

LEMMA SumSinks ==
  ASSUME NEW lab \in Labels, NEW new \in Labels,
         \A st \in Station : new[st] <= lab[st],
         NEW best \in Station, new[best] < lab[best]
  PROVE  SumsOfLabels(new)[NumGround + NumSat] < SumsOfLabels(lab)[NumGround + NumSat]
<1> DEFINE n == NumGround + NumSat
           f == SumsOfLabels(new)
           g == SumsOfLabels(lab)
           Sinks(k) == f[k] <= g[k] /\ (best <= k => f[k] < g[k])
           T == {k \in 0 .. n : ~ Sinks(k)}
<1>1. /\ n \in Nat /\ Station = 1 .. n
      /\ \A k \in 0 .. n : f[k] \in Nat /\ g[k] \in Nat
      /\ f[0] = 0 /\ g[0] = 0
      /\ \A st \in 1 .. n : f[st] = f[st - 1] + new[st] /\ g[st] = g[st - 1] + lab[st]
  BY SumsFacts
<1> HIDE DEF f, g, n
<1>2. \A st \in 1 .. n : new[st] \in Nat /\ lab[st] \in Nat
  BY <1>1, SearchAssumption DEF Labels, Unlabelled
<1>3. T = {}
  <2>1. SUFFICES ASSUME T # {} PROVE FALSE
    OBVIOUS
  <2>2. PICK k \in T : \A m \in T : k <= m
    <3>1. T \in SUBSET Nat
      BY <1>1
    <3> HIDE DEF T
    <3> QED BY <2>1, <3>1, LeastNatural
  <2>3. k \in 0 .. n /\ ~ Sinks(k)
    BY <2>2
  <2>4. k # 0
    BY <1>1, <2>3
  <2>5. k \in 1 .. n /\ k - 1 \in 0 .. n /\ ~ (k <= k - 1)
    BY <1>1, <2>3, <2>4
  <2>6. Sinks(k - 1)
    BY <2>2, <2>5
  <2>7. f[k] = f[k - 1] + new[k] /\ g[k] = g[k - 1] + lab[k] /\ new[k] <= lab[k]
    BY <1>1, <2>5
  <2>8. f[k - 1] \in Nat /\ g[k - 1] \in Nat /\ new[k] \in Nat /\ lab[k] \in Nat
    BY <1>1, <1>2, <2>5
  <2>9. f[k] <= g[k]
    BY <2>6, <2>7, <2>8
  <2>10. ASSUME best <= k PROVE f[k] < g[k]
    <3>1. CASE best = k
      BY <2>6, <2>7, <2>8, <3>1
    <3>2. CASE best # k
      <4>1. best <= k - 1
        BY <1>1, <2>5, <2>10, <3>2
      <4> QED BY <2>6, <2>7, <2>8, <4>1
    <3> QED BY <3>1, <3>2
  <2> QED BY <2>3, <2>9, <2>10
<1>4. n \in 0 .. n /\ best <= n
  BY <1>1
<1>5. Sinks(n)
  BY <1>3, <1>4
<1> QED BY <1>4, <1>5 DEF f, g, n

(* No iteration of route is in vain: it betters a label, or it consumes the *)
(* frontier without adding to it.                                           *)
THEOREM IterationsAdvance == Spec => SearchAdvances
<1> DEFINE A == \/ outcome' # outcome
                \/ LabelSum' < LabelSum
                \/ LabelSum' = LabelSum /\ Len(frontier') < Len(frontier)
<1>1. ASSUME SearchInv, SearchInv', Expand PROVE A
  <2> DEFINE e == Explored(Head(frontier))
  <2>1. /\ Searching /\ Head(frontier) \in Sat /\ frontier # <<>> /\ frontier \in Seq(Station)
        /\ label' = e.label /\ frontier' = SortedBy(e.label, e.frontier)
        /\ label \in Labels /\ label' \in Labels
    BY <1>1 DEF Expand, Searching, SearchInv, SearchTyped
  <2>2. e \in Searches /\ Better(e) /\ Moved(e)
    BY <1>1, <2>1, AfterIteration DEF Within
  <2> HIDE DEF e
  <2>3. CASE e.label = label /\ e.frontier = Tail(frontier)
    <3>1. Tail(frontier) \in Seq(Station) /\ Len(Tail(frontier)) = Len(frontier) - 1 /\ Len(frontier) \in Nat
      BY <2>1, RestFacts
    <3> DEFINE q == Tail(frontier)
    <3>2. label \in Labels /\ q \in Seq(Station) /\ frontier' = SortedBy(label, q)
      BY <2>1, <2>3, <3>1
    <3>4. Len(q) = Len(frontier) - 1
      BY <3>1
    <3> HIDE DEF q
    <3>5. Len(frontier') = Len(q)
      BY <3>2, SortedByFacts, Zenon
    <3>3. LabelSum' = LabelSum
      BY <2>1, <2>3, LabelSumIs
    <3> QED BY <3>1, <3>3, <3>4, <3>5
  <2>4. CASE \E st \in Station : e.label[st] < label[st]
    <3>1. LabelSum' < LabelSum
      BY <2>1, <2>2, <2>4, SumSinks, LabelSumIs DEF Better
    <3> QED BY <3>1
  <2> QED BY <2>2, <2>3, <2>4 DEF Moved
<1>2. ASSUME SearchInv, Skip PROVE A
  <2>1. /\ frontier # <<>> /\ frontier \in Seq(Station)
        /\ label' = label /\ frontier' = Tail(frontier)
    BY <1>2 DEF Skip, Searching, SearchInv, SearchTyped
  <2>2. Len(Tail(frontier)) = Len(frontier) - 1 /\ Len(frontier) \in Nat
    BY <2>1, RestFacts
  <2>3. LabelSum' = LabelSum
    BY <2>1, LabelSumIs
  <2> QED BY <2>1, <2>2, <2>3
<1>3. ASSUME Return PROVE A
  BY <1>3 DEF Return
<1>4. SearchInv /\ SearchInv' /\ [Next]_vars => [A]_vars
  <2> HIDE DEF A
  <2> QED BY <1>1, <1>2, <1>3 DEF Next
<1>5. SearchAdvances <=> [][A]_vars
  BY DEF SearchAdvances
<1> QED
  <2> HIDE DEF A
  <2> QED BY <1>4, <1>5, SearchInit, SearchStep, PTL DEF Spec
=============================================================================
