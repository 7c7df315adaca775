-------------------------- MODULE DriverSearch_proofs --------------------------
(***************************************************************************)
(* Theorems about the matching of vehicles and the search for drivers, for  *)
(* every vehicle and cargo, any number of drivers and any limits.           *)
(***************************************************************************)
EXTENDS DriverSearch, TLAPS, FiniteSetTheorems, WellFoundedInduction

----------------------------------------------------------------------------
\* Matching.

\* Whatever its points add up to, the score of a vehicle lies in 0..100.
LEMMA ScoresBounded ==
  ASSUME NEW v \in Vehicles, NEW c \in Cargoes
  PROVE  /\ ValidateVehicle(v, c).canHandle \in BOOLEAN
         /\ ValidateVehicle(v, c).matchScore \in 0 .. 100
<1> DEFINE cap == RatedCapacity(v)
<1>1. cap \in Nat
  BY DEF RatedCapacity, Vehicles
<1>2. RawScore(v.type, c, cap) \in Int
  <2>1. TrailerScore(c, cap) \in Int
    BY DEF TrailerScore, Points
  <2>2. TipperScore(c, cap) \in Int
    BY DEF TipperScore, Points
  <2>3. BusScore(c, cap) \in Int
    BY DEF BusScore, Points
  <2>4. MiningScore(c, cap) \in Int
    BY DEF MiningScore, Points
  <2>5. GenericScore(c, cap) \in Int
    BY DEF GenericScore, Points
  <2> QED BY <2>1, <2>2, <2>3, <2>4, <2>5 DEF RawScore
<1>3. Capped(RawScore(v.type, c, cap)) \in 0 .. 100
  BY <1>2 DEF Capped
<1> QED BY <1>3 DEF ValidateVehicle, MatchScore, Refused

\* A load is no more for being lighter.
LEMMA LoadMonotone ==
  ASSUME NEW type, NEW c \in Cargoes, NEW w \in 0 .. c.weight
  PROVE  Load(type, [c EXCEPT !.weight = w]) <= Load(type, c)
<1>1. c.weight \in Nat /\ w \in Nat /\ w <= c.weight
  BY DEF Cargoes
<1>2. [c EXCEPT !.weight = w].weight = w
  BY DEF Cargoes
<1>3. (w + 74) \div 75 <= (c.weight + 74) \div 75
  BY <1>1
<1> QED BY <1>1, <1>2, <1>3 DEF Load

\* A vehicle that can handle a cargo can handle a lighter one.
LEMMA LighterFits ==
  ASSUME NEW v \in Vehicles, NEW c \in Cargoes, NEW w \in 0 .. c.weight, CanHandle(v, c)
  PROVE  CanHandle(v, [c EXCEPT !.weight = w])
<1> DEFINE l == [c EXCEPT !.weight = w]
<1>1. /\ l.cargoType = c.cargoType /\ l.needs = c.needs /\ l.volume = c.volume
      /\ l.weight = w /\ w \in Nat /\ c.weight \in Nat /\ w <= c.weight
      /\ l \in Cargoes
  BY DEF Cargoes
<1>2. MeetsRequirements(v, c) /\ Suits(v.type, c) /\ Load(v.type, c) <= RatedCapacity(v)
  BY DEF CanHandle, ValidateVehicle, MatchScore, Refused
<1>3. MeetsRequirements(v, l)
  <2>1. v.vehicleCapacity \in Nat
    BY DEF Vehicles
  <2> QED BY <1>1, <1>2, <2>1 DEF MeetsRequirements
<1>4. Suits(v.type, l)
  BY <1>1, <1>2
     DEF Suits, TrailerSuits, TipperSuits, BusSuits, MiningSuits, GenericSuits
<1>5. Load(v.type, l) <= RatedCapacity(v)
  <2>1. Load(v.type, l) \in Nat /\ Load(v.type, c) \in Nat
    BY <1>1 DEF Load
  <2>2. RatedCapacity(v) \in Nat
    BY DEF RatedCapacity, Vehicles
  <2>3. Load(v.type, l) <= Load(v.type, c)
    BY LoadMonotone
  <2> QED BY <1>2, <2>1, <2>2, <2>3
<1> QED BY <1>3, <1>4, <1>5 DEF CanHandle, ValidateVehicle, MatchScore

\* A vehicle that can handle a cargo can handle it with fewer demands, but for
\* a tipper and packaged goods.
LEMMA FewerDemandsFit ==
  ASSUME NEW v \in Vehicles, NEW c \in Cargoes, NEW N \in SUBSET c.needs, CanHandle(v, c),
         ~(v.type = "TIPPER_TRUCK" /\ c.cargoType = "PACKAGED")
  PROVE  CanHandle(v, [c EXCEPT !.needs = N])
<1> DEFINE l == [c EXCEPT !.needs = N]
<1>1. /\ l.cargoType = c.cargoType /\ l.weight = c.weight /\ l.volume = c.volume
      /\ l.needs = N /\ N \subseteq c.needs /\ c.cargoType \in CargoTypes
  BY DEF Cargoes
<1>2. MeetsRequirements(v, c) /\ Suits(v.type, c) /\ Load(v.type, c) <= RatedCapacity(v)
  BY DEF CanHandle, ValidateVehicle, MatchScore, Refused
<1>3. MeetsRequirements(v, l)
  BY <1>1, <1>2 DEF MeetsRequirements
<1>4. Suits(v.type, l)
  <2>1. v.type \in VehicleTypes
    BY DEF Vehicles
  <2>2. CASE v.type = "TIPPER_TRUCK"
    BY <1>1, <1>2, <2>2 DEF Suits, TipperSuits, CargoTypes
  <2>3. CASE v.type # "TIPPER_TRUCK"
    BY <1>1, <1>2, <2>1, <2>3
       DEF VehicleTypes, Suits, TrailerSuits, BusSuits, MiningSuits, GenericSuits
  <2> QED BY <2>2, <2>3
<1>5. Load(v.type, l) <= RatedCapacity(v)
  BY <1>1, <1>2 DEF Load
<1> QED BY <1>3, <1>4, <1>5 DEF CanHandle, ValidateVehicle, MatchScore

----------------------------------------------------------------------------
\* Choosing from a fleet.

\* A set of naturals that is not empty has a least element.
LEMMA Least ==
  ASSUME NEW S \in SUBSET Nat, S # {}
  PROVE  \E x \in S : \A y \in S : x <= y
<1> DEFINE R == {r \in Nat \X Nat : r[1] < r[2]}
<1>1. IsWellFoundedOn(R, Nat)
  BY NatLessThanWellFounded DEF OpToRel
<1>2. PICK x \in S : \A y \in S : <<y, x>> \notin R
  <2> HIDE DEF R
  <2> QED BY <1>1, WFMin
<1>3. ASSUME NEW y \in S PROVE x <= y
  <2>1. <<y, x>> \notin R /\ y \in Nat /\ x \in Nat
    BY <1>2
  <2> QED BY <2>1
<1> QED BY <1>3

\* The vehicles of a fleet that can take the cargo, and which of two is ranked first.
Suitable(fleet, c) == {i \in 1 .. Len(fleet) : CanHandle(fleet[i], c)}

Ahead(fleet, c, i, j) ==
  \/ Score(fleet[i], c) > Score(fleet[j], c)
  \/ Score(fleet[i], c) = Score(fleet[j], c) /\ i < j

\* Position k is the best of the first n, or 0 if none of them can take the cargo.
BestOf(fleet, c, n, k) ==
  LET S == {i \in Suitable(fleet, c) : i <= n}
  IN IF S = {} THEN k = 0 ELSE k \in S /\ \A i \in S \ {k} : Ahead(fleet, c, k, i)

\* One step of the pass over the fleet.
Better(fleet, c, i, k) ==
  IF CanHandle(fleet[i], c) /\ (k = 0 \/ Score(fleet[i], c) > Score(fleet[k], c)) THEN i ELSE k

\* Scores are bounded numbers.
LEMMA ScoreTypes ==
  ASSUME NEW fleet \in Seq(Vehicles), NEW c \in Cargoes
  PROVE  Len(fleet) \in Nat /\ \A i \in 1 .. Len(fleet) : Score(fleet[i], c) \in 0 .. 100
<1>1. ASSUME NEW i \in 1 .. Len(fleet) PROVE Score(fleet[i], c) \in 0 .. 100
  <2>1. fleet[i] \in Vehicles
    OBVIOUS
  <2>2. ValidateVehicle(fleet[i], c).matchScore \in 0 .. 100
    BY <2>1, ScoresBounded
  <2> QED BY <2>2 DEF Score
<1> QED BY <1>1

\* Vehicles are ranked in a strict order.
LEMMA AheadOrders ==
  ASSUME NEW fleet \in Seq(Vehicles), NEW c \in Cargoes,
         NEW i \in 1 .. Len(fleet), NEW j \in 1 .. Len(fleet), NEW k \in 1 .. Len(fleet)
  PROVE  /\ Ahead(fleet, c, i, j) => i # j /\ ~Ahead(fleet, c, j, i)
         /\ i # j => Ahead(fleet, c, i, j) \/ Ahead(fleet, c, j, i)
         /\ Ahead(fleet, c, i, j) /\ Ahead(fleet, c, j, k) => Ahead(fleet, c, i, k)
<1>1. /\ Score(fleet[i], c) \in Int /\ Score(fleet[j], c) \in Int
      /\ Score(fleet[k], c) \in Int /\ i \in Int /\ j \in Int /\ k \in Int
  <2>1. /\ Score(fleet[i], c) \in 0 .. 100 /\ Score(fleet[j], c) \in 0 .. 100
        /\ Score(fleet[k], c) \in 0 .. 100
    BY ScoreTypes
  <2>2. Len(fleet) \in Nat
    BY ScoreTypes
  <2>3. i \in Int /\ j \in Int /\ k \in Int
    BY <2>2
  <2>4. \A x \in 0 .. 100 : x \in Int
    OBVIOUS
  <2> QED BY <2>1, <2>3, <2>4, Zenon
<1> QED BY <1>1 DEF Ahead

\* A step of the pass keeps the best.
LEMMA PassStep ==
  ASSUME NEW fleet \in Seq(Vehicles), NEW c \in Cargoes, NEW n \in 1 .. Len(fleet), NEW k,
         BestOf(fleet, c, n - 1, k)
  PROVE  BestOf(fleet, c, n, Better(fleet, c, n, k))
<1> DEFINE S == {i \in Suitable(fleet, c) : i <= n - 1}
           T == {i \in Suitable(fleet, c) : i <= n}
           b == Better(fleet, c, n, k)
<1>1. Len(fleet) \in Nat /\ \A i \in 1 .. Len(fleet) : Score(fleet[i], c) \in 0 .. 100
  BY ScoreTypes
<1>2. IF CanHandle(fleet[n], c) THEN T = S \cup {n} ELSE T = S
  BY <1>1 DEF Suitable
<1>3. IF S = {} THEN k = 0 ELSE k \in S /\ \A i \in S \ {k} : Ahead(fleet, c, k, i)
  BY DEF BestOf
<1>4. S \subseteq 1 .. (n - 1) /\ T \subseteq 1 .. n
  BY <1>1 DEF Suitable
<1> SUFFICES IF T = {} THEN b = 0 ELSE b \in T /\ \A i \in T \ {b} : Ahead(fleet, c, b, i)
  BY DEF BestOf
<1>5. CASE ~CanHandle(fleet[n], c)
  BY <1>2, <1>3, <1>5 DEF Better
<1>6. CASE CanHandle(fleet[n], c) /\ S = {}
  BY <1>2, <1>3, <1>6 DEF Better
<1>7. CASE CanHandle(fleet[n], c) /\ S # {}
  <2>1. k \in S /\ k \in 1 .. (n - 1) /\ k # 0 /\ T = S \cup {n}
    BY <1>2, <1>3, <1>4, <1>7
  <2>2. \A i \in S \ {k} : Ahead(fleet, c, k, i)
    BY <1>3, <1>7
  <2> HIDE DEF S, T
  <2>3. CASE Score(fleet[n], c) > Score(fleet[k], c)
    <3>1. b = n
      BY <1>7, <2>3 DEF Better
    <3>2. k \in 1 .. Len(fleet) /\ n \in 1 .. Len(fleet) /\ Ahead(fleet, c, n, k)
      BY <1>1, <2>1, <2>3 DEF Ahead
    <3>3. ASSUME NEW i \in S PROVE Ahead(fleet, c, n, i)
      <4>1. i \in 1 .. Len(fleet)
        BY <1>1, <1>4
      <4>2. i = k \/ Ahead(fleet, c, k, i)
        BY <2>2
      <4> QED BY <3>2, <4>1, <4>2, AheadOrders
    <3> QED BY <2>1, <3>1, <3>3
  <2>4. CASE ~(Score(fleet[n], c) > Score(fleet[k], c))
    <3>1. b = k
      BY <2>1, <2>4 DEF Better
    <3>2. Ahead(fleet, c, k, n)
      <4>1. k \in 1 .. Len(fleet) /\ n \in 1 .. Len(fleet) /\ k < n
        BY <1>1, <2>1
      <4>2. k # n /\ ~Ahead(fleet, c, n, k)
        BY <2>4, <4>1 DEF Ahead
      <4> QED BY <4>1, <4>2, AheadOrders
    <3> QED BY <2>1, <2>2, <3>1, <3>2
  <2> QED BY <2>3, <2>4
<1> QED BY <1>5, <1>6, <1>7

\* Before the pass there is no best.
LEMMA PassBegins ==
  ASSUME NEW fleet \in Seq(Vehicles), NEW c \in Cargoes
  PROVE  BestOf(fleet, c, 0, 0)
BY DEF BestOf, Suitable

\* There is one best of the first n, and only one.
LEMMA BestExists ==
  ASSUME NEW fleet \in Seq(Vehicles), NEW c \in Cargoes, NEW n \in 0 .. Len(fleet)
  PROVE  \E k : BestOf(fleet, c, n, k)
<1> DEFINE U == {i \in 0 .. Len(fleet) : ~ \E k : BestOf(fleet, c, i, k)}
<1> SUFFICES ASSUME U # {} PROVE FALSE
  OBVIOUS
<1>1. PICK i \in U : \A j \in U : i <= j
  <2> U \in SUBSET Nat
    OBVIOUS
  <2> HIDE DEF U
  <2> QED BY Least
<1>2. i # 0
  BY PassBegins
<1>3. i \in 1 .. Len(fleet) /\ i - 1 \in 0 .. Len(fleet) /\ i - 1 \notin U
  BY <1>1, <1>2
<1>4. PICK k : BestOf(fleet, c, i - 1, k)
  BY <1>3
<1> QED BY <1>3, <1>4, PassStep

LEMMA BestUnique ==
  ASSUME NEW fleet \in Seq(Vehicles), NEW c \in Cargoes, NEW n \in 0 .. Len(fleet),
         NEW k, NEW l, BestOf(fleet, c, n, k), BestOf(fleet, c, n, l)
  PROVE  k = l
<1> DEFINE S == {i \in Suitable(fleet, c) : i <= n}
<1> SUFFICES ASSUME k # l PROVE FALSE
  OBVIOUS
<1>1. k \in S /\ l \in S /\ Ahead(fleet, c, k, l) /\ Ahead(fleet, c, l, k)
  BY DEF BestOf
<1>2. k \in 1 .. Len(fleet) /\ l \in 1 .. Len(fleet)
  BY <1>1 DEF Suitable
<1> QED BY <1>1, <1>2, AheadOrders

\* What the recursion over the fleet computes.
LEMMA PassFindsBest ==
  ASSUME NEW fleet \in Seq(Vehicles), NEW c \in Cargoes
  PROVE  BestOf(fleet, c, Len(fleet), FindBestMatch(fleet, c))
<1> DEFINE Pass(f) ==
             [i \in 0 .. Len(fleet) |->
                IF i = 0 THEN 0
                ELSE IF CanHandle(fleet[i], c)
                          /\ (f[i - 1] = 0 \/ Score(fleet[i], c) > Score(fleet[f[i - 1]], c))
                     THEN i ELSE f[i - 1]]
           best == CHOOSE f : f = Pass(f)
           top == [i \in 0 .. Len(fleet) |-> CHOOSE k : BestOf(fleet, c, i, k)]
<1>1. FindBestMatch(fleet, c) = best[Len(fleet)]
  BY DEF FindBestMatch
<1>2. \A i \in 0 .. Len(fleet) : BestOf(fleet, c, i, top[i])
  BY BestExists
<1>3. top = Pass(top)
  <2>1. ASSUME NEW i \in 0 .. Len(fleet) PROVE top[i] = Pass(top)[i]
    <3>1. CASE i = 0
      <4>1. BestOf(fleet, c, 0, top[0]) /\ Pass(top)[0] = 0
        BY <1>2, <3>1
      <4> HIDE DEF top, Pass
      <4> QED BY <3>1, <4>1, PassBegins, BestUnique
    <3>2. CASE i # 0
      <4>1. i \in 1 .. Len(fleet) /\ i - 1 \in 0 .. Len(fleet)
        BY <3>2
      <4>2. BestOf(fleet, c, i - 1, top[i - 1]) /\ BestOf(fleet, c, i, top[i])
        BY <1>2, <4>1
      <4>3. Pass(top)[i] = Better(fleet, c, i, top[i - 1])
        <5> HIDE DEF top
        <5> QED BY <3>2 DEF Better
      <4> HIDE DEF top, Pass
      <4>4. BestOf(fleet, c, i, Pass(top)[i])
        BY <4>1, <4>2, <4>3, PassStep
      <4> QED BY <4>2, <4>4, BestUnique
    <3> QED BY <3>1, <3>2
  <2>2. /\ top = [i \in 0 .. Len(fleet) |-> top[i]]
        /\ Pass(top) = [i \in 0 .. Len(fleet) |-> Pass(top)[i]]
    OBVIOUS
  <2> HIDE DEF top, Pass
  <2> QED BY <2>1, <2>2
<1>4. best = Pass(best)
  <2> HIDE DEF top, Pass
  <2> QED BY <1>3
<1>5. /\ best[0] = 0
      /\ \A i \in 1 .. Len(fleet) : best[i] = Better(fleet, c, i, best[i - 1])
  <2> HIDE DEF best
  <2>1. Pass(best)[0] = 0
    OBVIOUS
  <2>2. ASSUME NEW i \in 1 .. Len(fleet)
        PROVE  Pass(best)[i] = Better(fleet, c, i, best[i - 1])
    BY DEF Better
  <2> HIDE DEF Pass
  <2> QED BY <1>4, <2>1, <2>2
<1> DEFINE U == {i \in 0 .. Len(fleet) : ~BestOf(fleet, c, i, best[i])}
<1>6. U = {}
  <2> HIDE DEF best
  <2> SUFFICES ASSUME U # {} PROVE FALSE
    OBVIOUS
  <2>1. PICK i \in U : \A j \in U : i <= j
    <3> U \in SUBSET Nat
      OBVIOUS
    <3> HIDE DEF U
    <3> QED BY Least
  <2>2. i # 0
    BY <1>5, PassBegins
  <2>3. i \in 1 .. Len(fleet) /\ i - 1 \in 0 .. Len(fleet) /\ i - 1 \notin U
    BY <2>1, <2>2
  <2>4. BestOf(fleet, c, i - 1, best[i - 1])
    BY <2>3
  <2> QED BY <1>5, <2>3, <2>4, PassStep
<1>7. Len(fleet) \in 0 .. Len(fleet)
  OBVIOUS
<1> HIDE DEF best
<1> QED BY <1>1, <1>6, <1>7

\* The suggestions begin with the best, and asking for fewer cuts their end.
LEMMA SuggestionsAgree ==
  ASSUME NEW fleet \in Seq(Vehicles), NEW c \in Cargoes
  PROVE  LET all == SuggestVehicles(fleet, c, Len(fleet))
         IN /\ FindBestMatch(fleet, c) = (IF all = <<>> THEN 0 ELSE all[1])
            /\ \A n \in 0 .. Len(fleet) :
                 SuggestVehicles(fleet, c, n)
                   = SubSeq(all, 1, IF n < Len(all) THEN n ELSE Len(all))
<1> DEFINE fit == Suitable(fleet, c)
           size == Cardinality(fit)
           Before(i) ==
             {j \in fit : \/ Score(fleet[j], c) > Score(fleet[i], c)
                          \/ Score(fleet[j], c) = Score(fleet[i], c) /\ j < i}
           nth(r) == CHOOSE i \in fit : Cardinality(Before(i)) = r - 1
           all == SuggestVehicles(fleet, c, Len(fleet))
           best == FindBestMatch(fleet, c)
<1>1. \A n : SuggestVehicles(fleet, c, n) = [r \in 1 .. (IF size < n THEN size ELSE n) |-> nth(r)]
  BY DEF SuggestVehicles, Suitable
<1>2. IsFiniteSet(fit) /\ size \in Nat /\ size <= Len(fleet) /\ Len(fleet) \in Nat
  <2>1. Len(fleet) \in Nat /\ fit \subseteq 1 .. Len(fleet)
    BY DEF Suitable
  <2> DEFINE m == Len(fleet)
  <2> HIDE DEF fit, m
  <2>2. IsFiniteSet(1 .. m) /\ Cardinality(1 .. m) = m
    <3>1. m \in Int /\ 1 \in Int /\ m - 1 + 1 = m /\ (1 > m => m = 0)
      BY <2>1 DEF m
    <3> QED BY <3>1, FS_Interval
  <2>3. IsFiniteSet(fit) /\ Cardinality(fit) <= Len(fleet)
    BY <2>1, <2>2, FS_Subset DEF m
  <2> QED BY <2>1, <2>3, FS_CardinalityType
<1>3. all = [r \in 1 .. size |-> nth(r)] /\ Len(all) = size
  <2> HIDE DEF nth, fit
  <2>1. all = [r \in 1 .. size |-> nth(r)]
    <3>1. (IF size < Len(fleet) THEN size ELSE Len(fleet)) = size
      BY <1>2
    <3> QED BY <1>1, <3>1
  <2> HIDE DEF all
  <2> QED BY <1>2, <2>1
<1>4. BestOf(fleet, c, Len(fleet), best)
  BY PassFindsBest
<1>5. IF fit = {} THEN best = 0 ELSE best \in fit /\ \A i \in fit \ {best} : Ahead(fleet, c, best, i)
  <2>1. {i \in Suitable(fleet, c) : i <= Len(fleet)} = fit
    BY <1>2 DEF Suitable
  <2> HIDE DEF fit, best
  <2> QED BY <1>4, <2>1 DEF BestOf
<1>6. best = IF all = <<>> THEN 0 ELSE all[1]
  <2>1. CASE fit = {}
    <3>1. size = 0
      BY <2>1, FS_EmptySet
    <3>2. all = <<>>
      <4> HIDE DEF all, fit, nth
      <4> QED BY <1>3, <3>1
    <3> QED BY <1>5, <2>1, <3>2
  <2>2. CASE fit # {}
    <3>1. size # 0
      <4> HIDE DEF fit
      <4> QED BY <1>2, <2>2, FS_EmptySet
    <3>2. all # <<>> /\ all[1] = nth(1)
      <4> HIDE DEF all, fit, nth
      <4>1. 1 \in 1 .. size
        BY <1>2, <3>1
      <4> QED BY <1>2, <1>3, <3>1, <4>1
    <3>3. best \in fit /\ \A i \in fit \ {best} : Ahead(fleet, c, best, i)
      BY <1>5, <2>2
    <3>4. \A i \in fit : i \in 1 .. Len(fleet)
      BY DEF Suitable
    <3>5. Before(best) = {}
      <4> SUFFICES ASSUME NEW j \in Before(best) PROVE FALSE
        OBVIOUS
      <4>1. j \in fit /\ Ahead(fleet, c, j, best)
        BY DEF Ahead
      <4> HIDE DEF fit, best, Before
      <4>2. j \in 1 .. Len(fleet) /\ best \in 1 .. Len(fleet)
        BY <3>3, <3>4, <4>1
      <4>3. j # best /\ ~Ahead(fleet, c, best, j)
        BY <4>1, <4>2, AheadOrders
      <4> QED BY <3>3, <4>1, <4>3
    <3>6. Cardinality(Before(best)) = 0
      BY <3>5, FS_EmptySet
    <3>7. ASSUME NEW i \in fit, Cardinality(Before(i)) = 0 PROVE i = best
      <4>1. Before(i) = {}
        <5>1. Before(i) \subseteq fit
          OBVIOUS
        <5> HIDE DEF Before, fit
        <5> QED BY <1>2, <3>7, <5>1, FS_Subset, FS_EmptySet
      <4>2. i # best => best \in Before(i)
        BY <3>3 DEF Ahead
      <4> QED BY <4>1, <4>2
    <3>8. nth(1) = best
      <4> HIDE DEF Before, fit, best
      <4>1. \A i \in fit : Cardinality(Before(i)) = 1 - 1 <=> i = best
        BY <3>3, <3>6, <3>7
      <4> QED BY <3>3, <4>1
    <3> QED BY <3>2, <3>8
  <2> QED BY <2>1, <2>2
<1>7. ASSUME NEW n \in 0 .. Len(fleet)
      PROVE  SuggestVehicles(fleet, c, n) = SubSeq(all, 1, IF n < Len(all) THEN n ELSE Len(all))
  <2> DEFINE m == IF n < size THEN n ELSE size
  <2>1. m \in Nat /\ m <= size /\ m = (IF size < n THEN size ELSE n)
    BY <1>2
  <2>2. SuggestVehicles(fleet, c, n) = [r \in 1 .. m |-> nth(r)]
    <3> HIDE DEF nth, fit, m
    <3> QED BY <1>1, <2>1
  <2>3. SubSeq(all, 1, m) = [r \in 1 .. m |-> all[r]]
    <3>1. SubSeq(all, 1, m) = [r \in 1 .. m |-> all[1 + r - 1]]
      <4> HIDE DEF all, m
      <4>1. 1 + m - 1 = m
        BY <2>1
      <4> QED BY <2>1
    <3>2. \A r \in 1 .. m : 1 + r - 1 = r
      BY <2>1
    <3> HIDE DEF all, m
    <3> QED BY <3>1, <3>2
  <2>4. \A r \in 1 .. m : all[r] = nth(r)
    <3> HIDE DEF all, m, nth, fit
    <3> QED BY <1>2, <1>3, <2>1
  <2> HIDE DEF all, nth, fit
  <2> QED BY <1>3, <2>2, <2>3, <2>4
<1> HIDE DEF all, best
<1> QED BY <1>6, <1>7 DEF all, best

----------------------------------------------------------------------------
\* The inductive invariant.

\* near holds the closest drivers of the radius, in ascending order, and all of
\* them if they are no more than Count.
NearInv ==
  /\ \A i \in 1 .. Len(near) : near[i] \in InRadius(at)
  /\ \A i, j \in 1 .. Len(near) :
       i < j => near[i] # near[j] /\ at[near[i]] <= at[near[j]]
  /\ \A i \in 1 .. Len(near) : \A e \in InRadius(at) :
       at[e] < at[near[i]] => \E j \in 1 .. Len(near) : near[j] = e
  /\ pc \notin {"idle", "failed"} /\ Cardinality(InRadius(at)) <= Count =>
       \A e \in InRadius(at) : \E j \in 1 .. Len(near) : near[j] = e

\* What the history says of the statuses, and of the drivers asked so far.
HistoryInv ==
  /\ pc \notin {"idle", "failed"} =>
       \A d \in Drivers : /\ status[d] = "ONLINE" => d \in seen
                          /\ d \in steady => status[d] = "ONLINE"
  /\ \A k \in online : near[k] \in seen
  /\ \A k \in 1 .. asked : near[k] \in steady => k \in online

\* What each step of the search has done.
PhaseInv ==
  /\ pc = "idle" => near = <<>> /\ asked = 0 /\ online = {}
  /\ pc = "ask" => asked < Len(near)
  /\ pc \in {"rows", "match", "done"} => asked = Len(near)
  /\ pc # "done" => matches = {}
  /\ pc = "match" => cargo # NoCargo

\* Exactly the fit drivers among those considered are offered the booking, but
\* for the failures.
MatchInv ==
  /\ \A m \in matches :
       m.driver \in Considered /\ m.distance = at[m.driver] /\ Fit(m.driver)
  /\ pc = "done" => \A e \in Considered \ failed : Fit(e) => e \in Offered

Inv == TypeOK /\ NearInv /\ HistoryInv /\ PhaseInv /\ MatchInv

----------------------------------------------------------------------------
\* Facts about the operators of the search.

\* Positions of a sequence are finitely many.
LEMMA FinitePositions ==
  ASSUME NEW m \in Nat, NEW N \in SUBSET (1 .. m)
  PROVE  IsFiniteSet(N)
<1>1. IsFiniteSet(1 .. m)
  BY FS_Interval
<1> QED BY <1>1, FS_Subset

\* Who comes later has more of a set of positions before it.
LEMMA FewerBefore ==
  ASSUME NEW m \in Nat, NEW N \in SUBSET (1 .. m), NEW j \in N, NEW k \in N, j < k
  PROVE  /\ Cardinality({i \in N : i < j}) \in Nat
         /\ Cardinality({i \in N : i < k}) \in Nat
         /\ Cardinality({i \in N : i < j}) < Cardinality({i \in N : i < k})
<1> DEFINE below(l) == {i \in N : i < l}
<1>1. below(j) \in SUBSET below(k) /\ below(k) \in SUBSET N
  <2>1. \A i \in N : i < j => i < k
    OBVIOUS
  <2> QED BY <2>1
<1>2. j \in below(k) /\ j \notin below(j)
  OBVIOUS
<1> HIDE DEF below
<1>3. IsFiniteSet(below(k))
  BY <1>1, FinitePositions, FS_Subset
<1>4. /\ IsFiniteSet(below(j))
      /\ Cardinality(below(j)) <= Cardinality(below(k))
      /\ Cardinality(below(j)) # Cardinality(below(k))
  BY <1>1, <1>2, <1>3, FS_Subset
<1>5. Cardinality(below(j)) \in Nat /\ Cardinality(below(k)) \in Nat
  BY <1>3, <1>4, FS_CardinalityType
<1>6. Cardinality(below(j)) < Cardinality(below(k))
  BY <1>4, <1>5
<1> QED BY <1>5, <1>6 DEF below

\* Among the n first numbers of a set of positions there are at most n.
LEMMA FirstBounded ==
  ASSUME NEW n \in Nat, NEW m \in Nat, NEW N \in SUBSET (1 .. m)
  PROVE  IsFiniteSet(First(n, N)) /\ Cardinality(First(n, N)) <= n
<1> DEFINE F == First(n, N)
           rank == [k \in F |-> Cardinality({j \in N : j < k})]
<1>1. F \subseteq N /\ F \in SUBSET (1 .. m)
  BY DEF First
<1>2. IsFiniteSet(F) /\ IsFiniteSet(N)
  BY <1>1, FinitePositions
<1>3. \A k \in F : rank[k] \in 0 .. n - 1
  <2> SUFFICES ASSUME NEW k \in F PROVE rank[k] \in 0 .. n - 1
    OBVIOUS
  <2> DEFINE L == {j \in N : j < k}
  <2>1. L \in SUBSET (1 .. m)
    OBVIOUS
  <2>2. Cardinality(L) \in Nat
    <3> HIDE DEF L
    <3> QED BY <2>1, FinitePositions, FS_CardinalityType
  <2>3. Cardinality(L) < n
    BY DEF First
  <2> QED BY <2>2, <2>3
<1>4. \A j, k \in F : rank[j] = rank[k] => j = k
  <2> SUFFICES ASSUME NEW j \in F, NEW k \in F, j < k PROVE rank[j] # rank[k]
    <3>1. \A j, k \in F : j < k \/ k < j \/ j = k
      BY <1>1
    <3> QED BY <3>1
  <2>1. rank[j] \in Nat /\ rank[k] \in Nat /\ rank[j] < rank[k]
    BY <1>1, FewerBefore
  <2> QED BY <2>1
<1>5. rank \in Injection(F, 0 .. n - 1)
  BY <1>3, <1>4 DEF Injection, IsInjective
<1>6. IsFiniteSet(0 .. n - 1) /\ Cardinality(0 .. n - 1) = n
  BY FS_Interval
<1> HIDE DEF rank
<1>7. Cardinality(F) <= Cardinality(0 .. n - 1)
  BY <1>5, <1>6, FS_Injection
<1> QED BY <1>2, <1>6, <1>7

\* First is closed downwards: who precedes one of the first is one of them.
LEMMA FirstDownward ==
  ASSUME NEW n \in Nat, NEW m \in Nat, NEW N \in SUBSET (1 .. m),
         NEW k \in First(n, N), NEW j \in N, j < k
  PROVE  j \in First(n, N)
<1>1. k \in N /\ Cardinality({i \in N : i < k}) < n
  BY DEF First
<1>2. /\ Cardinality({i \in N : i < j}) \in Nat
      /\ Cardinality({i \in N : i < k}) \in Nat
      /\ Cardinality({i \in N : i < j}) < Cardinality({i \in N : i < k})
  BY <1>1, FewerBefore
<1>3. Cardinality({i \in N : i < j}) < n
  BY <1>1, <1>2
<1> QED BY <1>3 DEF First

\* If the whole set is no larger than n, all of it is first.
LEMMA FirstOfFew ==
  ASSUME NEW n \in Nat, NEW m \in Nat, NEW N \in SUBSET (1 .. m), Cardinality(N) <= n
  PROVE  First(n, N) = N
<1>1. IsFiniteSet(N)
  BY FinitePositions
<1>2. SUFFICES ASSUME NEW k \in N
               PROVE  Cardinality({j \in N : j < k}) < n
  BY DEF First
<1> DEFINE L == {j \in N : j < k}
<1>3. L \subseteq N /\ k \notin L /\ k \in N
  OBVIOUS
<1>4. IsFiniteSet(L) /\ Cardinality(L) <= Cardinality(N) /\ Cardinality(L) # Cardinality(N)
  BY <1>1, <1>3, FS_Subset
<1>5. Cardinality(L) \in Nat /\ Cardinality(N) \in Nat
  BY <1>1, <1>4, FS_CardinalityType
<1> QED BY <1>4, <1>5

\* What Redis returns is a sequence of different drivers that has all of S.
LEMMA AscendingFacts ==
  ASSUME NEW S \in SUBSET Drivers, NEW s \in Ascending(S), IsFiniteSet(S)
  PROVE  /\ s \in Seq(Drivers) /\ Len(s) \in Nat /\ Len(s) = Cardinality(S)
         /\ \A i \in 1 .. Len(s) : s[i] \in S
         /\ \A i, j \in 1 .. Len(s) : i < j => s[i] # s[j] /\ geo[s[i]] <= geo[s[j]]
         /\ \A e \in S : \E j \in 1 .. Len(s) : s[j] = e
<1>1. Cardinality(S) \in Nat
  BY FS_CardinalityType
<1> DEFINE n == Cardinality(S)
<1>2. s \in [1 .. n -> S] /\ \A i, j \in 1 .. n : i < j => s[i] # s[j] /\ geo[s[i]] <= geo[s[j]]
  BY DEF Ascending
<1>3. s \in Seq(Drivers) /\ Len(s) = n
  BY <1>1, <1>2
<1>4. s \in Injection(1 .. n, S)
  <2>1. \A i, j \in 1 .. n : s[i] = s[j] => i = j
    BY <1>1, <1>2
  <2> QED BY <1>2, <2>1 DEF Injection, IsInjective
<1>5. Cardinality(1 .. n) = Cardinality(S)
  BY <1>1, FS_Interval
<1>6. s \in Surjection(1 .. n, S)
  BY <1>4, <1>5, FS_Injection
<1> QED BY <1>1, <1>2, <1>3, <1>6 DEF Surjection

\* findClosestDriver returns at most Closest drivers, each of them asked.
LEMMA ConsideredFacts ==
  ASSUME TypeOK
  PROVE  /\ Len(near) \in Nat /\ online \in SUBSET (1 .. Len(near))
         /\ First(Closest, online) \subseteq online
         /\ Considered \subseteq Drivers
         /\ IsFiniteSet(Considered) /\ Cardinality(Considered) <= Closest
<1> DEFINE F == First(Closest, online)
           pick == [k \in F |-> near[k]]
<1>1. /\ near \in Seq(Drivers) /\ Len(near) \in Nat /\ asked \in 0 .. Len(near)
      /\ online \in SUBSET (1 .. asked)
  BY DEF TypeOK
<1>2. online \in SUBSET (1 .. Len(near))
  BY <1>1
<1>3. F \subseteq online
  BY DEF First
<1>4. Considered \subseteq Drivers
  <2>1. \A k \in 1 .. Len(near) : near[k] \in Drivers
    BY <1>1
  <2>2. \A k \in F : k \in 1 .. Len(near)
    BY <1>2, <1>3
  <2> HIDE DEF F
  <2>3. Considered = {near[k] : k \in F}
    BY DEF Considered, F
  <2> QED BY <2>1, <2>2, <2>3
<1>5. IsFiniteSet(F) /\ Cardinality(F) <= Closest
  BY <1>1, <1>2, FirstBounded, SearchAssumption
<1>6. pick \in Surjection(F, Considered)
  BY DEF Considered, Surjection
<1> HIDE DEF pick
<1>7. IsFiniteSet(Considered) /\ Cardinality(Considered) <= Cardinality(F)
  BY <1>5, <1>6, FS_Surjection
<1>8. Cardinality(Considered) \in Nat /\ Cardinality(F) \in Nat
  BY <1>5, <1>7, FS_CardinalityType
<1>9. Cardinality(Considered) <= Closest
  BY <1>5, <1>7, <1>8, SearchAssumption
<1> QED BY <1>1, <1>2, <1>3, <1>4, <1>7, <1>9

\* They are drivers GEOSEARCH saw in the radius.
LEMMA ConsideredPlaced ==
  ASSUME TypeOK, NearInv
  PROVE  \A d \in Considered : d \in InRadius(at) /\ at[d] \in Distances
<1> SUFFICES ASSUME NEW k \in First(Closest, online)
             PROVE  near[k] \in InRadius(at) /\ at[near[k]] \in Distances
  BY DEF Considered
<1>1. k \in 1 .. Len(near)
  BY ConsideredFacts
<1>2. near[k] \in InRadius(at)
  BY <1>1 DEF NearInv
<1> QED BY <1>2 DEF InRadius, TypeOK

\* Nobody can be considered before one of the drivers was found online.
LEMMA NobodyConsidered ==
  ASSUME online = {}
  PROVE  Considered = {}
BY DEF Considered, First

----------------------------------------------------------------------------
\* The invariant holds initially and is preserved by every step.

\* The invariant holds initially.
LEMMA Initial == Init => Inv
<1> SUFFICES ASSUME Init PROVE Inv
  OBVIOUS
<1> USE DEF Init
<1>1. TypeOK
  BY ScenariosAssumption DEF TypeOK, Matches
<1>2. NearInv
  BY DEF NearInv
<1>3. HistoryInv
  BY DEF HistoryInv
<1>4. PhaseInv
  BY DEF PhaseInv
<1>5. MatchInv
  BY DEF MatchInv
<1> QED BY <1>1, <1>2, <1>3, <1>4, <1>5 DEF Inv

\* The parts of the invariant that only read the search and the booking.
LEMMA SearchUnchanged ==
  ASSUME NearInv, PhaseInv, MatchInv, UNCHANGED <<booking, search>>
  PROVE  NearInv' /\ PhaseInv' /\ MatchInv'
<1> USE DEF booking, search
<1>1. NearInv'
  BY DEF NearInv, InRadius
<1>2. PhaseInv'
  BY DEF PhaseInv
<1>3. Considered' = Considered /\ Offered' = Offered
  BY DEF Considered, Offered, First
<1>4. \A d : Fit(d)' <=> Fit(d)
  BY DEF Fit
<1>5. MatchInv'
  BY <1>3, <1>4 DEF MatchInv
<1> QED BY <1>1, <1>2, <1>5

\* It is preserved when a driver goes online, offline or on a trip.
LEMMA StatusStep ==
  ASSUME Inv, NEW d \in Drivers, NEW s \in Statuses, PutStatus(d, s)
  PROVE  Inv'
<1> USE DEF PutStatus
<1>1. TypeOK'
  BY DEF Inv, TypeOK, booking, search
<1>2. HistoryInv'
  <2>1. seen \subseteq seen' /\ steady' \subseteq steady
    OBVIOUS
  <2>2. ASSUME pc \notin {"idle", "failed"}, NEW e \in Drivers
        PROVE  /\ status'[e] = "ONLINE" => e \in seen'
               /\ e \in steady' => status'[e] = "ONLINE"
    <3>1. status'[e] = IF e = d THEN s ELSE status[e]
      BY DEF Inv, TypeOK
    <3> QED BY <2>2, <3>1 DEF Inv, HistoryInv
  <2> QED BY <2>1, <2>2 DEF Inv, HistoryInv, search
<1> QED BY <1>1, <1>2, SearchUnchanged DEF Inv

\* It is preserved when a driver moves.
LEMMA MoveStep ==
  ASSUME Inv, NEW d \in Drivers, NEW km \in Distances, UpdateLocation(d, km)
  PROVE  Inv'
<1> USE DEF UpdateLocation
<1>1. TypeOK'
  BY DEF Inv, TypeOK, booking, search
<1>2. HistoryInv'
  BY DEF Inv, HistoryInv, search
<1> QED BY <1>1, <1>2, SearchUnchanged DEF Inv

\* GEOSEARCH establishes what the invariant says of the drivers nearby.
LEMMA GeoSearchStep ==
  ASSUME Inv, GeoSearch
  PROVE  Inv'
<1> USE DEF GeoSearch
<1>1. PICK S \in ClosestSets : near' \in Ascending(S)
  OBVIOUS
<1>2. /\ S \subseteq InRadius(geo) /\ S \in SUBSET Drivers
      /\ S # InRadius(geo) => Cardinality(S) = Count
      /\ \A d \in S, e \in InRadius(geo) \ S : geo[d] <= geo[e]
  BY <1>1 DEF ClosestSets, InRadius
<1>3. IsFiniteSet(S) /\ IsFiniteSet(InRadius(geo))
  <2>1. InRadius(geo) \in SUBSET Drivers
    BY DEF InRadius
  <2> QED BY <1>2, <2>1, FS_Subset, SearchAssumption
<1>4. /\ near' \in Seq(Drivers) /\ Len(near') \in Nat
      /\ \A i \in 1 .. Len(near') : near'[i] \in S
      /\ \A i, j \in 1 .. Len(near') :
           i < j => near'[i] # near'[j] /\ geo[near'[i]] <= geo[near'[j]]
      /\ \A e \in S : \E j \in 1 .. Len(near') : near'[j] = e
  BY <1>1, <1>2, <1>3, AscendingFacts
<1>5. /\ asked' = 0 /\ online' = {} /\ matches' = {} /\ at' = geo
      /\ InRadius(at)' = InRadius(geo)
  BY DEF Inv, PhaseInv, InRadius
<1>6. near' = <<>> <=> Len(near') = 0
  BY <1>4
<1>7. TypeOK'
  <2>1. asked' \in 0 .. Len(near')
    BY <1>4, <1>5
  <2> QED BY <1>4, <1>5, <2>1 DEF Inv, TypeOK, presence, booking
<1>8. NearInv'
  <2>1. ASSUME NEW i \in 1 .. Len(near'), NEW e \in InRadius(geo), geo[e] < geo[near'[i]]
        PROVE  e \in S
    <3>1. near'[i] \in S /\ near'[i] \in InRadius(geo)
      BY <1>2, <1>4
    <3>2. geo[near'[i]] \in Nat /\ geo[e] \in Nat
      BY <3>1, SearchAssumption DEF Inv, TypeOK, InRadius
    <3> QED BY <1>2, <2>1, <3>1, <3>2
  <2>2. ASSUME Cardinality(InRadius(geo)) <= Count
        PROVE  S = InRadius(geo)
    <3>1. /\ Cardinality(S) <= Cardinality(InRadius(geo))
          /\ Cardinality(InRadius(geo)) = Cardinality(S) => InRadius(geo) = S
      BY <1>2, <1>3, FS_Subset
    <3>2. Cardinality(S) \in Nat /\ Cardinality(InRadius(geo)) \in Nat
      BY <1>3, FS_CardinalityType
    <3> QED BY <1>2, <2>2, <3>1, <3>2, SearchAssumption
  <2> QED BY <1>2, <1>4, <1>5, <2>1, <2>2 DEF NearInv
<1>9. HistoryInv'
  BY <1>5 DEF HistoryInv, presence
<1>10. PhaseInv'
  BY <1>4, <1>5, <1>6 DEF PhaseInv
<1>11. MatchInv'
  <2>1. Considered' = {}
    BY <1>5, NobodyConsidered DEF Considered, First
  <2> QED BY <1>5, <2>1 DEF MatchInv
<1> QED BY <1>7, <1>8, <1>9, <1>10, <1>11 DEF Inv

\* It is preserved by each reading of a status.
LEMMA AskStatusStep ==
  ASSUME Inv, AskStatus
  PROVE  Inv'
<1> USE DEF AskStatus
<1>1. /\ Len(near) \in Nat /\ asked \in 0 .. Len(near) /\ asked < Len(near)
      /\ asked' \in 1 .. Len(near) /\ asked' = asked + 1 /\ near' = near
      /\ online \in SUBSET (1 .. asked) /\ near[asked'] \in Drivers
  BY DEF Inv, TypeOK, PhaseInv
<1>2. online' \in SUBSET (1 .. asked')
  BY <1>1
<1>3. matches' = {} /\ matches = {}
  BY DEF Inv, PhaseInv
<1>4. TypeOK'
  BY <1>1, <1>2 DEF Inv, TypeOK, presence, booking
<1>5. NearInv'
  BY DEF Inv, NearInv, InRadius
<1>6. HistoryInv'
  <2>1. \A k \in 1 .. asked' : k = asked' \/ k \in 1 .. asked
    BY <1>1
  <2>2. \A k \in online' : near[k] \in seen
    BY <1>1 DEF Inv, HistoryInv
  <2>3. \A k \in 1 .. asked' : near[k] \in steady => k \in online'
    BY <1>1, <2>1 DEF Inv, HistoryInv
  <2> QED BY <2>2, <2>3 DEF Inv, HistoryInv, presence
<1>7. PhaseInv'
  <2>1. pc' = "ask" => asked' < Len(near)
    OBVIOUS
  <2>2. pc' # "ask" => asked' = Len(near)
    BY <1>1
  <2>3. pc' \in {"ask", "done", "rows"}
    OBVIOUS
  <2> QED BY <1>3, <2>1, <2>2, <2>3 DEF PhaseInv
<1>8. MatchInv'
  <2>1. pc' = "done" => Considered' = {}
    <3>1. pc' = "done" => online' = {}
      BY <1>1
    <3> QED BY <3>1 DEF Considered, First
  <2> QED BY <1>3, <2>1 DEF MatchInv
<1> QED BY <1>4, <1>5, <1>6, <1>7, <1>8 DEF Inv

\* It is preserved when the rows of the drivers are fetched; the limit of that
\* query is never reached.
LEMMA FetchStep ==
  ASSUME Inv, FetchDrivers
  PROVE  Inv'
<1> USE DEF FetchDrivers
<1>1. /\ near' = near /\ at' = at /\ online' = online /\ asked' = asked /\ failed' = failed
      /\ asked = Len(near) /\ matches = {} /\ pc' \in {"done", "match"}
      /\ Considered' = Considered
      /\ \A d : Fit(d)' <=> Fit(d)
  BY DEF Inv, PhaseInv, booking, Considered, First, Fit
<1>2. Considered \subseteq Drivers /\ IsFiniteSet(Considered) /\ Cardinality(Considered) <= Closest
  BY ConsideredFacts DEF Inv
<1>3. \A d \in Considered : at[d] \in Distances
  BY ConsideredPlaced DEF Inv
<1>4. CASE cargo = NoCargo
  <2>1. PICK D \in SUBSET Considered :
               /\ D # Considered => Cardinality(D) = Limit
               /\ matches' = {Match(d, 100) : d \in D}
    BY <1>4
  <2>2. D = Considered
    <3>1. /\ IsFiniteSet(D) /\ Cardinality(D) <= Cardinality(Considered)
          /\ Cardinality(Considered) = Cardinality(D) => Considered = D
      BY <1>2, FS_Subset
    <3>2. Cardinality(D) \in Nat /\ Cardinality(Considered) \in Nat
      BY <1>2, <3>1, FS_CardinalityType
    <3> QED BY <1>2, <2>1, <3>1, <3>2, SearchAssumption
  <2>3. pc' = "done" /\ Offered' = Considered
    <3>1. \A m \in matches' : m.driver \in Considered
      BY <2>1, <2>2 DEF Match
    <3>2. ASSUME NEW d \in Considered PROVE \E m \in matches' : m.driver = d
      <4>1. Match(d, 100) \in matches'
        BY <2>1, <2>2
      <4> QED BY <4>1 DEF Match
    <3>3. pc' = "done"
      BY <1>4
    <3> QED BY <3>1, <3>2, <3>3 DEF Offered
  <2>4. \A m \in matches' :
          m \in Matches /\ m.driver \in Considered /\ m.distance = at[m.driver]
    BY <1>2, <1>3, <2>1 DEF Match, Matches
  <2>5. TypeOK'
    BY <1>1, <2>3, <2>4 DEF Inv, TypeOK, presence, booking
  <2>6. MatchInv'
    BY <1>1, <1>4, <2>3, <2>4 DEF MatchInv, Fit
  <2>7. NearInv'
    BY <1>1, <2>3 DEF Inv, NearInv, InRadius
  <2>8. HistoryInv'
    BY <1>1, <2>3 DEF Inv, HistoryInv, presence
  <2>9. PhaseInv'
    BY <1>1, <2>3 DEF PhaseInv
  <2> QED BY <2>5, <2>6, <2>7, <2>8, <2>9 DEF Inv
<1>5. CASE cargo # NoCargo
  <2>1. pc' = "match" /\ matches' = {} /\ cargo' = cargo
    BY <1>1, <1>5 DEF booking
  <2>2. TypeOK'
    BY <1>1, <2>1 DEF Inv, TypeOK, presence, booking
  <2>3. NearInv'
    BY <1>1, <2>1 DEF Inv, NearInv, InRadius
  <2>4. HistoryInv'
    BY <1>1, <2>1 DEF Inv, HistoryInv, presence
  <2>5. PhaseInv' /\ MatchInv'
    BY <1>1, <1>5, <2>1 DEF PhaseInv, MatchInv
  <2> QED BY <2>2, <2>3, <2>4, <2>5 DEF Inv
<1> QED BY <1>4, <1>5

\* It is preserved when the vehicles are validated.
LEMMA MatchStep ==
  ASSUME Inv, MatchVehicles
  PROVE  Inv'
<1> USE DEF MatchVehicles
<1> DEFINE E == {e \in Considered \ failed' : Fit(e)}
<1>1. /\ near' = near /\ at' = at /\ online' = online /\ asked' = asked /\ pc' = "done"
      /\ asked = Len(near) /\ cargo # NoCargo
      /\ Considered' = Considered
      /\ \A d : Fit(d)' <=> Fit(d)
  BY DEF Inv, PhaseInv, booking, Considered, First, Fit
<1>2. Considered \subseteq Drivers
  BY ConsideredFacts DEF Inv
<1>3. \A d \in Considered : at[d] \in Distances
  BY ConsideredPlaced DEF Inv
<1>4. matches' = {Match(d, ValidateVehicle(vehicle[d], cargo).matchScore) : d \in E}
  OBVIOUS
<1>5. \A d \in E : ValidateVehicle(vehicle[d], cargo).matchScore \in 0 .. 100
  <2> SUFFICES ASSUME NEW d \in E
               PROVE  ValidateVehicle(vehicle[d], cargo).matchScore \in 0 .. 100
    OBVIOUS
  <2>1. vehicle[d] \in Vehicles /\ cargo \in Cargoes
    BY <1>1, <1>2 DEF Fit, Inv, TypeOK
  <2> QED BY <2>1, ScoresBounded
<1>6. \A m \in matches' :
        m \in Matches /\ m.driver \in E /\ m.distance = at[m.driver]
  BY <1>2, <1>3, <1>4, <1>5 DEF Match, Matches
<1>7. Offered' = E
  <2>1. \A m \in matches' : m.driver \in E
    BY <1>6
  <2>2. ASSUME NEW d \in E PROVE \E m \in matches' : m.driver = d
    <3>1. Match(d, ValidateVehicle(vehicle[d], cargo).matchScore) \in matches'
      BY <1>4
    <3> QED BY <3>1 DEF Match
  <2> HIDE DEF E
  <2> QED BY <2>1, <2>2 DEF Offered
<1>8. TypeOK'
  <2>1. failed' \in SUBSET Drivers
    BY <1>2
  <2> QED BY <1>1, <1>6, <2>1 DEF Inv, TypeOK, presence, booking
<1>9. NearInv'
  BY <1>1 DEF Inv, NearInv, InRadius
<1>10. HistoryInv'
  BY <1>1 DEF Inv, HistoryInv, presence
<1>11. PhaseInv'
  BY <1>1 DEF PhaseInv
<1>12. MatchInv'
  BY <1>1, <1>6, <1>7 DEF MatchInv
<1> QED BY <1>8, <1>9, <1>10, <1>11, <1>12 DEF Inv

\* It is preserved when the search fails.
LEMMA FailStep ==
  ASSUME Inv, Fail
  PROVE  Inv'
<1> USE DEF Fail
<1>1. near' = near /\ at' = at /\ online' = online /\ pc' = "failed" /\ matches' = matches
  OBVIOUS
<1>2. TypeOK'
  BY DEF Inv, TypeOK, presence, booking
<1>3. NearInv'
  BY <1>1 DEF Inv, NearInv, InRadius
<1>4. HistoryInv'
  BY <1>1 DEF Inv, HistoryInv
<1>5. PhaseInv' /\ MatchInv'
  BY <1>1 DEF Inv, PhaseInv, MatchInv
<1> QED BY <1>2, <1>3, <1>4, <1>5 DEF Inv

\* The invariant above is an invariant of the search.
THEOREM Invariance == Spec => []Inv
<1>1. Init => Inv
  BY Initial
<1>2. Inv /\ [Next]_vars => Inv'
  <2> SUFFICES ASSUME Inv, [Next]_vars PROVE Inv'
    OBVIOUS
  <2>1. CASE \E d \in Drivers : GoOnline(d) \/ GoOffline(d) \/ SetOnTrip(d)
    BY <2>1, StatusStep DEF GoOnline, GoOffline, SetOnTrip, Statuses
  <2>2. CASE \E d \in Drivers, km \in Distances : UpdateLocation(d, km)
    BY <2>2, MoveStep
  <2>3. CASE GeoSearch
    BY <2>3, GeoSearchStep
  <2>4. CASE AskStatus
    BY <2>4, AskStatusStep
  <2>5. CASE FetchDrivers
    BY <2>5, FetchStep
  <2>6. CASE MatchVehicles
    BY <2>6, MatchStep
  <2>7. CASE Fail
    BY <2>7, FailStep
  <2>8. CASE UNCHANGED vars
    <3>1. TypeOK' /\ HistoryInv'
      BY <2>8 DEF vars, presence, search, booking, Inv, TypeOK, HistoryInv
    <3>2. UNCHANGED <<booking, search>>
      BY <2>8 DEF vars
    <3> QED BY <3>1, <3>2, SearchUnchanged DEF Inv
  <2> QED BY <2>1, <2>2, <2>3, <2>4, <2>5, <2>6, <2>7, <2>8 DEF Next
<1> QED BY <1>1, <1>2, PTL DEF Spec

----------------------------------------------------------------------------
\* The properties.

\* The vehicle of a driver who is offered a load can handle it.
LEMMA OfferedFit ==
  ASSUME Inv, cargo # NoCargo, NEW m \in matches
  PROVE  /\ vehicle[m.driver] \in Vehicles /\ cargo \in Cargoes
         /\ CanHandle(vehicle[m.driver], cargo)
<1>1. m.driver \in Drivers /\ Fit(m.driver)
  BY DEF Inv, TypeOK, Matches, MatchInv
<1> QED BY <1>1 DEF Inv, TypeOK, Fit

\* Every variable keeps its type; in particular a score is at most 100 and a
\* driver that is offered a booking has a distance.
THEOREM TypeCorrect == Spec => []TypeOK
<1>1. Inv => TypeOK
  BY DEF Inv
<1> QED BY <1>1, Invariance, PTL

\* A driver that is offered the booking was ONLINE at some moment of the search.
THEOREM OnlyOnlineOffered == Spec => []OfferedWereOnline
<1>1. Inv => OfferedWereOnline
  <2> SUFFICES ASSUME Inv, NEW m \in matches PROVE m.driver \in seen
    BY DEF OfferedWereOnline, Offered
  <2>1. First(Closest, online) \subseteq online
    BY ConsideredFacts DEF Inv
  <2>2. PICK k \in First(Closest, online) : m.driver = near[k]
    BY DEF Inv, MatchInv, Considered
  <2> QED BY <2>1, <2>2 DEF Inv, HistoryInv
<1> QED BY <1>1, Invariance, PTL

\* No driver is preferred to a closer one who was ONLINE all along and can take
\* the booking.
THEOREM NearestPreferred == Spec => []NearestFirst
<1>1. Inv => NearestFirst
  <2> SUFFICES ASSUME Inv, NEW m \in matches, NEW e \in steady \ failed,
                      e \in InRadius(at), at[e] < m.distance, Fit(e)
               PROVE  e \in Offered
    BY DEF NearestFirst
  <2>1. /\ Len(near) \in Nat /\ online \in SUBSET (1 .. Len(near))
        /\ First(Closest, online) \subseteq online
    BY ConsideredFacts DEF Inv
  <2>2. PICK k \in First(Closest, online) : m.driver = near[k] /\ m.distance = at[near[k]]
    BY DEF Inv, MatchInv, Considered
  <2>3. k \in online /\ k \in 1 .. Len(near)
    BY <2>1
  <2>4. PICK j \in 1 .. Len(near) : near[j] = e
    BY <2>2, <2>3 DEF Inv, NearInv
  <2>5. at[near[k]] \in Nat /\ at[near[j]] \in Nat /\ at[near[j]] < at[near[k]]
    BY <2>2, <2>3, <2>4, SearchAssumption DEF Inv, NearInv, TypeOK, InRadius
  <2>6. j < k
    <3>1. ~ (k < j)
      BY <2>3, <2>5 DEF Inv, NearInv
    <3>2. j # k
      BY <2>5
    <3> QED BY <2>3, <3>1, <3>2
  <2>7. pc = "done" /\ asked = Len(near)
    BY DEF Inv, PhaseInv
  <2>8. j \in online
    BY <2>4, <2>7 DEF Inv, HistoryInv
  <2>9. j \in First(Closest, online)
    BY <2>1, <2>6, <2>8, FirstDownward, SearchAssumption
  <2>10. e \in Considered
    BY <2>4, <2>9 DEF Considered
  <2> QED BY <2>7, <2>10 DEF Inv, MatchInv
<1> QED BY <1>1, Invariance, PTL

\* Where few drivers are about, every one of them who was ONLINE all along and
\* can take the booking is offered it.
THEOREM NobodyMissed == Spec => []FewAreAllOffered
<1>1. Inv => FewAreAllOffered
  <2> SUFFICES ASSUME Inv, pc = "done", Cardinality(InRadius(at)) <= Count,
                      Cardinality(InRadius(at) \cap seen) <= Closest,
                      NEW e \in (steady \cap InRadius(at)) \ failed, Fit(e)
               PROVE  e \in Offered
    BY DEF FewAreAllOffered
  <2> DEFINE T == InRadius(at) \cap seen
             pick == [k \in online |-> near[k]]
  <2>1. Len(near) \in Nat /\ online \in SUBSET (1 .. Len(near)) /\ asked = Len(near)
    BY ConsideredFacts DEF Inv, PhaseInv
  <2>2. PICK j \in 1 .. Len(near) : near[j] = e
    BY DEF Inv, NearInv
  <2>3. j \in online
    BY <2>1, <2>2 DEF Inv, HistoryInv
  <2>4. pick \in Injection(online, T)
    <3>1. \A k \in online : near[k] \in T
      BY <2>1 DEF Inv, NearInv, HistoryInv
    <3>2. \A k, l \in online : near[k] = near[l] => k = l
      BY <2>1 DEF Inv, NearInv
    <3> QED BY <3>1, <3>2 DEF Injection, IsInjective
  <2>5. IsFiniteSet(T) /\ IsFiniteSet(online)
    <3>1. T \in SUBSET Drivers
      BY DEF InRadius
    <3> QED BY <2>1, <3>1, FinitePositions, FS_Subset, SearchAssumption
  <2>6. Cardinality(online) <= Closest
    <3> HIDE DEF T, pick
    <3>1. Cardinality(online) <= Cardinality(T)
      BY <2>4, <2>5, FS_Injection
    <3>2. Cardinality(online) \in Nat /\ Cardinality(T) \in Nat
      BY <2>5, FS_CardinalityType
    <3>3. Cardinality(T) <= Closest
      BY DEF T
    <3> QED BY <3>1, <3>2, <3>3, SearchAssumption
  <2>7. First(Closest, online) = online
    BY <2>1, <2>6, FirstOfFew, SearchAssumption
  <2>8. e \in Considered
    BY <2>2, <2>3, <2>7 DEF Considered
  <2> QED BY <2>8 DEF Inv, MatchInv
<1> QED BY <1>1, Invariance, PTL

\* Who is offered a load would be offered a lighter one.
THEOREM LighterOffered == Spec => []LighterStillFits
<1>1. Inv => LighterStillFits
  <2> SUFFICES ASSUME Inv, cargo # NoCargo, NEW m \in matches, NEW w \in 0 .. cargo.weight
               PROVE  CanHandle(vehicle[m.driver], [cargo EXCEPT !.weight = w])
    BY DEF LighterStillFits, Offered
  <2>1. vehicle[m.driver] \in Vehicles /\ cargo \in Cargoes /\ CanHandle(vehicle[m.driver], cargo)
    BY OfferedFit
  <2> QED BY <2>1, LighterFits
<1> QED BY <1>1, Invariance, PTL

\* Who is offered a load with some requirements would be offered it with fewer,
\* but for a tipper with packaged goods.
THEOREM FewerDemandsOffered == Spec => []DemandsOnlyRestrict
<1>1. Inv => DemandsOnlyRestrict
  <2> SUFFICES ASSUME Inv, cargo # NoCargo, NEW m \in matches, NEW N \in SUBSET cargo.needs,
                      ~ (vehicle[m.driver].type = "TIPPER_TRUCK" /\ cargo.cargoType = "PACKAGED")
               PROVE  CanHandle(vehicle[m.driver], [cargo EXCEPT !.needs = N])
    BY DEF DemandsOnlyRestrict, Offered
  <2>1. vehicle[m.driver] \in Vehicles /\ cargo \in Cargoes /\ CanHandle(vehicle[m.driver], cargo)
    BY OfferedFit
  <2> QED BY <2>1, FewerDemandsFit
<1> QED BY <1>1, Invariance, PTL

\* The vehicle found optimal for a booking is the first of those suggested for it, and
\* asking for fewer suggestions only cuts the list: for every fleet the drivers'
\* vehicles can form.
THEOREM OptimalIsSuggestedFirst == Spec => []BestIsSuggestedFirst
<1>1. ASSUME TypeOK, NEW fleet \in Fleets PROVE fleet \in Seq(Vehicles)
  <2> DEFINE owned == {d \in Drivers : vehicle[d] # NoVehicle}
  <2>1. PICK n \in 0 .. Cardinality(owned) :
          \E order \in [1 .. n -> owned] : fleet = [i \in 1 .. n |-> vehicle[order[i]]]
    BY <1>1 DEF Fleets
  <2>2. PICK order \in [1 .. n -> owned] : fleet = [i \in 1 .. n |-> vehicle[order[i]]]
    BY <2>1
  <2>3. \A d \in owned : vehicle[d] \in Vehicles
    BY <1>1 DEF TypeOK
  <2>5. n \in Nat /\ \A i \in 1 .. n : vehicle[order[i]] \in Vehicles
    BY <2>3
  <2> HIDE DEF owned
  <2> QED BY <2>2, <2>5
<1>2. TypeOK => BestIsSuggestedFirst
  <2> SUFFICES ASSUME TypeOK, cargo # NoCargo, NEW fleet \in Fleets
               PROVE  fleet \in Seq(Vehicles) /\ cargo \in Cargoes
    BY SuggestionsAgree DEF BestIsSuggestedFirst
  <2> QED BY <1>1 DEF TypeOK
<1> QED BY <1>2, TypeCorrect, PTL
=============================================================================
