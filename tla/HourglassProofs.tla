---------------------------- MODULE HourglassProofs ----------------------------
(***************************************************************************)
(* Proofs about the 1-hour engine for any strikes, prices, windows, sizes  *)
(* and caps, and any number of processes.                                  *)
(***************************************************************************)
EXTENDS Hourglass, SequenceTheorems, FiniteSetTheorems, TLAPS

(* Sums over finite sets.  SumFunctionOnSet folds over a set with CHOOSE: it *)
(* is read here as a table of the sums over all subsets, and what holds of   *)
(* every sum is shown by a smallest set for which it would not.              *)

\* A nonempty family of subsets of a finite set has a smallest member.
LEMMA SmallestSubset ==
    ASSUME NEW S, IsFiniteSet(S), NEW F \in SUBSET SUBSET S, F # {}
    PROVE  \E T \in F : \A U \in F : U \subseteq T => U = T
  <1> DEFINE R == StrictSubsetOrdering(S)
  <1>1. IsWellFoundedOn(R, FiniteSubsetsOf(S)) /\ F \subseteq FiniteSubsetsOf(S)
    BY FS_StrictSubsetOrderingWellFounded, FS_FiniteSubsetsOfFinite
  <1> HIDE DEF R
  <1>2. \E T \in F : \A U \in F : <<U, T>> \notin R
    BY <1>1, WFMin, Zenon
  <1> QED BY <1>2 DEF R, StrictSubsetOrdering

Any(T) == CHOOSE x \in T : TRUE

\* g tabulates the sums of f over the subsets of S.
Tabulates(g, f, S) ==
    g = [T \in SUBSET S |-> IF T = {} THEN 0 ELSE f[Any(T)] + g[T \ {Any(T)}]]

LEMMA SumIsTabulated ==
    ASSUME NEW S, NEW f
    PROVE  SumFunctionOnSet(f, S) = (CHOOSE g : Tabulates(g, f, S))[S]
  BY DEF SumFunctionOnSet, FoldFunctionOnSet, MapThenFoldSet, Tabulates, Any

LEMMA TablesAgree ==
    ASSUME NEW A, NEW B, NEW f, NEW g, NEW h, IsFiniteSet(A),
           Tabulates(g, f, A), Tabulates(h, f, B)
    PROVE  \A T \in SUBSET (A \cap B) : g[T] = h[T]
  <1> DEFINE F == {T \in SUBSET (A \cap B) : g[T] # h[T]}
  <1> SUFFICES ASSUME F # {} PROVE FALSE
    OBVIOUS
  <1>1. IsFiniteSet(A \cap B)
    BY FS_Intersection
  <1>2. F \in SUBSET SUBSET (A \cap B) /\ F # {}
    OBVIOUS
  <1> HIDE DEF F
  <1>3. PICK T \in F : \A U \in F : U \subseteq T => U = T
    BY <1>1, <1>2, SmallestSubset
  <1> USE DEF F
  <1>4. T # {}
    BY DEF Tabulates
  <1>5. Any(T) \in T
    BY <1>4 DEF Any
  <1>6. g[T \ {Any(T)}] = h[T \ {Any(T)}]
    BY <1>3, <1>5
  <1> QED BY <1>4, <1>6 DEF Tabulates

LEMMA TableExists ==
    ASSUME NEW S, IsFiniteSet(S), NEW f
    PROVE  \E g : Tabulates(g, f, S)
  <1> DEFINE F == {T \in SUBSET S : ~ \E g : Tabulates(g, f, T)}
  <1> SUFFICES ASSUME F # {} PROVE FALSE
    OBVIOUS
  <1>0. F \in SUBSET SUBSET S /\ F # {}
    OBVIOUS
  <1> HIDE DEF F
  <1>1. PICK T \in F : \A U \in F : U \subseteq T => U = T
    BY <1>0, SmallestSubset
  <1> USE DEF F
  <1> DEFINE h(U) == CHOOSE g : Tabulates(g, f, U)
  <1>2. ASSUME NEW U \in SUBSET T, U # T PROVE Tabulates(h(U), f, U)
    BY <1>1, <1>2
  <1> DEFINE v(U) == IF U = {} THEN 0 ELSE f[Any(U)] + h(U \ {Any(U)})[U \ {Any(U)}]
             k == [U \in SUBSET T |-> v(U)]
  <1>3. ASSUME NEW U \in SUBSET T, U # {} PROVE k[U \ {Any(U)}] = h(U \ {Any(U)})[U \ {Any(U)}]
    <2> DEFINE V == U \ {Any(U)}
    <2>1. Any(U) \in U
      BY <1>3 DEF Any
    <2>2. V \in SUBSET T /\ V # T
      BY <2>1
    <2>3. Tabulates(h(V), f, V)
      BY <1>2, <2>2
    <2> HIDE DEF V, h
    <2>4. h(V)[V] = IF V = {} THEN 0 ELSE f[Any(V)] + h(V)[V \ {Any(V)}]
      BY <2>3 DEF Tabulates
    <2>5. CASE V = {}
      BY <2>2, <2>4, <2>5 DEF V
    <2>6. CASE V # {}
      <3> DEFINE W == V \ {Any(V)}
      <3>1. W \in SUBSET T /\ W # T /\ W \in SUBSET (W \cap V)
        BY <2>2, <2>6 DEF Any
      <3>2. Tabulates(h(W), f, W)
        BY <1>2, <3>1
      <3>3. IsFiniteSet(W)
        BY <3>1, FS_Subset
      <3> HIDE DEF W
      <3>4. h(W)[W] = h(V)[W]
        BY <2>3, <3>1, <3>2, <3>3, TablesAgree
      <3> QED BY <2>2, <2>4, <2>6, <3>4 DEF V, W
    <2> QED BY <2>5, <2>6 DEF V
  <1> HIDE DEF h
  <1>4. Tabulates(k, f, T)
    <2>1. k = [U \in SUBSET T |-> IF U = {} THEN 0 ELSE f[Any(U)] + k[U \ {Any(U)}]]
      BY <1>3
    <2> HIDE DEF k
    <2> QED BY <2>1 DEF Tabulates
  <1> QED BY <1>4

\* A sum over a nonempty set is one of its terms and the sum of the others.
LEMMA SumUnfolds ==
    ASSUME NEW S, IsFiniteSet(S), NEW f
    PROVE  SumFunctionOnSet(f, S) =
               IF S = {} THEN 0
               ELSE f[Any(S)] + SumFunctionOnSet(f, S \ {Any(S)})
  <1> DEFINE G(T) == CHOOSE g : Tabulates(g, f, T)
             R == S \ {Any(S)}
  <1>1. IsFiniteSet(R) /\ R \subseteq S
    BY FS_Subset
  <1>2. Tabulates(G(S), f, S) /\ Tabulates(G(R), f, R)
    BY <1>1, TableExists
  <1>3. SumFunctionOnSet(f, S) = G(S)[S] /\ SumFunctionOnSet(f, R) = G(R)[R]
    BY SumIsTabulated
  <1> HIDE DEF G
  <1>4. G(R)[R] = G(S)[R]
    <2>1. R \in SUBSET (R \cap S)
      BY <1>1
    <2> HIDE DEF R
    <2> QED BY <1>1, <1>2, <2>1, TablesAgree
  <1>5. G(S)[S] = IF S = {} THEN 0 ELSE f[Any(S)] + G(S)[R]
    BY <1>2 DEF Tabulates
  <1> QED BY <1>3, <1>4, <1>5

LEMMA SumsOfInts ==
    ASSUME NEW S, IsFiniteSet(S), NEW f, \A x \in S : f[x] \in Int
    PROVE  SumFunctionOnSet(f, S) \in Int
  <1> DEFINE F == {T \in SUBSET S : SumFunctionOnSet(f, T) \notin Int}
  <1> SUFFICES ASSUME F # {} PROVE FALSE
    OBVIOUS
  <1>1. F \in SUBSET SUBSET S /\ F # {}
    OBVIOUS
  <1> HIDE DEF F
  <1>2. PICK T \in F : \A U \in F : U \subseteq T => U = T
    BY <1>1, SmallestSubset
  <1> USE DEF F
  <1>3. IsFiniteSet(T) /\ T \subseteq S
    BY FS_Subset
  <1>4. T # {}
    <2>1. SumFunctionOnSet(f, {}) = 0
      BY FS_EmptySet, SumUnfolds
    <2>2. SumFunctionOnSet(f, T) \notin Int
      BY <1>2
    <2> HIDE DEF F
    <2> QED BY <2>1, <2>2
  <1>5. Any(T) \in T
    BY <1>4 DEF Any
  <1>6. SumFunctionOnSet(f, T \ {Any(T)}) \in Int
    BY <1>2, <1>5
  <1>7. f[Any(T)] \in Int
    BY <1>3, <1>5
  <1>8. SumFunctionOnSet(f, T) = f[Any(T)] + SumFunctionOnSet(f, T \ {Any(T)})
    BY <1>3, <1>4, SumUnfolds
  <1> QED BY <1>2, <1>6, <1>7, <1>8

\* Any term may be taken out of a sum.
LEMMA SumWithout ==
    ASSUME NEW S, IsFiniteSet(S), NEW f, \A x \in S : f[x] \in Int, NEW e \in S
    PROVE  SumFunctionOnSet(f, S) = SumFunctionOnSet(f, S \ {e}) + f[e]
  <1> DEFINE Out(T, d) == SumFunctionOnSet(f, T) = SumFunctionOnSet(f, T \ {d}) + f[d]
             F == {T \in SUBSET S : \E d \in T : ~Out(T, d)}
  <1> SUFFICES ASSUME F # {} PROVE FALSE
    OBVIOUS
  <1>1. F \in SUBSET SUBSET S /\ F # {}
    OBVIOUS
  <1> HIDE DEF F
  <1>2. PICK T \in F : \A U \in F : U \subseteq T => U = T
    BY <1>1, SmallestSubset
  <1>3. PICK d \in T : ~Out(T, d)
    BY <1>2 DEF F
  <1>4. IsFiniteSet(T) /\ T \subseteq S
    BY FS_Subset DEF F
  <1> DEFINE a == Any(T)
  <1>5. a \in T
    BY <1>3 DEF Any
  <1>6. SumFunctionOnSet(f, T) = f[a] + SumFunctionOnSet(f, T \ {a})
    BY <1>4, <1>5, SumUnfolds
  <1>7. \A U \in SUBSET T : f[a] \in Int /\ f[d] \in Int /\ SumFunctionOnSet(f, U) \in Int
    <2>1. \A U \in SUBSET T : IsFiniteSet(U)
      BY <1>4, FS_Subset
    <2> QED BY <1>3, <1>4, <1>5, <2>1, SumsOfInts
  <1> HIDE DEF a
  <1>8. CASE d = a
    BY <1>3, <1>5, <1>6, <1>7, <1>8
  <1>9. CASE d # a
    <2>0. \A U \in SUBSET T : U # T => \A b \in U : Out(U, b)
      <3> HIDE DEF Out
      <3> QED BY <1>2, <1>4 DEF F
    <2>1. Out(T \ {a}, d)
      BY <2>0, <1>3, <1>5, <1>9
    <2>2. Out(T \ {d}, a)
      BY <2>0, <1>3, <1>5, <1>9
    <2>3. (T \ {a}) \ {d} = (T \ {d}) \ {a}
      OBVIOUS
    <2> DEFINE both == SumFunctionOnSet(f, (T \ {d}) \ {a})
    <2>4. both \in Int
      BY <1>7
    <2>5. SumFunctionOnSet(f, T) = f[a] + (both + f[d])
      BY <1>6, <2>1, <2>3
    <2>6. SumFunctionOnSet(f, T \ {d}) = both + f[a]
      BY <2>2
    <2> HIDE DEF both
    <2>7. SumFunctionOnSet(f, T) = SumFunctionOnSet(f, T \ {d}) + f[d]
      BY <1>7, <2>4, <2>5, <2>6
    <2> QED BY <1>3, <2>7
  <1> QED BY <1>8, <1>9

\* A sum depends on its terms alone.
LEMMA SumsAgree ==
    ASSUME NEW S, IsFiniteSet(S), NEW f, NEW g, \A x \in S : f[x] = g[x]
    PROVE  SumFunctionOnSet(f, S) = SumFunctionOnSet(g, S)
  <1> DEFINE F == {T \in SUBSET S : SumFunctionOnSet(f, T) # SumFunctionOnSet(g, T)}
  <1> SUFFICES ASSUME F # {} PROVE FALSE
    OBVIOUS
  <1>1. F \in SUBSET SUBSET S /\ F # {}
    OBVIOUS
  <1> HIDE DEF F
  <1>2. PICK T \in F : \A U \in F : U \subseteq T => U = T
    BY <1>1, SmallestSubset
  <1> USE DEF F
  <1>3. IsFiniteSet(T) /\ T \subseteq S
    BY FS_Subset
  <1>4. T # {}
    BY <1>2, <1>3, SumUnfolds
  <1>5. Any(T) \in T
    BY <1>4 DEF Any
  <1>6. SumFunctionOnSet(f, T \ {Any(T)}) = SumFunctionOnSet(g, T \ {Any(T)})
    BY <1>2, <1>5
  <1> QED BY <1>2, <1>3, <1>4, <1>5, <1>6, SumUnfolds

\* Where every term is 0, so is the sum.
LEMMA SumOfZeros ==
    ASSUME NEW S, IsFiniteSet(S), NEW f, \A x \in S : f[x] = 0
    PROVE  SumFunctionOnSet(f, S) = 0
  <1> DEFINE F == {T \in SUBSET S : SumFunctionOnSet(f, T) # 0}
  <1> SUFFICES ASSUME F # {} PROVE FALSE
    OBVIOUS
  <1>1. F \in SUBSET SUBSET S /\ F # {}
    OBVIOUS
  <1> HIDE DEF F
  <1>2. PICK T \in F : \A U \in F : U \subseteq T => U = T
    BY <1>1, SmallestSubset
  <1>3. IsFiniteSet(T) /\ T \subseteq S /\ SumFunctionOnSet(f, T) # 0
    BY FS_Subset DEF F
  <1>4. T # {}
    BY <1>3, SumUnfolds
  <1>5. Any(T) \in T
    BY <1>4 DEF Any
  <1>6. SumFunctionOnSet(f, T \ {Any(T)}) = 0
    <2>1. T \ {Any(T)} \notin F
      BY <1>2, <1>5
    <2> QED BY <1>3, <2>1 DEF F
  <1>7. f[Any(T)] = 0
    BY <1>3, <1>5
  <1>8. SumFunctionOnSet(f, T) = f[Any(T)] + SumFunctionOnSet(f, T \ {Any(T)})
    BY <1>3, <1>4, SumUnfolds
  <1> QED BY <1>3, <1>6, <1>7, <1>8

\* What raising one term does to a sum.
LEMMA SumRaised ==
    ASSUME NEW S, IsFiniteSet(S), NEW R, S \subseteq R, NEW f \in [R -> Int],
           NEW e \in R, NEW k \in Int, NEW g \in [R -> Int],
           g[e] = f[e] + k, \A x \in R \ {e} : g[x] = f[x]
    PROVE  SumFunctionOnSet(g, S) =
               IF e \in S THEN SumFunctionOnSet(f, S) + k ELSE SumFunctionOnSet(f, S)
  <1>2. CASE e \notin S
    BY <1>2, SumsAgree
  <1>3. CASE e \in S
    <2>1. IsFiniteSet(S \ {e}) /\ \A x \in S : f[x] \in Int /\ g[x] \in Int
      BY FS_RemoveElement
    <2>2. SumFunctionOnSet(f, S) = SumFunctionOnSet(f, S \ {e}) + f[e]
      BY <1>3, <2>1, SumWithout
    <2>3. SumFunctionOnSet(g, S) = SumFunctionOnSet(g, S \ {e}) + g[e]
      BY <1>3, <2>1, SumWithout
    <2>4. SumFunctionOnSet(g, S \ {e}) = SumFunctionOnSet(f, S \ {e})
      BY <2>1, SumsAgree
    <2>5. SumFunctionOnSet(f, S \ {e}) \in Int /\ f[e] \in Int
      BY <1>3, <2>1, SumsOfInts
    <2> QED BY <1>3, <2>2, <2>3, <2>4, <2>5
  <1> QED BY <1>2, <1>3
-----------------------------------------------------------------------------
(* Markets of an hour, and fills that are on the books. *)

Hourly == {t \in Tickers : Length[t] <= MaxCycle}

\* Sweeper s has t on its books, open or settled.
Tracked(s, t) == RungsOn(s, t) # {} \/ \E b \in booked : b.s = s /\ b.t = t

\* What may be asked of the exchange: a market of an hour, and of a sweeper
\* only what it has noted.
Noted == {r \in Requests : r.t \in Hourly /\ (r.s \in Sweepers => Tracked(r.s, r.t))}

Shape ==
    /\ markets \subseteq Tickers /\ subscribed \subseteq Hourly
    /\ latest \in [Tickers -> Books \cup {NoBook}]
    /\ rungs \subseteq Rungs
    /\ sent \in [Strategies -> [Tickers -> Nat]]
    /\ bought \in [Strategies -> [Tickers -> Nat]]

\* A book comes only from a subscription; a decision only from a book, and
\* after its rung was noted; an order only from a decision.
Inv ==
    /\ Shape
    /\ \A t \in Tickers : latest[t] # NoBook => t \in Hourly
    /\ pending \in Seq(Noted)
    /\ order \in {NoOrder} \cup Noted
    /\ HourOnly
    /\ RungsTracked

LEMMA DiscoveredHourly == \A found : Discovered(found) \subseteq Hourly
  BY DEF Discovered, Hourly, OpenMarkets

LEMMA InvInit == Init => Inv
  <1> SUFFICES ASSUME Init PROVE Inv
    OBVIOUS
  <1> USE DEF Init
  <1>1. Shape
    BY DEF Shape
  <1>2. pending \in Seq(Noted)
    OBVIOUS
  <1>3. \A t \in Tickers : latest[t] = NoBook
    OBVIOUS
  <1>4. \A s \in Strategies, t \in Tickers : sent[s][t] = 0 /\ bought[s][t] = 0
    OBVIOUS
  <1>5. HourOnly /\ RungsTracked
    BY <1>4 DEF HourOnly, RungsTracked, Strategies
  <1> QED BY <1>1, <1>2, <1>3, <1>5 DEF Inv

\* A process that ended leaves nothing behind but the account.
LEMMA InvNoProcess == NoProcess => Inv'
  <1> SUFFICES ASSUME NoProcess PROVE Inv'
    OBVIOUS
  <1> USE DEF NoProcess
  <1>1. Shape'
    BY DEF Shape
  <1>2. (pending \in Seq(Noted))'
    OBVIOUS
  <1>3. \A t \in Tickers : latest'[t] = NoBook
    OBVIOUS
  <1>4. \A s \in Strategies, t \in Tickers : sent'[s][t] = 0 /\ bought'[s][t] = 0
    OBVIOUS
  <1>5. HourOnly' /\ RungsTracked'
    BY <1>4 DEF HourOnly, RungsTracked, Strategies
  <1> QED BY <1>1, <1>2, <1>3, <1>5 DEF Inv

\* Where rungs and bookings stay, what was noted stays noted.
LEMMA NotedStays ==
    ASSUME UNCHANGED <<rungs, booked>>
    PROVE  /\ Noted' = Noted
           /\ \A s, t : Tracked(s, t)' <=> Tracked(s, t)
  BY DEF Noted, Tracked, RungsOn

\* The process and its registry: the subscription grows by hourly markets.
LEMMA InvRegistry ==
    ASSUME Inv,
           markets' \subseteq Tickers, subscribed' \subseteq Hourly,
           UNCHANGED <<latest, rungs, booked, sent, bought, pending, order>>
    PROVE  Inv'
  BY NotedStays DEF Inv, Shape, HourOnly, RungsTracked, RungsOn

\* The levers and the caps leave at least one contract.
LEMMA TraderSizePositive ==
    ASSUME NEW t \in Tickers, NEW at \in Nat, NEW v \in Verdicts
    PROVE  TraderSize(t, at, v) \in Nat \ {0}
  <1>1. v.n \in Nat \ {0}
    BY DEF Verdicts
  <1>2. CryptoCap[CryptoOf[t]] \in Nat \ {0} /\ MaxContracts \in Nat \ {0}
    BY HourMarketAssumption, TraderAssumption
  <1>3. Levers(t, at, v) \in Nat \ {0}
    BY <1>1, TraderAssumption DEF Levers, AtMost
  <1> QED BY <1>1, <1>2, <1>3 DEF TraderSize, AtMost

\* A rung is either kept or replaced by the new one of the same strike.
LEMMA RungsReplaced ==
    ASSUME NEW new, new \subseteq Rungs, rungs \subseteq Rungs,
           rungs' = {r \in rungs : \A x \in new : x.s = r.s => x.t # r.t} \cup new,
           booked' = booked
    PROVE  /\ \A s \in Sweepers, t \in Tickers : Tracked(s, t) => Tracked(s, t)'
           /\ \A x \in new : Tracked(x.s, x.t)'
  <1>1. \A x \in new : x \in RungsOn(x.s, x.t)'
    BY DEF RungsOn
  <1>2. ASSUME NEW s \in Sweepers, NEW t \in Tickers, Tracked(s, t)
        PROVE  Tracked(s, t)'
    <2>1. CASE RungsOn(s, t) # {}
      <3>1. PICK r \in rungs : r.s = s /\ r.t = t
        BY <2>1 DEF RungsOn
      <3>2. CASE r \in rungs'
        BY <3>1, <3>2 DEF Tracked, RungsOn
      <3>3. CASE r \notin rungs'
        <4>1. PICK x \in new : x.s = s /\ x.t = t
          BY <3>1, <3>3
        <4> QED BY <1>1, <4>1 DEF Tracked, RungsOn
      <3> QED BY <3>2, <3>3
    <2>2. CASE \E b \in booked : b.s = s /\ b.t = t
      BY <2>2 DEF Tracked
    <2> QED BY <1>2, <2>1, <2>2 DEF Tracked
  <1> QED BY <1>1, <1>2 DEF Tracked

\* The strikes a sweeper picks have a book, and those are strikes of an hour.
LEMMA PicksHourly ==
    ASSUME \A u \in Tickers : latest'[u] # NoBook => u \in Hourly,
           latest' \in [Tickers -> Books \cup {NoBook}],
           NEW s \in Sweepers, NEW t, NEW at, NEW known,
           markets \subseteq Tickers,
           NEW p \in Picks(s, t, at, known)
    PROVE  /\ p \in Seq(Hourly)
           /\ \A i \in 1..Len(p) : latest'[p[i]] \in Books
  <1>1. CASE p = <<>>
    BY <1>1
  <1>2. CASE p # <<>>
    <2>1. PICK n \in 0..MaxRungs[s] : p \in [1..n -> Candidates(t)]
      BY <1>2 DEF Picks, Selections
    <2>2. n \in Nat
      BY SweeperAssumption
    <2>3. Candidates(t) \subseteq Hourly /\ \A u \in Candidates(t) : latest'[u] \in Books
      BY DEF Candidates
    <2>4. p \in Seq(Candidates(t)) /\ Len(p) = n
      BY <2>1, <2>2
    <2> QED BY <2>3, <2>4
  <1> QED BY <1>1, <1>2

LEMMA NewRungsTyped ==
    ASSUME NEW s \in Sweepers, NEW p \in Seq(Hourly),
           \A i \in 1..Len(p) : latest'[p[i]] \in Books
    PROVE  /\ NewRungs(s, p) \subseteq Rungs
           /\ \A i \in 1..Len(p) : p[i] \in Tickers /\ latest'[p[i]].side \in Sides
  <1>1. \A i \in 1..Len(p) : /\ p[i] \in Tickers
                             /\ latest'[p[i]].side \in Sides
                             /\ latest'[p[i]].cost \in 0..100
    <2>1. \A b \in Books : b.side \in Sides /\ b.cost \in 0..100
      BY SweeperAssumption
    <2>2. \A i \in 1..Len(p) : p[i] \in Hourly
      OBVIOUS
    <2> QED BY <2>1, <2>2 DEF Hourly
  <1>2. ASSUME NEW i \in 1..Len(p)
        PROVE  [s |-> s, t |-> p[i], side |-> latest'[p[i]].side,
                cost |-> latest'[p[i]].cost] \in Rungs
    BY <1>1 DEF Rungs
  <1>3. NewRungs(s, p) \subseteq Rungs
    BY <1>2 DEF NewRungs
  <1> QED BY <1>1, <1>3

\* What a sweeper decides on its picks was noted first.
LEMMA RungsNoted ==
    ASSUME NEW s \in Sweepers, NEW p \in Seq(Hourly),
           \A i \in 1..Len(p) : latest'[p[i]] \in Books,
           \A x \in NewRungs(s, p) : Tracked(x.s, x.t)'
    PROVE  RungDecisions(s, p) \in Seq(Noted')
  <1>1. \A i \in 1..Len(p) : p[i] \in Hourly
    OBVIOUS
  <1>2. \A i \in 1..Len(p) : p[i] \in Tickers /\ latest'[p[i]].side \in Sides
    BY NewRungsTyped
  <1>3. ASSUME NEW i \in 1..Len(p) PROVE RungDecisions(s, p)[i] \in Noted'
    <2> DEFINE r == [s |-> s, t |-> p[i], side |-> latest'[p[i]].side, n |-> RungSize[s]]
    <2>1. r \in Requests
      BY <1>2, SweeperAssumption DEF Requests, Strategies
    <2>2. Tracked(s, p[i])'
      <3>1. \E x \in NewRungs(s, p) : x.s = s /\ x.t = p[i]
        <4> DEFINE x == [s |-> s, t |-> p[i], side |-> latest'[p[i]].side,
                         cost |-> latest'[p[i]].cost]
        <4>1. x \in NewRungs(s, p)
          BY DEF NewRungs
        <4>2. x.s = s /\ x.t = p[i]
          OBVIOUS
        <4> QED BY <4>1, <4>2
      <3>2. PICK x \in NewRungs(s, p) : x.s = s /\ x.t = p[i]
        BY <3>1
      <3> QED BY <3>2
    <2>3. RungDecisions(s, p)[i] = r
      BY DEF RungDecisions
    <2>4. r \in Noted'
      BY <1>1, <2>1, <2>2 DEF Noted, Hourly
    <2> QED BY <2>3, <2>4
  <1>4. RungDecisions(s, p) = [i \in 1..Len(p) |-> RungDecisions(s, p)[i]]
    BY DEF RungDecisions
  <1>5. Len(p) \in Nat
    OBVIOUS
  <1> DEFINE f == RungDecisions(s, p)
  <1>6. f = [i \in 1..Len(p) |-> f[i]] /\ \A i \in 1..Len(p) : f[i] \in Noted'
    BY <1>3, <1>4
  <1> HIDE DEF f
  <1>7. f \in [1..Len(p) -> Noted']
    BY <1>6
  <1> QED BY <1>5, <1>7 DEF f

LEMMA InvBookEvent ==
    ASSUME Inv, NEW t \in Tickers, NEW book \in Books, NEW at \in 0..MaxTime,
           NEW v \in Verdicts \cup {Skip}, NEW known \in BOOLEAN,
           BookEvent(t, book, at, v, known)
    PROVE  Inv'
  <1>1. PICK ladder \in Picks("ladder", t, at, known),
             deep \in Picks("deep_itm", t, at, known) :
             /\ SweepersFire(t, at, known,
                             [s \in Sweepers |-> IF s = "ladder" THEN ladder ELSE deep])
             /\ pending' = TraderDecision(t, book.side, at, v)
                             \o RungDecisions("ladder", ladder)
                             \o RungDecisions("deep_itm", deep)
    BY DEF BookEvent
  <1> DEFINE picks == [s \in Sweepers |-> IF s = "ladder" THEN ladder ELSE deep]
             new == UNION {NewRungs(s, picks[s]) : s \in Sweepers}
  <1>2. /\ t \in subscribed /\ t \in Hourly
        /\ latest' = [latest EXCEPT ![t] = book]
        /\ UNCHANGED <<markets, subscribed, order, booked, sent, bought>>
    BY DEF BookEvent, Inv, Shape, registry, histVars, exchangeVars
  <1>3. /\ latest' \in [Tickers -> Books \cup {NoBook}]
        /\ \A u \in Tickers : latest'[u] # NoBook => u \in Hourly
    BY <1>2 DEF Inv, Shape
  <1>4. \A s \in Sweepers : /\ picks[s] \in Seq(Hourly)
                            /\ \A i \in 1..Len(picks[s]) : latest'[picks[s][i]] \in Books
    BY <1>3, PicksHourly DEF Sweepers, Inv, Shape
  <1>5. rungs' = {r \in rungs : \A x \in new : x.s = r.s => x.t # r.t} \cup new
    BY <1>1 DEF SweepersFire
  <1>6. new \subseteq Rungs
    <2>1. ASSUME NEW s \in Sweepers PROVE NewRungs(s, picks[s]) \subseteq Rungs
      BY <1>4, NewRungsTyped
    <2> QED BY <2>1
  <1> HIDE DEF picks
  <1>7. /\ \A s \in Sweepers, u \in Tickers : Tracked(s, u) => Tracked(s, u)'
        /\ \A x \in new : Tracked(x.s, x.t)'
    BY <1>2, <1>5, <1>6, RungsReplaced DEF Inv, Shape
  <1>8. \A s \in Sweepers : RungDecisions(s, picks[s]) \in Seq(Noted')
    BY <1>4, <1>7, RungsNoted
  <1>9. TraderDecision(t, book.side, at, v) \in Seq(Noted')
    <2>1. CASE Enters(t, at, v)
      <3> DEFINE r == [s |-> "trader", t |-> t, side |-> book.side,
                       n |-> TraderSize(t, at, v)]
      <3>1. v \in Verdicts /\ at \in Nat /\ book.side \in Sides
        BY <2>1, HourMarketAssumption, SweeperAssumption DEF Enters
      <3>2. TraderSize(t, at, v) \in Nat \ {0}
        BY <3>1, TraderSizePositive
      <3>3. r \in Requests /\ "trader" \notin Sweepers
        BY <3>1, <3>2 DEF Requests, Strategies, Sweepers
      <3>4. r \in Noted'
        BY <1>2, <3>3 DEF Noted, Hourly
      <3> QED BY <2>1, <3>4 DEF TraderDecision
    <2>2. CASE ~Enters(t, at, v)
      BY <2>2 DEF TraderDecision
    <2> QED BY <2>1, <2>2
  <1>10. pending' \in Seq(Noted')
    <2>1. picks["ladder"] = ladder /\ picks["deep_itm"] = deep
      BY DEF picks, Sweepers
    <2>2. /\ RungDecisions("ladder", ladder) \in Seq(Noted')
          /\ RungDecisions("deep_itm", deep) \in Seq(Noted')
      BY <1>8, <2>1 DEF Sweepers
    <2> QED BY <1>1, <1>9, <2>2
  <1>11. order' \in {NoOrder} \cup Noted'
    BY <1>2, <1>7 DEF Inv, Noted, Hourly, Requests
  <1>12. Shape'
    BY <1>2, <1>3, <1>5, <1>6 DEF Inv, Shape, Hourly
  <1>13. HourOnly'
    BY <1>2 DEF Inv, HourOnly
  <1>14. RungsTracked'
    BY <1>2, <1>7 DEF Inv, RungsTracked, Tracked
  <1> QED BY <1>3, <1>10, <1>11, <1>12, <1>13, <1>14 DEF Inv, Hourly

\* What settles moves from the rungs to the bookings.
LEMMA InvSettlement ==
    ASSUME Inv, NEW t \in Tickers, NEW at \in 0..MaxTime, NEW stamp \in 0..MaxTime,
           Settlement(t, at, stamp)
    PROVE  Inv'
  <1>1. /\ pending = <<>> /\ order = NoOrder
        /\ rungs' = {r \in rungs : r.t # t}
        /\ UNCHANGED <<markets, subscribed, latest, pending, order, sent, bought>>
    BY DEF Settlement, Idle, PopRungs, registry, loopVars
  <1>2. booked \subseteq booked'
    BY DEF Settlement
  <1>3. \A r \in rungs : r.t = t => \E b \in booked' : b.s = r.s /\ b.t = t
    <2> SUFFICES ASSUME NEW r \in rungs, r.t = t
                 PROVE  \E b \in booked' : b.s = r.s /\ b.t = t
      OBVIOUS
    <2> DEFINE b == [s |-> r.s, t |-> t, gain |-> GainOf(r), day |-> DayOf(stamp)]
    <2>1. b \in booked'
      BY DEF Settlement
    <2> QED BY <2>1
  <1>4. \A s \in Sweepers, u \in Tickers : Tracked(s, u) => Tracked(s, u)'
    BY <1>1, <1>2, <1>3 DEF Tracked, RungsOn
  <1>5. RungsTracked'
    BY <1>1, <1>4 DEF Inv, RungsTracked, Tracked
  <1>6. Shape' /\ HourOnly'
    BY <1>1 DEF Inv, Shape, HourOnly, Hourly
  <1>7. pending' \in Seq(Noted')
    BY <1>1
  <1> QED BY <1>1, <1>5, <1>6, <1>7 DEF Inv, Hourly

\* Orders: a decision is dropped, or sent, and the exchange may fill what it
\* was sent.
LEMMA InvOrders == Inv /\ Orders => Inv'
  <1> SUFFICES ASSUME Inv, Orders PROVE Inv'
    OBVIOUS
  <1>1. UNCHANGED <<markets, subscribed, latest, rungs, booked>>
    BY DEF Orders, Veto, Submit, OrderEnds, strategyVars, registry, sweepVars, histVars
  <1>2. Noted' = Noted /\ \A s, t : Tracked(s, t)' <=> Tracked(s, t)
    BY <1>1, NotedStays
  <1>3. CASE Veto
    <2>1. pending # <<>> /\ pending' = Tail(pending)
          /\ UNCHANGED <<order, sent, bought>>
      BY <1>3 DEF Veto, Serving, histVars
    <2>2. pending' \in Seq(Noted')
      BY <1>2, <2>1 DEF Inv
    <2> QED BY <1>1, <1>2, <2>1, <2>2 DEF Inv, Shape, HourOnly, RungsTracked, RungsOn
  <1>4. CASE Submit
    <2> DEFINE d == Head(pending)
    <2>1. /\ pending # <<>> /\ pending' = Tail(pending)
          /\ order' = [d EXCEPT !.n = AtMost(d.n, MaxContracts)]
          /\ sent' = [sent EXCEPT ![d.s][d.t] = @ + 1]
          /\ bought' = bought
      BY <1>4 DEF Submit, Serving
    <2>2. d \in Noted
      BY <2>1 DEF Inv
    <2> HIDE DEF d
    <2>3. pending' \in Seq(Noted')
      BY <1>2, <2>1 DEF Inv
    <2>4. d.n \in Nat \ {0} /\ MaxContracts \in Nat \ {0}
      BY <2>2, TraderAssumption DEF Noted, Requests
    <2>5. order' \in Noted'
      <3>1. d \in Requests /\ order' \in Requests
        BY <2>1, <2>2, <2>4 DEF Noted, Requests, AtMost
      <3>2. order'.s = d.s /\ order'.t = d.t
        BY <2>1, <3>1 DEF Requests
      <3> QED BY <1>2, <2>2, <3>1, <3>2 DEF Noted
    <2>6. /\ d.s \in Strategies /\ d.t \in Tickers /\ Length[d.t] <= MaxCycle
      BY <2>2 DEF Noted, Requests, Hourly
    <2>7. sent' \in [Strategies -> [Tickers -> Nat]]
      BY <2>1, <2>6 DEF Inv, Shape
    <2>8. HourOnly'
      BY <2>1, <2>6 DEF Inv, Shape, HourOnly
    <2>9. RungsTracked'
      BY <1>1, <2>1 DEF Inv, RungsTracked, RungsOn
    <2>10. Shape'
      BY <1>1, <2>1, <2>7 DEF Inv, Shape, Hourly
    <2> QED BY <1>1, <2>3, <2>5, <2>8, <2>9, <2>10 DEF Inv, Hourly
  <1>5. ASSUME NEW k \in 0..MaxContracts, OrderEnds(k) PROVE Inv'
    <2>1. /\ order # NoOrder /\ order' = NoOrder
          /\ bought' = [bought EXCEPT ![order.s][order.t] = @ + k]
          /\ UNCHANGED <<pending, sent>>
      BY <1>5 DEF OrderEnds, Matched
    <2>2. order \in Noted
      BY <2>1 DEF Inv
    <2>3. order.s \in Strategies /\ order.t \in Tickers /\ k \in Nat
      BY <2>2, TraderAssumption DEF Noted, Requests
    <2>4. bought' \in [Strategies -> [Tickers -> Nat]]
      BY <2>1, <2>3 DEF Inv, Shape
    <2>5. RungsTracked'
      <3> SUFFICES ASSUME NEW s \in Sweepers, NEW t \in Tickers, bought'[s][t] > 0
                   PROVE  Tracked(s, t)'
        BY DEF RungsTracked, Tracked
      <3>1. CASE s = order.s /\ t = order.t
        BY <1>2, <2>2, <3>1 DEF Noted
      <3>2. CASE ~(s = order.s /\ t = order.t)
        <4>1. bought'[s][t] = bought[s][t]
          BY <2>1, <2>3, <3>2 DEF Inv, Shape, Strategies
        <4> QED BY <1>2, <4>1 DEF Inv, RungsTracked, Tracked
      <3> QED BY <3>1, <3>2
    <2>6. Shape' /\ HourOnly'
      BY <1>1, <2>1, <2>4 DEF Inv, Shape, HourOnly, Hourly
    <2>7. pending' \in Seq(Noted')
      BY <1>2, <2>1 DEF Inv
    <2> QED BY <1>1, <2>1, <2>5, <2>6, <2>7 DEF Inv, Hourly
  <1> QED BY <1>3, <1>4, <1>5 DEF Orders

LEMMA InvProcess == Inv /\ Process => Inv'
  <1> SUFFICES ASSUME Inv, Process PROVE Inv'
    OBVIOUS
  <1> Hourly \subseteq Tickers
    BY DEF Hourly
  <1>1. ASSUME NEW found, Boot(found) PROVE Inv'
    <2>1. /\ markets' = Discovered(found) /\ subscribed' = Discovered(found)
          /\ UNCHANGED <<latest, rungs, booked, sent, bought, pending, order>>
      BY <1>1 DEF Boot, sweepVars, loopVars
    <2>2. Discovered(found) \subseteq Hourly
      BY DiscoveredHourly
    <2> QED BY <2>1, <2>2, InvRegistry
  <1>2. ASSUME NEW k, Die(k) PROVE Inv'
    BY <1>2, InvNoProcess DEF Die
  <1>3. ASSUME NEW found, NEW extended, Discover(found, extended) PROVE Inv'
    <2>1. /\ markets' \subseteq markets \cup Discovered(found)
          /\ subscribed' \subseteq subscribed \cup Discovered(found)
          /\ UNCHANGED <<latest, rungs, booked, sent, bought, pending, order>>
      BY <1>3 DEF Discover, sweepVars, loopVars, histVars
    <2>2. Discovered(found) \subseteq Hourly
      BY DiscoveredHourly
    <2>3. markets \subseteq Tickers /\ subscribed \subseteq Hourly
      BY DEF Inv, Shape
    <2> QED BY <2>1, <2>2, <2>3, InvRegistry
  <1> QED BY <1>1, <1>2, <1>3 DEF Process

LEMMA InvStep == Inv /\ [Next]_vars => Inv'
  <1> SUFFICES ASSUME Inv, [Next]_vars PROVE Inv'
    OBVIOUS
  <1>1. markets \subseteq Tickers /\ subscribed \subseteq Hourly
    BY DEF Inv, Shape
  <1>2. CASE Process
    BY <1>2, InvProcess
  <1>3. CASE Events
    <2>1. ASSUME NEW t \in Tickers, LifecycleRegister(t) PROVE Inv'
      <3>1. /\ markets' = markets \cup {t} /\ subscribed' = subscribed
            /\ UNCHANGED <<latest, rungs, booked, sent, bought, pending, order>>
        BY <2>1 DEF LifecycleRegister, sweepVars, loopVars, histVars
      <3> QED BY <1>1, <3>1, InvRegistry
    <2>2. ASSUME NEW t \in Tickers, NEW book \in Books, NEW at \in 0..MaxTime,
                 NEW v \in Verdicts \cup {Skip}, NEW known \in BOOLEAN,
                 BookEvent(t, book, at, v, known)
          PROVE  Inv'
      BY <2>2, InvBookEvent
    <2>3. ASSUME NEW t \in Tickers, NEW at \in 0..MaxTime, NEW stamp \in 0..MaxTime,
                 Settlement(t, at, stamp)
          PROVE  Inv'
      BY <2>3, InvSettlement
    <2> QED BY <1>3, <2>1, <2>2, <2>3 DEF Events
  <1>4. CASE Orders
    BY <1>4, InvOrders
  <1>5. CASE Exchange \/ UNCHANGED vars
    <2>1. UNCHANGED <<markets, subscribed, latest, rungs, booked, sent, bought,
                      pending, order>>
      BY <1>5 DEF Exchange, Tick, Determine, vars, strategyVars, registry, sweepVars,
                  loopVars, histVars
    <2> QED BY <1>1, <2>1, InvRegistry
  <1> QED BY <1>2, <1>3, <1>4, <1>5 DEF Next

THEOREM InvAlways == Spec => []Inv
  <1>1. Init => Inv
    BY InvInit
  <1>2. Inv /\ [Next]_vars => Inv'
    BY InvStep
  <1> QED BY <1>1, <1>2, PTL DEF Spec

\* The 1-hour engine orders only in markets of at most MAX_1HR_CYCLE_MIN,
\* though _route registers longer ones too.
THEOREM HourMarketsOnly == Spec => []HourOnly
  <1>1. Inv => HourOnly
    BY DEF Inv
  <1> QED BY <1>1, InvAlways, PTL

\* The ladder and the deep-ITM sweeper note a rung before its order is sent, so
\* no veto, error or lost reply leaves a fill they do not know of.
THEOREM FillsTracked == Spec => []RungsTracked
  <1>1. Inv => RungsTracked
    BY DEF Inv
  <1> QED BY <1>1, InvAlways, PTL
-----------------------------------------------------------------------------
(* Types. *)

LEMMA DayTyped == \A at \in 0..MaxTime : DayOf(at) \in 0..DayOf(MaxTime)
  <1>1. DayLen \in Nat /\ DayLen > 0 /\ MaxTime \in Nat
    BY HourMarketAssumption
  <1>2. ASSUME NEW a \in Nat PROVE /\ a \div DayLen \in Nat
                                  /\ DayLen * (a \div DayLen) <= a
                                  /\ a < DayLen * (a \div DayLen) + DayLen
    BY <1>1
  <1>3. ASSUME NEW a \in Nat, NEW b \in Nat, a <= b
        PROVE  a \div DayLen <= b \div DayLen
    <2>1. \A x, y \in Nat : x > y => DayLen * x >= DayLen * y + DayLen
      BY <1>1
    <2> QED BY <1>1, <1>2, <1>3, <2>1
  <1> QED BY <1>1, <1>2, <1>3 DEF DayOf

LEMMA LeftTyped ==
    ASSUME TypeOK, left' = DaysLeft
    PROVE  left' \in [Sweepers -> SUBSET (Nat \cup {Never})]
  <1>1. \A s \in Sweepers : day[s] \in Nat \cup {Never}
    BY DEF TypeOK
  <1> QED BY <1>1 DEF DaysLeft, TypeOK

\* What a book event gives to the strategies and to the queue.
LEMMA BookPicks ==
    ASSUME NEW t, NEW book, NEW at, NEW v, NEW known,
           BookEvent(t, book, at, v, known)
    PROVE  \E picks :
             /\ \A s \in Sweepers : picks[s] \in Picks(s, t, at, known)
             /\ SweepersFire(t, at, known, picks)
             /\ pending' = TraderDecision(t, book.side, at, v)
                             \o RungDecisions("ladder", picks["ladder"])
                             \o RungDecisions("deep_itm", picks["deep_itm"])
  <1>1. PICK ladder \in Picks("ladder", t, at, known),
             deep \in Picks("deep_itm", t, at, known) :
             /\ SweepersFire(t, at, known,
                             [s \in Sweepers |-> IF s = "ladder" THEN ladder ELSE deep])
             /\ pending' = TraderDecision(t, book.side, at, v)
                             \o RungDecisions("ladder", ladder)
                             \o RungDecisions("deep_itm", deep)
    BY DEF BookEvent
  <1> DEFINE picks == [s \in Sweepers |-> IF s = "ladder" THEN ladder ELSE deep]
  <1>2. picks["ladder"] = ladder /\ picks["deep_itm"] = deep
    BY DEF Sweepers
  <1>3. \A s \in Sweepers : picks[s] \in Picks(s, t, at, known)
    BY <1>2 DEF Sweepers
  <1> QED BY <1>1, <1>2, <1>3

\* A sweeper picks different strikes of the cycle, at most max_rungs, and only
\* when it fires.
LEMMA PicksOfCycle ==
    ASSUME NEW s \in Sweepers, NEW t, NEW at, NEW known,
           NEW p \in Picks(s, t, at, known)
    PROVE  /\ p \in Seq(markets) /\ Len(p) <= MaxRungs[s]
           /\ p # <<>> => Fires(s, t, at, known)
           /\ \A i \in 1..Len(p) : CycleOf(p[i]) = CycleOf(t)
           /\ \A i, j \in 1..Len(p) : i # j => p[i] # p[j]
  <1>1. MaxRungs[s] \in Nat
    BY SweeperAssumption
  <1>2. CASE p = <<>>
    BY <1>1, <1>2
  <1>3. CASE p # <<>>
    <2>1. Fires(s, t, at, known)
      BY <1>3 DEF Picks
    <2>2. PICK n \in 0..MaxRungs[s] :
             /\ p \in [1..n -> Candidates(t)]
             /\ \A i, j \in 1..n : i # j => p[i] # p[j]
      BY <1>3 DEF Picks, Selections
    <2>3. p \in Seq(Candidates(t)) /\ Len(p) = n
      BY <1>1, <2>2
    <2> QED BY <1>1, <2>1, <2>2, <2>3 DEF Candidates
  <1> QED BY <1>2, <1>3

\* No two rungs of a sweeper are on one strike.
LEMMA OneRungEach ==
    ASSUME TypeOK, NEW t, NEW at, NEW known, NEW picks,
           \A s \in Sweepers : picks[s] \in Picks(s, t, at, known),
           SweepersFire(t, at, known, picks)
    PROVE  \A a, b \in rungs' : a.s = b.s /\ a.t = b.t => a = b
  <1> DEFINE new == UNION {NewRungs(s, picks[s]) : s \in Sweepers}
  <1>1. rungs' = {r \in rungs : \A x \in new : x.s = r.s => x.t # r.t} \cup new
    BY DEF SweepersFire
  <1>2. \A a, b \in rungs : a.s = b.s /\ a.t = b.t => a = b
    BY DEF TypeOK
  <1>3. ASSUME NEW a \in new, NEW b \in new, a.s = b.s, a.t = b.t PROVE a = b
    <2>1. PICK s \in Sweepers : a \in NewRungs(s, picks[s])
      OBVIOUS
    <2>2. PICK r \in Sweepers : b \in NewRungs(r, picks[r])
      OBVIOUS
    <2>3. a.s = s /\ b.s = r
      BY <2>1, <2>2 DEF NewRungs
    <2>4. PICK i \in 1..Len(picks[s]) :
            a = [s |-> s, t |-> picks[s][i], side |-> latest'[picks[s][i]].side,
                 cost |-> latest'[picks[s][i]].cost]
      BY <2>1 DEF NewRungs
    <2>5. PICK j \in 1..Len(picks[s]) :
            b = [s |-> s, t |-> picks[s][j], side |-> latest'[picks[s][j]].side,
                 cost |-> latest'[picks[s][j]].cost]
      BY <1>3, <2>2, <2>3 DEF NewRungs
    <2>6. picks[s][i] = picks[s][j]
      BY <1>3, <2>4, <2>5
    <2>7. picks[s] \in Picks(s, t, at, known)
      OBVIOUS
    <2>8. i = j
      BY <2>6, <2>7, PicksOfCycle
    <2> QED BY <2>4, <2>5, <2>8
  <1> HIDE DEF new
  <1> QED BY <1>1, <1>2, <1>3

LEMMA TypeInit == Init => TypeOK
  <1> SUFFICES ASSUME Init PROVE TypeOK
    OBVIOUS
  <1> USE DEF Init
  <1>1. clock \in 0..MaxTime /\ seen \in 0..clock /\ boots \in 0..MaxBoots
    BY HourMarketAssumption
  <1>2. /\ evaluated \in [Tickers -> SUBSET TraderMarks]
        /\ latest \in [Tickers -> Books \cup {NoBook}]
        /\ fired \in [Sweepers -> SUBSET Cycles]
        /\ realized \in [Sweepers -> Int]
        /\ day \in [Sweepers -> 0..DayOf(MaxTime) \cup {Never}]
        /\ left \in [Sweepers -> SUBSET (Nat \cup {Never})]
    OBVIOUS
  <1>3. /\ account \in [Tickers -> Nat]
        /\ result \in [Tickers -> Sides \cup {Undetermined}]
        /\ sent \in [Strategies -> [Tickers -> Nat]]
        /\ bought \in [Strategies -> [Tickers -> Nat]]
    OBVIOUS
  <1>4. pending \in Seq(Requests) /\ order = NoOrder
    OBVIOUS
  <1>5. /\ rungs = {} /\ booked = {} /\ entered = {} /\ enteredCycles = {}
        /\ markets = {} /\ subscribed = {} /\ running \in BOOLEAN
    OBVIOUS
  <1> HIDE DEF Init
  <1> QED BY <1>1, <1>2, <1>3, <1>4, <1>5 DEF TypeOK

\* A process that ended: what is left is the clock and the exchange.
LEMMA TypeNoProcess ==
    ASSUME NoProcess, clock' \in 0..MaxTime, account' \in [Tickers -> Nat],
           result' \in [Tickers -> Sides \cup {Undetermined}], boots' \in 0..MaxBoots
    PROVE  TypeOK'
  <1> USE DEF NoProcess
  <1>1. seen' \in 0..clock'
    BY HourMarketAssumption
  <1>2. /\ evaluated' \in [Tickers -> SUBSET TraderMarks]
        /\ latest' \in [Tickers -> Books \cup {NoBook}]
        /\ fired' \in [Sweepers -> SUBSET Cycles]
        /\ realized' \in [Sweepers -> Int]
        /\ day' \in [Sweepers -> 0..DayOf(MaxTime) \cup {Never}]
        /\ left' \in [Sweepers -> SUBSET (Nat \cup {Never})]
    OBVIOUS
  <1>3. /\ sent' \in [Strategies -> [Tickers -> Nat]]
        /\ bought' \in [Strategies -> [Tickers -> Nat]]
    OBVIOUS
  <1>4. pending' \in Seq(Requests) /\ order' = NoOrder
    OBVIOUS
  <1>5. /\ rungs' = {} /\ booked' = {} /\ entered' = {} /\ enteredCycles' = {}
        /\ markets' = {} /\ subscribed' = {} /\ running' \in BOOLEAN
    OBVIOUS
  <1> HIDE DEF NoProcess
  <1> QED BY <1>1, <1>2, <1>3, <1>4, <1>5 DEF TypeOK

LEMMA TypeBookEvent ==
    ASSUME TypeOK, Inv', NEW t \in Tickers, NEW book \in Books, NEW at \in 0..MaxTime,
           NEW v \in Verdicts \cup {Skip}, NEW known \in BOOLEAN,
           BookEvent(t, book, at, v, known)
    PROVE  TypeOK'
  <1>1. PICK picks : /\ \A s \in Sweepers : picks[s] \in Picks(s, t, at, known)
                     /\ SweepersFire(t, at, known, picks)
    BY BookPicks
  <1>2. /\ at \in seen..clock /\ seen' = at /\ at \in Nat /\ seen \in Nat /\ seen <= at
        /\ UNCHANGED <<clock, running, markets, subscribed, order, account, result,
                       sent, bought, booked, boots>>
    BY HourMarketAssumption DEF BookEvent, TypeOK, registry, exchangeVars
  <1>3. CycleOf(t) \in Cycles
    BY DEF Cycles
  <1>4. /\ evaluated' \in [Tickers -> SUBSET TraderMarks]
        /\ entered' \subseteq Tickers /\ enteredCycles' \subseteq Cycles
    BY <1>3 DEF BookEvent, TraderMarksEntry, Evaluates, TypeOK
  <1>5. fired' \in [Sweepers -> SUBSET Cycles]
    BY <1>1, <1>3 DEF SweepersFire, TypeOK
  <1>6. realized' \in [Sweepers -> Int]
    BY <1>1 DEF SweepersFire, Tally, TypeOK
  <1>7. day' \in [Sweepers -> 0..DayOf(MaxTime) \cup {Never}]
    <2>1. DayOf(at) \in 0..DayOf(MaxTime)
      BY DayTyped
    <2> QED BY <1>1, <2>1 DEF SweepersFire, TypeOK
  <1>8. \A a, b \in rungs' : a.s = b.s /\ a.t = b.t => a = b
    BY <1>1, OneRungEach
  <1>9. pending' \in Seq(Requests)
    BY DEF Inv, Noted
  <1>10. rungs' \subseteq Rungs /\ latest' \in [Tickers -> Books \cup {NoBook}]
    BY DEF Inv, Shape
  <1>11. seen' \in 0..clock'
    BY <1>2 DEF TypeOK
  <1>12. left' \in [Sweepers -> SUBSET (Nat \cup {Never})]
    BY LeftTyped DEF BookEvent
  <1> QED BY <1>2, <1>4, <1>5, <1>6, <1>7, <1>8, <1>9, <1>10, <1>11, <1>12 DEF TypeOK

LEMMA TypeSettlement ==
    ASSUME TypeOK, NEW t \in Tickers, NEW at \in 0..MaxTime, NEW stamp \in 0..MaxTime,
           Settlement(t, at, stamp)
    PROVE  TypeOK'
  <1>1. /\ at \in seen..clock /\ seen' = at /\ at \in Nat /\ seen \in Nat /\ seen <= at
        /\ rungs' = {r \in rungs : r.t # t}
        /\ UNCHANGED <<clock, running, markets, subscribed, evaluated, entered,
                       enteredCycles, latest, fired, pending, order, account, result,
                       sent, bought, boots>>
    BY HourMarketAssumption
       DEF Settlement, PopRungs, TypeOK, registry, traderVars, loopVars, exchangeVars
  <1>2. DayOf(stamp) \in 0..DayOf(MaxTime) /\ DayOf(stamp) \in Nat
    BY DayTyped
  <1>3. day' \in [Sweepers -> 0..DayOf(MaxTime) \cup {Never}]
    BY <1>2 DEF Settlement, TypeOK
  <1>4. \A r \in rungs : GainOf(r) \in Int /\ r.s \in Sweepers
    <2>0. rungs \subseteq Rungs
      BY DEF TypeOK
    <2>1. \A r \in rungs : r.s \in Sweepers /\ r.cost \in Int
      BY <2>0 DEF Rungs
    <2>2. \A r \in rungs : PerContract(r) \in Int /\ RungSize[r.s] \in Int
      BY <2>1, SweeperAssumption DEF PerContract
    <2>3. \A a, b \in Int : a * b \in Int
      OBVIOUS
    <2> QED BY <2>1, <2>2, <2>3 DEF GainOf
  <1>5. \A s \in Sweepers : Earned(s, t) \in Int
    <2> SUFFICES ASSUME NEW s \in Sweepers PROVE Earned(s, t) \in Int
      OBVIOUS
    <2>1. IsFiniteSet(RungsOn(s, t))
      <3>1. CASE RungsOn(s, t) = {}
        BY <3>1, FS_EmptySet
      <3>2. CASE RungsOn(s, t) # {}
        <4>0. \A q, r \in rungs : q.s = r.s /\ q.t = r.t => q = r
          BY DEF TypeOK
        <4>1. \E r : RungsOn(s, t) = {r}
          BY <3>2, <4>0 DEF RungsOn
        <4> QED BY <4>1, FS_Singleton
      <3> QED BY <3>1, <3>2
    <2> DEFINE f == [r \in rungs |-> GainOf(r)]
    <2>2. \A r \in RungsOn(s, t) : f[r] \in Int
      BY <1>4 DEF RungsOn
    <2> HIDE DEF f
    <2>3. SumFunctionOnSet(f, RungsOn(s, t)) \in Int
      BY <2>1, <2>2, SumsOfInts
    <2> QED BY <2>3 DEF Earned, f
  <1>6. realized' \in [Sweepers -> Int]
    BY <1>5 DEF Settlement, Tally, TypeOK
  <1>7. booked' \subseteq [s : Sweepers, t : Tickers, gain : Int, day : Nat]
    BY <1>2, <1>4 DEF Settlement, TypeOK
  <1>8. rungs' \subseteq Rungs /\ \A a, b \in rungs' : a.s = b.s /\ a.t = b.t => a = b
    BY <1>1 DEF TypeOK
  <1>9. seen' \in 0..clock'
    BY <1>1 DEF TypeOK
  <1>10. left' \in [Sweepers -> SUBSET (Nat \cup {Never})]
    BY LeftTyped DEF Settlement
  <1> QED BY <1>1, <1>3, <1>6, <1>7, <1>8, <1>9, <1>10 DEF TypeOK

LEMMA TypeProcess == TypeOK /\ Process => TypeOK'
  <1> SUFFICES ASSUME TypeOK, Process PROVE TypeOK'
    OBVIOUS
  <1>1. ASSUME NEW found \in SUBSET Cryptos, Boot(found) PROVE TypeOK'
    <2>1. /\ running' = TRUE /\ boots' = boots + 1 /\ seen' = clock /\ boots < MaxBoots
          /\ markets' = Discovered(found) /\ subscribed' = Discovered(found)
          /\ UNCHANGED <<clock, traderVars, sweepVars, loopVars, exchangeVars, sent,
                         bought, booked, left>>
      BY <1>1 DEF Boot
    <2>2. Discovered(found) \subseteq Tickers
      BY DEF Discovered, OpenMarkets
    <2>3. seen' \in 0..clock' /\ boots' \in 0..MaxBoots
      BY <2>1, HourMarketAssumption DEF TypeOK
    <2> QED BY <2>1, <2>2, <2>3
            DEF TypeOK, traderVars, sweepVars, tallyVars, loopVars, exchangeVars
  <1>2. ASSUME NEW k \in 0..MaxContracts, Die(k) PROVE TypeOK'
    <2>1. account' \in [Tickers -> Nat]
      <3>1. CASE order = NoOrder
        BY <1>2, <3>1 DEF Die, TypeOK
      <3>2. CASE order # NoOrder
        <4>1. order.t \in Tickers /\ k \in Nat
          BY <3>2, TraderAssumption DEF TypeOK, Requests
        <4>2. account' = [account EXCEPT ![order.t] = @ + k]
          BY <1>2, <3>2 DEF Die
        <4> QED BY <4>1, <4>2 DEF TypeOK
      <3> QED BY <3>1, <3>2
    <2> QED BY <1>2, <2>1, TypeNoProcess DEF Die, TypeOK
  <1>3. ASSUME NEW found \in SUBSET Cryptos, NEW extended \in BOOLEAN,
               Discover(found, extended)
        PROVE  TypeOK'
    <2>1. Discovered(found) \subseteq Tickers
      BY DEF Discovered, OpenMarkets
    <2> DEFINE more == Discovered(found) \ markets
    <2>2. /\ markets' = markets \cup more
          /\ subscribed' = subscribed \cup more \/ subscribed' = subscribed
          /\ UNCHANGED <<clock, running, seen, traderVars, sweepVars, loopVars,
                         exchangeVars, histVars>>
      BY <1>3 DEF Discover
    <2>3. markets' \subseteq Tickers /\ subscribed' \subseteq markets'
      BY <2>1, <2>2 DEF TypeOK
    <2> HIDE DEF more
    <2> QED BY <2>2, <2>3
            DEF TypeOK, traderVars, sweepVars, tallyVars, loopVars, exchangeVars, histVars
  <1> QED BY <1>1, <1>2, <1>3 DEF Process

LEMMA TypeOrders == TypeOK /\ Orders => TypeOK'
  <1> SUFFICES ASSUME TypeOK, Orders PROVE TypeOK'
    OBVIOUS
  <1> USE DEF strategyVars, registry, traderVars, sweepVars, tallyVars, exchangeVars, histVars
  <1>1. pending \in Seq(Requests)
    BY DEF TypeOK
  <1>2. CASE Veto
    <2>1. pending # <<>> /\ pending' = Tail(pending)
      BY <1>2 DEF Veto, Serving
    <2>2. pending' \in Seq(Requests)
      BY <1>1, <2>1
    <2> QED BY <1>2, <2>2 DEF Veto, TypeOK
  <1>3. CASE Submit
    <2> DEFINE d == Head(pending)
    <2>1. /\ pending # <<>> /\ pending' = Tail(pending)
          /\ order' = [d EXCEPT !.n = AtMost(d.n, MaxContracts)]
          /\ sent' = [sent EXCEPT ![d.s][d.t] = @ + 1]
      BY <1>3 DEF Submit, Serving
    <2>2. pending' \in Seq(Requests) /\ d \in Requests
      BY <1>1, <2>1
    <2>3. /\ UNCHANGED <<clock, running, strategyVars, exchangeVars, bought, booked, left,
                         boots>>
      BY <1>3 DEF Submit
    <2> HIDE DEF d
    <2>4. AtMost(d.n, MaxContracts) \in Nat \ {0} /\ AtMost(d.n, MaxContracts) <= MaxContracts
      <3>1. d.n \in Nat \ {0} /\ MaxContracts \in Nat \ {0}
        BY <2>2, TraderAssumption DEF Requests
      <3> QED BY <3>1 DEF AtMost
    <2>5. order' \in {r \in Requests : r.n <= MaxContracts}
      BY <2>1, <2>2, <2>4 DEF Requests
    <2>6. sent' \in [Strategies -> [Tickers -> Nat]]
      <3>1. d.s \in Strategies /\ d.t \in Tickers
        BY <2>2 DEF Requests
      <3> QED BY <2>1, <3>1 DEF TypeOK
    <2> QED BY <2>2, <2>3, <2>5, <2>6 DEF TypeOK
  <1>4. ASSUME NEW k \in 0..MaxContracts, OrderEnds(k) PROVE TypeOK'
    <2>1. /\ order # NoOrder /\ order' = NoOrder
          /\ account' = [account EXCEPT ![order.t] = @ + k]
          /\ bought' = [bought EXCEPT ![order.s][order.t] = @ + k]
          /\ UNCHANGED <<clock, running, strategyVars, pending, result, sent, booked, left,
                         boots>>
      BY <1>4 DEF OrderEnds, Matched
    <2>2. order.s \in Strategies /\ order.t \in Tickers /\ k \in Nat
      BY <2>1, TraderAssumption DEF TypeOK, Requests
    <2>3. account' \in [Tickers -> Nat] /\ bought' \in [Strategies -> [Tickers -> Nat]]
      BY <2>1, <2>2 DEF TypeOK
    <2> QED BY <2>1, <2>3 DEF TypeOK
  <1> QED BY <1>2, <1>3, <1>4 DEF Orders

LEMMA TypeStep == TypeOK /\ Inv' /\ [Next]_vars => TypeOK'
  <1> SUFFICES ASSUME TypeOK, Inv', [Next]_vars PROVE TypeOK'
    OBVIOUS
  <1>1. CASE Process
    BY <1>1, TypeProcess
  <1>2. CASE Events
    <2>1. ASSUME NEW t \in Tickers, LifecycleRegister(t) PROVE TypeOK'
      BY <2>1 DEF LifecycleRegister, OpenMarkets, TypeOK, traderVars, sweepVars,
                  tallyVars, loopVars, exchangeVars, histVars
    <2> QED BY <1>2, <2>1, TypeBookEvent, TypeSettlement DEF Events
  <1>3. CASE Orders
    BY <1>3, TypeOrders
  <1> USE DEF strategyVars, registry, traderVars, sweepVars, tallyVars, loopVars,
              exchangeVars, histVars
  <1>4. CASE Tick
    <2>1. clock' \in 0..MaxTime /\ seen' \in 0..clock'
      BY <1>4, HourMarketAssumption DEF Tick, TypeOK
    <2> QED BY <1>4, <2>1 DEF Tick, TypeOK
  <1>5. ASSUME NEW t \in Tickers, NEW side \in Sides, Determine(t, side) PROVE TypeOK'
    BY <1>5 DEF Determine, TypeOK
  <1>6. CASE UNCHANGED vars
    BY <1>6 DEF vars, TypeOK
  <1> QED BY <1>1, <1>2, <1>3, <1>4, <1>5, <1>6 DEF Next, Exchange

\* The state keeps its types: among them, a sweeper never has two rungs open on
\* one strike, and no request asks for more than max_contracts_per_trade.
THEOREM TypeCorrect == Spec => []TypeOK
  <1>1. Init => TypeOK
    BY TypeInit
  <1>2. TypeOK /\ Inv' /\ [Next]_vars => TypeOK'
    BY TypeStep
  <1> QED BY <1>1, <1>2, InvAlways, PTL DEF Spec
-----------------------------------------------------------------------------
(* The tallies of the sweepers. *)

\* A sweeper fires once in a cycle, so a strike is noted once and booked once,
\* and every booking is of the day of the tally or of one the tally has left.
Ledger ==
    /\ TallyExact
    /\ \A b \in booked : b.day = day[b.s] \/ b.day \in left[b.s]
    /\ \A r \in rungs : CycleOf(r.t) \in fired[r.s]
    /\ \A b \in booked : CycleOf(b.t) \in fired[b.s] /\ RungsOn(b.s, b.t) = {}
    /\ \A a, b \in booked : a.s = b.s /\ a.t = b.t => a = b

Bookings == [s : Sweepers, t : Tickers, gain : Int, day : Nat]

\* One booking a strike leaves finitely many.
LEMMA BookedFinite ==
    ASSUME TypeOK, Ledger PROVE IsFiniteSet(booked)
  <1>1. IsFiniteSet(Sweepers) /\ IsFiniteSet(Sweepers \X Tickers)
    <2>1. IsFiniteSet({"ladder"}) /\ IsFiniteSet({"deep_itm"})
      BY FS_Singleton
    <2>2. Sweepers = {"ladder"} \cup {"deep_itm"}
      BY DEF Sweepers
    <2>3. IsFiniteSet(Sweepers)
      BY <2>1, <2>2, FS_Union
    <2> QED BY <2>3, HourMarketAssumption, FS_Product
  <1> DEFINE f == [b \in booked |-> <<b.s, b.t>>]
  <1>2. f \in Injection(booked, Sweepers \X Tickers)
    <2>1. booked \subseteq Bookings
      BY DEF TypeOK, Bookings
    <2>2. f \in [booked -> Sweepers \X Tickers]
      BY <2>1 DEF Bookings
    <2>3. \A a, b \in booked : f[a] = f[b] => a = b
      BY DEF Ledger
    <2> HIDE DEF f
    <2> QED BY <2>2, <2>3 DEF Injection, IsInjective
  <1> HIDE DEF f
  <1> QED BY <1>1, <1>2, FS_Injection

\* What _check_daily_reset leaves is what was booked that day, if the tally did
\* not leave that day before.
LEMMA TallyIsGain ==
    ASSUME TypeOK, Ledger, NEW s \in Sweepers, NEW at, DayOf(at) \notin left[s]
    PROVE  Tally(s, at) = GainOn(s, DayOf(at))
  <1>1. CASE day[s] = DayOf(at)
    BY <1>1 DEF Tally, Ledger, TallyExact
  <1>2. CASE day[s] # DayOf(at)
    <2>1. BookedOn(s, DayOf(at)) = {}
      BY <1>2 DEF BookedOn, Ledger
    <2>2. GainOn(s, DayOf(at)) = 0
      BY <2>1, FS_EmptySet, SumOfZeros DEF GainOn
    <2> QED BY <1>2, <2>2 DEF Tally
  <1> QED BY <1>1, <1>2

LEMMA LedgerNothing ==
    ASSUME booked' = {}, rungs' = {}, realized' = [s \in Sweepers |-> 0]
    PROVE  Ledger'
  <1>1. \A s \in Sweepers : (GainOn(s, day[s]))' = 0
    <2>1. \A s \in Sweepers : (BookedOn(s, day[s]))' = {}
      BY DEF BookedOn
    <2> QED BY <2>1, FS_EmptySet, SumOfZeros DEF GainOn
  <1> QED BY <1>1 DEF Ledger, TallyExact

LEMMA LedgerInit == Init => Ledger
  <1> SUFFICES ASSUME Init PROVE Ledger
    OBVIOUS
  <1>1. booked = {} /\ rungs = {} /\ realized = [s \in Sweepers |-> 0]
    BY DEF Init
  <1>2. \A s \in Sweepers : GainOn(s, day[s]) = 0
    <2>1. \A s \in Sweepers : BookedOn(s, day[s]) = {}
      BY <1>1 DEF BookedOn
    <2> QED BY <2>1, FS_EmptySet, SumOfZeros DEF GainOn
  <1> QED BY <1>1, <1>2 DEF Ledger, TallyExact

LEMMA LedgerBookEvent ==
    ASSUME TypeOK, Ledger, NEW t \in Tickers, NEW book \in Books,
           NEW at \in 0..MaxTime, NEW v \in Verdicts \cup {Skip}, NEW known \in BOOLEAN,
           BookEvent(t, book, at, v, known)
    PROVE  Ledger'
  <1>1. PICK picks : /\ \A s \in Sweepers : picks[s] \in Picks(s, t, at, known)
                     /\ SweepersFire(t, at, known, picks)
    BY BookPicks
  <1>2. /\ booked' = booked
        /\ \A s \in Sweepers : left[s] \subseteq left'[s]
        /\ \A s \in Sweepers : day'[s] # day[s] => day[s] \in left'[s]
    BY DEF BookEvent, DaysLeft
  <1>3. \A s \in Sweepers : \A d : GainOn(s, d)' = GainOn(s, d)
    BY <1>2 DEF GainOn, BookedOn
  <1> DEFINE new == UNION {NewRungs(s, picks[s]) : s \in Sweepers}
  <1>4. /\ rungs' = {r \in rungs : \A x \in new : x.s = r.s => x.t # r.t} \cup new
        /\ \A s \in Sweepers :
             /\ fired[s] \subseteq fired'[s]
             /\ realized'[s] = IF Triggers(s, t, at) THEN Tally(s, at) ELSE realized[s]
             /\ day'[s] = IF Triggers(s, t, at) THEN DayOf(at) ELSE day[s]
    BY <1>1 DEF SweepersFire
  <1>5. \A x \in new : /\ x.s \in Sweepers /\ CycleOf(x.t) \in fired'[x.s]
                       /\ CycleOf(x.t) \notin fired[x.s]
    <2> SUFFICES ASSUME NEW s \in Sweepers, NEW x \in NewRungs(s, picks[s])
                 PROVE  /\ x.s \in Sweepers /\ CycleOf(x.t) \in fired'[x.s]
                        /\ CycleOf(x.t) \notin fired[x.s]
      OBVIOUS
    <2>1. PICK i \in 1..Len(picks[s]) : x.t = picks[s][i]
      BY DEF NewRungs
    <2>2. x.s = s
      BY DEF NewRungs
    <2>3. picks[s] \in Picks(s, t, at, known) /\ picks[s] # <<>>
      BY <1>1, <2>1
    <2>4. Fires(s, t, at, known) /\ CycleOf(x.t) = CycleOf(t)
      BY <2>1, <2>3, PicksOfCycle
    <2>5. CycleOf(t) \notin fired[s] /\ CycleOf(t) \in fired'[s]
      BY <1>1, <2>4 DEF Fires, Triggers, SweepersFire
    <2> QED BY <2>2, <2>4, <2>5
  <1> HIDE DEF new
  <1>6. TallyExact'
    <2>1. ASSUME NEW s \in Sweepers, day'[s] \notin left'[s]
          PROVE  realized'[s] = GainOn(s, day'[s])
      <3>1. CASE Triggers(s, t, at)
        <4>1. day'[s] = DayOf(at) /\ DayOf(at) \notin left[s]
          BY <1>2, <1>4, <2>1, <3>1
        <4> QED BY <1>4, <3>1, <4>1, TallyIsGain
      <3>2. CASE ~Triggers(s, t, at)
        <4>1. day'[s] = day[s] /\ day[s] \notin left[s]
          BY <1>2, <1>4, <2>1, <3>2
        <4> QED BY <1>4, <3>2, <4>1 DEF Ledger, TallyExact
      <3> QED BY <3>1, <3>2
    <2>2. \A s \in Sweepers : (GainOn(s, day[s]))' = GainOn(s, day'[s])
      BY <1>2 DEF GainOn, BookedOn
    <2> QED BY <2>1, <2>2 DEF TallyExact
  <1>7. \A b \in booked : b.s \in Sweepers /\ b.day \in Nat
    BY DEF TypeOK
  <1>8. \A b \in booked : b.day = day'[b.s] \/ b.day \in left'[b.s]
    BY <1>2, <1>7 DEF Ledger
  <1>9. \A r \in rungs' : CycleOf(r.t) \in fired'[r.s]
    <2>1. \A r \in rungs : r.s \in Sweepers
      BY DEF TypeOK, Rungs
    <2> QED BY <1>4, <1>5, <2>1 DEF Ledger
  <1>10. \A b \in booked : CycleOf(b.t) \in fired'[b.s] /\ (RungsOn(b.s, b.t))' = {}
    <2> SUFFICES ASSUME NEW b \in booked
                 PROVE  CycleOf(b.t) \in fired'[b.s] /\ RungsOn(b.s, b.t)' = {}
      OBVIOUS
    <2>1. CycleOf(b.t) \in fired[b.s] /\ RungsOn(b.s, b.t) = {}
      BY DEF Ledger
    <2>2. \A x \in new : ~(x.s = b.s /\ x.t = b.t)
      BY <1>5, <2>1
    <2> QED BY <1>4, <1>7, <2>1, <2>2 DEF RungsOn
  <1> QED BY <1>2, <1>6, <1>8, <1>9, <1>10 DEF Ledger

LEMMA LedgerSettlement ==
    ASSUME TypeOK, Ledger, TypeOK', NEW t \in Tickers, NEW at \in 0..MaxTime,
           NEW stamp \in 0..MaxTime, Settlement(t, at, stamp)
    PROVE  Ledger'
  <1>1. /\ rungs' = {r \in rungs : r.t # t} /\ fired' = fired
        /\ booked' = booked \cup
              {[s |-> r.s, t |-> t, gain |-> GainOf(r), day |-> DayOf(stamp)] :
                  r \in {x \in rungs : x.t = t}}
    BY DEF Settlement, PopRungs
  <1> DEFINE Booking(r) == [s |-> r.s, t |-> t, gain |-> GainOf(r), day |-> DayOf(stamp)]
             new == {Booking(r) : r \in {x \in rungs : x.t = t}}
  <1>2. /\ booked' = booked \cup new
        /\ \A x \in new : x.t = t /\ x.day = DayOf(stamp) /\ RungsOn(x.s, t) # {}
    BY <1>1 DEF RungsOn
  <1>3. \A a, b \in new : a.s = b.s => a = b
    <2>1. \A q, r \in rungs : q.s = r.s /\ q.t = r.t => q = r
      BY DEF TypeOK
    <2> SUFFICES ASSUME NEW q \in rungs, NEW r \in rungs, q.t = t, r.t = t,
                        Booking(q).s = Booking(r).s
                 PROVE  q = r
      OBVIOUS
    <2> QED BY <2>1
  <1>4. \A x \in new : x.s \in Sweepers /\ CycleOf(t) \in fired[x.s]
    <2>1. \A r \in rungs : r.s \in Sweepers /\ CycleOf(r.t) \in fired[r.s]
      BY DEF TypeOK, Rungs, Ledger
    <2> QED BY <2>1
  <1>5. \A s \in Sweepers : RungsOn(s, t) # {} => \E r \in rungs :
                /\ r.s = s /\ r.t = t /\ RungsOn(s, t) = {r}
                /\ \A x \in new : x.s = s <=> x = Booking(r)
    <2> SUFFICES ASSUME NEW s \in Sweepers, NEW r \in RungsOn(s, t)
                 PROVE  /\ r \in rungs /\ r.s = s /\ r.t = t /\ RungsOn(s, t) = {r}
                        /\ \A x \in new : x.s = s <=> x = Booking(r)
      OBVIOUS
    <2>1. r \in rungs /\ r.s = s /\ r.t = t
      BY DEF RungsOn
    <2>2. RungsOn(s, t) = {r}
      BY <2>1 DEF RungsOn, TypeOK
    <2>3. Booking(r) \in new /\ Booking(r).s = s
      BY <2>1
    <2> QED BY <1>3, <2>1, <2>2, <2>3
  <1>6. \A b \in booked : b \notin new
    BY <1>2 DEF Ledger
  <1>7. /\ \A s \in Sweepers : left[s] \subseteq left'[s]
        /\ \A s \in Sweepers : day'[s] # day[s] => day[s] \in left'[s]
    BY DEF Settlement, DaysLeft
  <1>9. \A s \in Sweepers :
            /\ realized'[s] = IF RungsOn(s, t) = {} THEN realized[s]
                              ELSE Tally(s, stamp) + Earned(s, t)
            /\ day'[s] = IF RungsOn(s, t) = {} THEN day[s] ELSE DayOf(stamp)
    BY DEF Settlement
  <1>10. IsFiniteSet(booked) /\ booked \subseteq Bookings /\ booked' \subseteq Bookings
    BY BookedFinite DEF TypeOK, Bookings
  <1> DEFINE f == [b \in booked |-> b.gain]
             g == [b \in booked' |-> b.gain]
  <1>11. /\ \A b \in booked : f[b] = b.gain /\ g[b] = b.gain /\ b.gain \in Int
         /\ \A b \in booked' : g[b] = b.gain /\ g[b] \in Int
    BY <1>2, <1>10 DEF Bookings
  <1>12. \A s, d : /\ IsFiniteSet(BookedOn(s, d)) /\ BookedOn(s, d) \subseteq booked
                   /\ GainOn(s, d) = SumFunctionOnSet(f, BookedOn(s, d))
    <2>1. \A s, d : BookedOn(s, d) \in SUBSET booked
      BY DEF BookedOn
    <2> QED BY <1>10, <2>1, FS_Subset DEF GainOn
  <1>13. \A s, d : GainOn(s, d) = SumFunctionOnSet(g, BookedOn(s, d))
    <2> HIDE DEF f, g
    <2> QED BY <1>11, <1>12, SumsAgree
  <1>14. ASSUME NEW s \in Sweepers, day'[s] \notin left'[s]
         PROVE  realized'[s] = (GainOn(s, day[s]))'
    <2>0. (GainOn(s, day[s]))' = SumFunctionOnSet(g, {b \in booked' : b.s = s /\ b.day = day'[s]})
      BY DEF GainOn, BookedOn
    <2>1. CASE RungsOn(s, t) = {}
      <3>1. \A x \in new : x.s # s
        BY <1>2, <2>1
      <3> HIDE DEF new
      <3>2. {b \in booked' : b.s = s /\ b.day = day'[s]} = BookedOn(s, day[s])
        BY <1>2, <1>9, <2>1, <3>1 DEF BookedOn
      <3>3. realized'[s] = GainOn(s, day[s])
        <4>1. day[s] \notin left[s]
          BY <1>7, <1>9, <1>14, <2>1
        <4> QED BY <1>9, <2>1, <4>1 DEF Ledger, TallyExact
      <3> HIDE DEF g
      <3> QED BY <1>13, <2>0, <3>2, <3>3
    <2>2. CASE RungsOn(s, t) # {}
      <3>1. PICK r \in rungs : /\ r.s = s /\ r.t = t /\ RungsOn(s, t) = {r}
                              /\ \A x \in new : x.s = s <=> x = Booking(r)
        BY <1>5, <2>2
      <3> DEFINE x == Booking(r)
                 d == DayOf(stamp)
      <3>2. x \in new /\ x.s = s /\ x.day = d /\ x.gain = GainOf(r)
        BY <3>1
      <3>3. x \in booked' /\ x \notin booked
        BY <1>2, <1>6, <3>2
      <3>4. \A y \in new : y.s = s <=> y = x
        BY <3>1
      <3>5. day'[s] = d /\ realized'[s] = Tally(s, stamp) + Earned(s, t)
        BY <1>9, <2>2
      <3>6. Tally(s, stamp) = GainOn(s, d)
        BY <1>7, <1>14, <3>5, TallyIsGain
      <3>7. Earned(s, t) = GainOf(r)
        <4> DEFINE h == [y \in rungs |-> GainOf(y)]
        <4>1. h[r] = GainOf(r) /\ Earned(s, t) = SumFunctionOnSet(h, {r})
          BY <3>1 DEF Earned
        <4>2. GainOf(r) \in Int
          BY <1>11, <3>2, <3>3
        <4>3. IsFiniteSet({r}) /\ {r} \ {r} = {}
          BY FS_Singleton
        <4> HIDE DEF h
        <4>4. SumFunctionOnSet(h, {r}) = SumFunctionOnSet(h, {r} \ {r}) + h[r]
          BY <4>1, <4>2, <4>3, SumWithout
        <4>5. SumFunctionOnSet(h, {}) = 0
          BY FS_EmptySet, SumOfZeros
        <4> QED BY <4>1, <4>2, <4>3, <4>4, <4>5
      <3>8. g[x] = GainOf(r) /\ g[x] \in Int
        BY <1>11, <3>2, <3>3
      <3> HIDE DEF new, x, d
      <3> DEFINE S == {b \in booked' : b.s = s /\ b.day = day'[s]}
      <3>9. S = BookedOn(s, d) \cup {x} /\ S \ {x} = BookedOn(s, d) /\ x \in S
        BY <1>2, <3>2, <3>3, <3>4, <3>5 DEF BookedOn
      <3>10. IsFiniteSet(S) /\ \A b \in S : g[b] \in Int
        BY <1>11, <1>12, <3>9, FS_AddElement
      <3> HIDE DEF S, g
      <3>11. SumFunctionOnSet(g, S) = SumFunctionOnSet(g, BookedOn(s, d)) + g[x]
        BY <3>9, <3>10, SumWithout
      <3> QED BY <1>13, <2>0, <3>5, <3>6, <3>7, <3>8, <3>11 DEF S
    <2> QED BY <2>1, <2>2
  <1>15. TallyExact'
    BY <1>14 DEF TallyExact
  <1>16. \A b \in booked' : b.day = day'[b.s] \/ b.day \in left'[b.s]
    <2>1. \A b \in booked : b.s \in Sweepers /\ (b.day = day[b.s] \/ b.day \in left[b.s])
      BY <1>10 DEF Bookings, Ledger
    <2>2. \A b \in booked : b.day = day'[b.s] \/ b.day \in left'[b.s]
      BY <1>7, <2>1
    <2>3. \A x \in new : x.day = day'[x.s]
      <3> HIDE DEF new
      <3> QED BY <1>2, <1>4, <1>9
    <2> QED BY <1>2, <2>2, <2>3
  <1> HIDE DEF new
  <1>17. \A r \in rungs' : CycleOf(r.t) \in fired'[r.s]
    BY <1>1 DEF Ledger
  <1>18. \A b \in booked' : CycleOf(b.t) \in fired'[b.s] /\ (RungsOn(b.s, b.t))' = {}
    BY <1>1, <1>2, <1>4 DEF Ledger, RungsOn
  <1>19. \A a, b \in booked' : a.s = b.s /\ a.t = b.t => a = b
    BY <1>2, <1>3 DEF Ledger
  <1> QED BY <1>15, <1>16, <1>17, <1>18, <1>19 DEF Ledger

\* Where the books of the sweepers stay, so does the ledger.
LEMMA LedgerStays ==
    ASSUME Ledger, UNCHANGED <<rungs, booked, realized, day, left, fired>>
    PROVE  Ledger'
  <1>1. \A s, d : GainOn(s, d)' = GainOn(s, d)
    BY DEF GainOn, BookedOn
  <1>2. \A s : (GainOn(s, day[s]))' = GainOn(s, day[s])
    BY DEF GainOn, BookedOn
  <1>3. \A s, t : RungsOn(s, t)' = RungsOn(s, t)
    BY DEF RungsOn
  <1>4. \A b \in booked : (RungsOn(b.s, b.t))' = RungsOn(b.s, b.t)
    BY DEF RungsOn
  <1> QED BY <1>2, <1>4 DEF Ledger, TallyExact

LEMMA LedgerStep == TypeOK /\ Ledger /\ TypeOK' /\ [Next]_vars => Ledger'
  <1> SUFFICES ASSUME TypeOK, Ledger, TypeOK', [Next]_vars PROVE Ledger'
    OBVIOUS
  <1> USE DEF strategyVars, registry, traderVars, sweepVars, tallyVars, loopVars,
              exchangeVars, histVars
  <1>1. CASE Process
    <2>1. ASSUME NEW found, Boot(found) PROVE Ledger'
      BY <2>1, LedgerStays DEF Boot
    <2>2. ASSUME NEW k, Die(k) PROVE Ledger'
      BY <2>2, LedgerNothing DEF Die, NoProcess
    <2>3. ASSUME NEW found, NEW extended, Discover(found, extended) PROVE Ledger'
      BY <2>3, LedgerStays DEF Discover
    <2> QED BY <1>1, <2>1, <2>2, <2>3 DEF Process
  <1>2. CASE Events
    <2>1. ASSUME NEW t, LifecycleRegister(t) PROVE Ledger'
      BY <2>1, LedgerStays DEF LifecycleRegister
    <2> QED BY <1>2, <2>1, LedgerBookEvent, LedgerSettlement DEF Events
  <1>3. CASE Orders \/ Exchange \/ UNCHANGED vars
    <2>1. UNCHANGED <<rungs, booked, realized, day, left, fired>>
      BY <1>3 DEF Orders, Veto, Submit, OrderEnds, Exchange, Tick, Determine, vars
    <2> QED BY <2>1, LedgerStays
  <1> QED BY <1>1, <1>2, <1>3 DEF Next

THEOREM LedgerAlways == Spec => []Ledger
  <1>1. Init => Ledger
    BY LedgerInit
  <1>2. TypeOK /\ Ledger /\ TypeOK' /\ [Next]_vars => Ledger'
    BY LedgerStep
  <1> QED BY <1>1, <1>2, TypeCorrect, PTL DEF Spec

\* _daily_realized_cents is the sum of what was settled on its day, by the
\* exchange's stamps in whatever order they come, as long as it did not leave
\* that day and come back.
THEOREM TalliesExact == Spec => []TallyExact
  <1>1. Ledger => TallyExact
    BY DEF Ledger
  <1> QED BY <1>1, LedgerAlways, PTL

\* A sweeper whose day lost its cap notes no rung: the loss it looks at is the
\* one of the day, at the moment it decides.
LEMMA CapStep ==
    ASSUME TypeOK, Ledger, [Next]_vars, NEW s \in Sweepers,
           GainOn(s, DayOf(seen')) <= -LossCap[s], DayOf(seen') \notin left[s]
    PROVE  {r \in rungs' : r.s = s} \subseteq rungs
  <1> USE DEF strategyVars, registry, traderVars, sweepVars, tallyVars, loopVars,
              exchangeVars, histVars
  <1>1. CASE Process
    <2>1. rungs' = rungs \/ rungs' = {}
      BY <1>1 DEF Process, Boot, Die, NoProcess, Discover
    <2> QED BY <2>1
  <1>2. ASSUME NEW t \in Tickers, NEW book \in Books, NEW at \in 0..MaxTime,
               NEW v \in Verdicts \cup {Skip}, NEW known \in BOOLEAN,
               BookEvent(t, book, at, v, known)
        PROVE  {r \in rungs' : r.s = s} \subseteq rungs
    <2>1. PICK picks : /\ \A x \in Sweepers : picks[x] \in Picks(x, t, at, known)
                       /\ SweepersFire(t, at, known, picks)
      BY <1>2, BookPicks
    <2>2. seen' = at
      BY <1>2 DEF BookEvent
    <2>3. CapBound(s, at)
      BY <2>2, TallyIsGain DEF CapBound
    <2>4. picks[s] = <<>>
      BY <2>1, <2>3 DEF Picks, Fires
    <2>5. \A x \in Sweepers : \A r \in NewRungs(x, picks[x]) : r.s = x
      BY DEF NewRungs
    <2>6. NewRungs(s, picks[s]) = {}
      BY <2>4 DEF NewRungs
    <2>7. rungs' \subseteq rungs \cup UNION {NewRungs(x, picks[x]) : x \in Sweepers}
      BY <2>1 DEF SweepersFire
    <2> QED BY <2>5, <2>6, <2>7
  <1>3. CASE Events
    <2>1. ASSUME NEW t, NEW at, NEW stamp, Settlement(t, at, stamp)
          PROVE  rungs' \subseteq rungs
      BY <2>1 DEF Settlement, PopRungs
    <2>2. ASSUME NEW t, LifecycleRegister(t) PROVE rungs' \subseteq rungs
      BY <2>2 DEF LifecycleRegister
    <2> QED BY <1>2, <1>3, <2>1, <2>2 DEF Events
  <1>4. CASE Orders \/ Exchange \/ UNCHANGED vars
    BY <1>4 DEF Orders, Veto, Submit, OrderEnds, Exchange, Tick, Determine, vars
  <1> QED BY <1>1, <1>3, <1>4 DEF Next

\* The loss cap of a sweeper, checked when it fires, holds for the whole day,
\* unless a settlement of another day's stamp made the tally leave it.
THEOREM CapStops == Spec => CapStopsSweeper
  <1> DEFINE Obeys == \A s \in Sweepers :
                         GainOn(s, DayOf(seen')) <= -LossCap[s] /\ DayOf(seen') \notin left[s]
                         => {r \in rungs' : r.s = s} \subseteq rungs
  <1>1. TypeOK /\ Ledger /\ [Next]_vars => [Obeys]_vars
    BY CapStep
  <1>2. CapStopsSweeper <=> [][Obeys]_vars
    BY PTL DEF CapStopsSweeper
  <1> HIDE DEF Obeys
  <1> QED BY <1>1, <1>2, TypeCorrect, LedgerAlways, PTL DEF Spec
-----------------------------------------------------------------------------
(* How many orders a cycle gets. *)

\* Decisions of s for cycle c that are not looked at yet, and what they make
\* with the orders that were sent.
Waiting(s, c) == {i \in 1..Len(pending) : pending[i].s = s /\ CycleOf(pending[i].t) = c}
Owed(s, c) == SentIn(s, c) + Cardinality(Waiting(s, c))

\* Decisions are queued when the cycle is locked, and are sent once.
Rationed ==
    \A c \in Cycles :
        /\ Owed("trader", c) <= IF c \in enteredCycles THEN 1 ELSE 0
        /\ \A s \in Sweepers : Owed(s, c) <= IF c \in fired[s] THEN MaxRungs[s] ELSE 0

LEMMA CycleFinite == \A c : IsFiniteSet(OfCycle(c)) /\ OfCycle(c) \subseteq Tickers
  <1>1. \A c : OfCycle(c) \in SUBSET Tickers
    BY DEF OfCycle
  <1> QED BY <1>1, HourMarketAssumption, FS_Subset

LEMMA OwedTyped ==
    ASSUME TypeOK
    PROVE  \A s \in Strategies : \A c :
             /\ SentIn(s, c) \in Int /\ IsFiniteSet(Waiting(s, c))
             /\ Cardinality(Waiting(s, c)) \in Nat
             /\ SentIn(s, c) <= Owed(s, c)
  <1> SUFFICES ASSUME NEW s \in Strategies, NEW c
               PROVE  /\ SentIn(s, c) \in Int /\ IsFiniteSet(Waiting(s, c))
                      /\ Cardinality(Waiting(s, c)) \in Nat
                      /\ SentIn(s, c) <= Owed(s, c)
    OBVIOUS
  <1>1. \A t \in OfCycle(c) : sent[s][t] \in Int
    BY CycleFinite DEF TypeOK
  <1>2. SentIn(s, c) \in Int
    BY <1>1, CycleFinite, SumsOfInts DEF SentIn
  <1>3. IsFiniteSet(1..Len(pending)) /\ Waiting(s, c) \in SUBSET (1..Len(pending))
    <2>1. Len(pending) \in Int
      BY DEF TypeOK
    <2> QED BY <2>1, FS_Interval DEF Waiting
  <1>4. IsFiniteSet(Waiting(s, c)) /\ Cardinality(Waiting(s, c)) \in Nat
    BY <1>3, FS_Subset, FS_CardinalityType
  <1> QED BY <1>2, <1>4 DEF Owed

\* With nothing pending and nothing sent, nothing is owed.
LEMMA NothingOwed ==
    ASSUME NEW s \in Strategies, NEW c, pending' = <<>>,
           sent' = [x \in Strategies |-> [t \in Tickers |-> 0]]
    PROVE  Owed(s, c)' = 0
  <1>1. SumFunctionOnSet(sent'[s], OfCycle(c)) = 0
    BY CycleFinite, SumOfZeros
  <1>2. Waiting(s, c)' = {}
    BY DEF Waiting
  <1>3. Cardinality(Waiting(s, c)') = 0
    BY <1>2, FS_EmptySet
  <1>4. SentIn(s, c)' = 0
    BY <1>1 DEF SentIn
  <1> QED BY <1>3, <1>4 DEF Owed

LEMMA RationedStays ==
    ASSUME Rationed, UNCHANGED <<pending, sent, enteredCycles, fired>>
    PROVE  Rationed'
  <1>1. \A s, c : Owed(s, c)' = Owed(s, c)
    BY DEF Owed, SentIn, Waiting
  <1> QED BY <1>1 DEF Rationed

LEMMA RationedNothing ==
    ASSUME pending' = <<>>, sent' = [x \in Strategies |-> [t \in Tickers |-> 0]]
    PROVE  Rationed'
  <1>1. \A s \in Strategies : \A c : Owed(s, c)' = 0
    BY NothingOwed
  <1>2. \A s \in Sweepers : MaxRungs[s] \in Nat /\ s \in Strategies
    BY SweeperAssumption DEF Strategies
  <1> QED BY <1>1, <1>2 DEF Rationed, Strategies

LEMMA RationedInit == Init => Rationed
  <1> SUFFICES ASSUME Init PROVE Rationed
    OBVIOUS
  <1>1. pending = <<>> /\ sent = [x \in Strategies |-> [t \in Tickers |-> 0]]
    BY DEF Init
  <1>2. ASSUME NEW s \in Strategies, NEW c PROVE Owed(s, c) = 0
    <2>1. SentIn(s, c) = 0
      BY <1>1, CycleFinite, SumOfZeros DEF SentIn
    <2>2. Waiting(s, c) = {}
      BY <1>1 DEF Waiting
    <2> QED BY <2>1, <2>2, FS_EmptySet DEF Owed
  <1>3. \A s \in Sweepers : MaxRungs[s] \in Nat /\ s \in Strategies
    BY SweeperAssumption DEF Strategies
  <1> QED BY <1>2, <1>3 DEF Rationed, Strategies

\* The queue after a book event: the trader's decision, the ladder's, the
\* deep-ITM sweeper's, all of one cycle.
LEMMA QueueOfBook ==
    ASSUME NEW t, NEW td \in Seq(Requests), NEW a \in Seq(Requests), NEW b \in Seq(Requests),
           \A i \in 1..Len(td) : td[i].s = "trader" /\ CycleOf(td[i].t) = CycleOf(t),
           \A i \in 1..Len(a) : a[i].s = "ladder" /\ CycleOf(a[i].t) = CycleOf(t),
           \A i \in 1..Len(b) : b[i].s = "deep_itm" /\ CycleOf(b[i].t) = CycleOf(t),
           pending' = td \o a \o b, NEW c
    PROVE  /\ Cardinality(Waiting("trader", c)') <= IF c = CycleOf(t) THEN Len(td) ELSE 0
           /\ Cardinality(Waiting("ladder", c)') <= IF c = CycleOf(t) THEN Len(a) ELSE 0
           /\ Cardinality(Waiting("deep_itm", c)') <= IF c = CycleOf(t) THEN Len(b) ELSE 0
  <1> DEFINE q == td \o a \o b
             W(s) == {i \in 1..Len(q) : q[i].s = s /\ CycleOf(q[i].t) = c}
  <1>1. \A s : Waiting(s, c)' = W(s)
    BY DEF Waiting
  <1>2. /\ Len(td) \in Nat /\ Len(a) \in Nat /\ Len(b) \in Nat
        /\ Len(q) = Len(td) + Len(a) + Len(b)
    OBVIOUS
  <1>3. /\ \A i \in 1..Len(td) : q[i] = td[i]
        /\ \A i \in Len(td) + 1..Len(td) + Len(a) : q[i] = a[i - Len(td)]
        /\ \A i \in Len(td) + Len(a) + 1..Len(q) : q[i] = b[i - Len(td) - Len(a)]
    OBVIOUS
  <1> HIDE DEF q
  <1>4. /\ \A i \in 1..Len(td) : q[i].s = "trader" /\ CycleOf(q[i].t) = CycleOf(t)
        /\ \A i \in Len(td) + 1..Len(td) + Len(a) :
                q[i].s = "ladder" /\ CycleOf(q[i].t) = CycleOf(t)
        /\ \A i \in Len(td) + Len(a) + 1..Len(q) :
                q[i].s = "deep_itm" /\ CycleOf(q[i].t) = CycleOf(t)
    <2>1. \A i \in Len(td) + 1..Len(td) + Len(a) : i - Len(td) \in 1..Len(a)
      BY <1>2
    <2>2. \A i \in Len(td) + Len(a) + 1..Len(q) : i - Len(td) - Len(a) \in 1..Len(b)
      BY <1>2
    <2>3. \A i \in 1..Len(td) : q[i].s = "trader" /\ CycleOf(q[i].t) = CycleOf(t)
      BY <1>3
    <2>4. \A i \in Len(td) + 1..Len(td) + Len(a) :
              q[i].s = "ladder" /\ CycleOf(q[i].t) = CycleOf(t)
      <3> SUFFICES ASSUME NEW i \in Len(td) + 1..Len(td) + Len(a)
                   PROVE  q[i].s = "ladder" /\ CycleOf(q[i].t) = CycleOf(t)
        OBVIOUS
      <3>1. q[i] = a[i - Len(td)] /\ i - Len(td) \in 1..Len(a)
        BY <1>3, <2>1
      <3> QED BY <3>1
    <2>5. \A i \in Len(td) + Len(a) + 1..Len(q) :
              q[i].s = "deep_itm" /\ CycleOf(q[i].t) = CycleOf(t)
      <3> SUFFICES ASSUME NEW i \in Len(td) + Len(a) + 1..Len(q)
                   PROVE  q[i].s = "deep_itm" /\ CycleOf(q[i].t) = CycleOf(t)
        OBVIOUS
      <3>1. q[i] = b[i - Len(td) - Len(a)] /\ i - Len(td) - Len(a) \in 1..Len(b)
        BY <1>3, <2>2
      <3> QED BY <3>1
    <2> QED BY <2>3, <2>4, <2>5
  <1>5. \A i \in 1..Len(q) : \/ i \in 1..Len(td)
                            \/ i \in Len(td) + 1..Len(td) + Len(a)
                            \/ i \in Len(td) + Len(a) + 1..Len(q)
    BY <1>2
  <1>6. /\ W("trader") \subseteq 1..Len(td)
        /\ W("ladder") \subseteq Len(td) + 1..Len(td) + Len(a)
        /\ W("deep_itm") \subseteq Len(td) + Len(a) + 1..Len(q)
        /\ \A s : c # CycleOf(t) => W(s) = {}
    <2>1. \A s : \A i \in W(s) : /\ i \in 1..Len(q) /\ q[i].s = s /\ c = CycleOf(t)
      BY <1>4, <1>5
    <2> HIDE DEF W
    <2>2. ASSUME NEW i \in W("trader") PROVE i \in 1..Len(td)
      <3>1. i \in 1..Len(q) /\ q[i].s = "trader"
        BY <2>1
      <3> QED BY <1>4, <1>5, <3>1
    <2>3. ASSUME NEW i \in W("ladder") PROVE i \in Len(td) + 1..Len(td) + Len(a)
      <3>1. i \in 1..Len(q) /\ q[i].s = "ladder"
        BY <2>1
      <3> QED BY <1>4, <1>5, <3>1
    <2>4. ASSUME NEW i \in W("deep_itm") PROVE i \in Len(td) + Len(a) + 1..Len(q)
      <3>1. i \in 1..Len(q) /\ q[i].s = "deep_itm"
        BY <2>1
      <3> QED BY <1>4, <1>5, <3>1
    <2> QED BY <2>1, <2>2, <2>3, <2>4
  <1> HIDE DEF W
  <1>7. /\ Cardinality(1..Len(td)) = Len(td)
        /\ Cardinality(Len(td) + 1..Len(td) + Len(a)) = Len(a)
        /\ Cardinality(Len(td) + Len(a) + 1..Len(q)) = Len(b)
    <2>1. \A m, n \in Nat : Cardinality(m + 1..m + n) = n
      <3> SUFFICES ASSUME NEW m \in Nat, NEW n \in Nat
                   PROVE  Cardinality(m + 1..m + n) = n
        OBVIOUS
      <3>1. m + 1 \in Int /\ m + n \in Int
        OBVIOUS
      <3>2. Cardinality(m + 1..m + n) = IF m + 1 > m + n THEN 0 ELSE (m + n) - (m + 1) + 1
        BY <3>1, FS_Interval
      <3> QED BY <3>2
    <2>2. Cardinality(1..Len(td)) = Len(td)
      <3>1. 1 \in Int /\ Len(td) \in Int
        BY <1>2
      <3>2. Cardinality(1..Len(td)) = IF 1 > Len(td) THEN 0 ELSE Len(td) - 1 + 1
        BY <3>1, FS_Interval
      <3> QED BY <1>2, <3>2
    <2>3. Len(td) + Len(a) \in Nat /\ Len(q) = (Len(td) + Len(a)) + Len(b)
      BY <1>2
    <2> QED BY <1>2, <2>1, <2>2, <2>3
  <1>8. \A m, n \in Int : IsFiniteSet(m..n)
    BY FS_Interval
  <1>9. /\ Cardinality(W("trader")) <= Len(td)
        /\ Cardinality(W("ladder")) <= Len(a)
        /\ Cardinality(W("deep_itm")) <= Len(b)
    <2>1. /\ Len(td) \in Int /\ Len(td) + 1 \in Int /\ Len(td) + Len(a) \in Int
          /\ Len(td) + Len(a) + 1 \in Int /\ Len(q) \in Int /\ 1 \in Int
      BY <1>2
    <2>2. /\ IsFiniteSet(1..Len(td)) /\ IsFiniteSet(Len(td) + 1..Len(td) + Len(a))
          /\ IsFiniteSet(Len(td) + Len(a) + 1..Len(q))
      BY <1>8, <2>1
    <2>3. /\ Cardinality(W("trader")) <= Cardinality(1..Len(td))
          /\ Cardinality(W("ladder")) <= Cardinality(Len(td) + 1..Len(td) + Len(a))
          /\ Cardinality(W("deep_itm")) <= Cardinality(Len(td) + Len(a) + 1..Len(q))
      BY <1>6, <2>2, FS_Subset
    <2> QED BY <1>7, <2>3
  <1>10. c # CycleOf(t) => \A s : Cardinality(W(s)) = 0
    BY <1>6, FS_EmptySet
  <1> QED BY <1>1, <1>9, <1>10

LEMMA RationedBookEvent ==
    ASSUME TypeOK, TypeOK', Inv, Rationed, NEW t \in Tickers, NEW book \in Books,
           NEW at \in 0..MaxTime, NEW v \in Verdicts \cup {Skip}, NEW known \in BOOLEAN,
           BookEvent(t, book, at, v, known)
    PROVE  Rationed'
  <1>1. PICK picks : /\ \A s \in Sweepers : picks[s] \in Picks(s, t, at, known)
                     /\ SweepersFire(t, at, known, picks)
                     /\ pending' = TraderDecision(t, book.side, at, v)
                                     \o RungDecisions("ladder", picks["ladder"])
                                     \o RungDecisions("deep_itm", picks["deep_itm"])
    BY BookPicks
  <1> DEFINE td == TraderDecision(t, book.side, at, v)
             Of(s) == RungDecisions(s, picks[s])
  <1>2. /\ pending = <<>> /\ sent' = sent
        /\ latest' \in [Tickers -> Books \cup {NoBook}]
        /\ \A u \in Tickers : latest'[u] # NoBook => u \in Hourly
    <2>1. t \in Hourly /\ latest' = [latest EXCEPT ![t] = book]
      BY DEF BookEvent, Inv, Shape
    <2> QED BY <2>1 DEF BookEvent, Idle, Inv, Shape, histVars
  <1>3. td \in Seq(Requests) /\ (td # <<>> => Enters(t, at, v)) /\ Len(td) \in {0, 1}
        /\ \A i \in 1..Len(td) : td[i].s = "trader" /\ CycleOf(td[i].t) = CycleOf(t)
    <2>1. CASE Enters(t, at, v)
      <3> DEFINE r == [s |-> "trader", t |-> t, side |-> book.side,
                       n |-> TraderSize(t, at, v)]
      <3>1. v \in Verdicts /\ at \in Nat /\ book.side \in Sides
        BY <2>1, HourMarketAssumption, SweeperAssumption DEF Enters
      <3>2. r \in Requests
        BY <3>1, TraderSizePositive DEF Requests, Strategies
      <3> QED BY <2>1, <3>2 DEF TraderDecision
    <2>2. CASE ~Enters(t, at, v)
      BY <2>2 DEF TraderDecision
    <2> QED BY <2>1, <2>2
  <1>4. \A s \in Sweepers : /\ Of(s) \in Seq(Requests) /\ Len(Of(s)) = Len(picks[s])
                            /\ Len(picks[s]) \in Nat /\ Len(picks[s]) <= MaxRungs[s]
                            /\ picks[s] # <<>> => Fires(s, t, at, known)
                            /\ \A i \in 1..Len(Of(s)) :
                                 Of(s)[i].s = s /\ CycleOf(Of(s)[i].t) = CycleOf(t)
    <2> SUFFICES ASSUME NEW s \in Sweepers, NEW p, p = picks[s]
                 PROVE  /\ RungDecisions(s, p) \in Seq(Requests)
                        /\ Len(RungDecisions(s, p)) = Len(p)
                        /\ Len(p) \in Nat /\ Len(p) <= MaxRungs[s]
                        /\ p # <<>> => Fires(s, t, at, known)
                        /\ \A i \in 1..Len(RungDecisions(s, p)) :
                              /\ RungDecisions(s, p)[i].s = s
                              /\ CycleOf(RungDecisions(s, p)[i].t) = CycleOf(t)
      OBVIOUS
    <2>1. p \in Picks(s, t, at, known)
      BY <1>1
    <2>2. p \in Seq(Hourly) /\ \A i \in 1..Len(p) : latest'[p[i]] \in Books
      BY <1>2, <2>1, PicksHourly DEF Inv, Shape
    <2>3. /\ Len(p) <= MaxRungs[s]
          /\ p # <<>> => Fires(s, t, at, known)
          /\ \A i \in 1..Len(p) : CycleOf(p[i]) = CycleOf(t)
      BY <2>1, PicksOfCycle
    <2>4. Len(p) \in Nat
      BY <2>2
    <2> DEFINE r(i) == [s |-> s, t |-> p[i], side |-> latest'[p[i]].side, n |-> RungSize[s]]
    <2>5. RungDecisions(s, p) = [i \in 1..Len(p) |-> r(i)]
      BY DEF RungDecisions
    <2>6. \A i \in 1..Len(p) : r(i) \in Requests /\ r(i).s = s /\ r(i).t = p[i]
      <3>1. \A i \in 1..Len(p) : p[i] \in Tickers /\ latest'[p[i]].side \in Sides
        BY <2>2, NewRungsTyped
      <3> QED BY <3>1, SweeperAssumption DEF Requests, Strategies
    <2> HIDE DEF r
    <2>7. RungDecisions(s, p) \in Seq(Requests) /\ Len(RungDecisions(s, p)) = Len(p)
      BY <2>4, <2>5, <2>6
    <2> QED BY <2>3, <2>4, <2>5, <2>6, <2>7
  <1>5. "ladder" \in Sweepers /\ "deep_itm" \in Sweepers
        /\ \A s \in Sweepers : s = "ladder" \/ s = "deep_itm"
    BY DEF Sweepers
  <1>6. pending' = td \o Of("ladder") \o Of("deep_itm")
    BY <1>1
  <1> HIDE DEF td, Of
  <1>7. \A c : /\ Cardinality(Waiting("trader", c)') <= IF c = CycleOf(t) THEN Len(td) ELSE 0
              /\ \A s \in Sweepers : Cardinality(Waiting(s, c)')
                                      <= IF c = CycleOf(t) THEN Len(picks[s]) ELSE 0
    <2> SUFFICES ASSUME NEW c
                 PROVE  /\ Cardinality(Waiting("trader", c)')
                              <= IF c = CycleOf(t) THEN Len(td) ELSE 0
                        /\ Cardinality(Waiting("ladder", c)')
                              <= IF c = CycleOf(t) THEN Len(picks["ladder"]) ELSE 0
                        /\ Cardinality(Waiting("deep_itm", c)')
                              <= IF c = CycleOf(t) THEN Len(picks["deep_itm"]) ELSE 0
      BY <1>5
    <2>1. /\ Of("ladder") \in Seq(Requests) /\ Of("deep_itm") \in Seq(Requests)
          /\ Len(Of("ladder")) = Len(picks["ladder"])
          /\ Len(Of("deep_itm")) = Len(picks["deep_itm"])
          /\ \A i \in 1..Len(Of("ladder")) : /\ Of("ladder")[i].s = "ladder"
                                             /\ CycleOf(Of("ladder")[i].t) = CycleOf(t)
          /\ \A i \in 1..Len(Of("deep_itm")) : /\ Of("deep_itm")[i].s = "deep_itm"
                                               /\ CycleOf(Of("deep_itm")[i].t) = CycleOf(t)
      BY <1>4, <1>5
    <2>2. td \in Seq(Requests)
          /\ \A i \in 1..Len(td) : td[i].s = "trader" /\ CycleOf(td[i].t) = CycleOf(t)
      BY <1>3
    <2>3. /\ Cardinality(Waiting("trader", c)') <= IF c = CycleOf(t) THEN Len(td) ELSE 0
          /\ Cardinality(Waiting("ladder", c)')
                 <= IF c = CycleOf(t) THEN Len(Of("ladder")) ELSE 0
          /\ Cardinality(Waiting("deep_itm", c)')
                 <= IF c = CycleOf(t) THEN Len(Of("deep_itm")) ELSE 0
      BY <1>6, <2>1, <2>2, QueueOfBook
    <2> QED BY <2>1, <2>3
  <1>8. \A s \in Strategies : \A c :
            /\ SentIn(s, c) \in Int /\ SentIn(s, c)' = SentIn(s, c)
            /\ SentIn(s, c) <= Owed(s, c) /\ Owed(s, c) \in Int
            /\ Cardinality(Waiting(s, c)') \in Nat
            /\ Owed(s, c)' = SentIn(s, c) + Cardinality(Waiting(s, c)')
    <2>1. \A s \in Strategies : \A c : SentIn(s, c)' = SentIn(s, c)
      BY <1>2 DEF SentIn
    <2>2. \A s \in Strategies : \A c :
              /\ SentIn(s, c) \in Int /\ SentIn(s, c) <= Owed(s, c)
              /\ Cardinality(Waiting(s, c)) \in Nat
      BY OwedTyped
    <2>3. \A s \in Strategies : \A c : Cardinality(Waiting(s, c)') \in Nat
      <3>1. Len(pending') \in Int
        BY DEF TypeOK
      <3>2. IsFiniteSet(1..Len(pending'))
        BY <3>1, FS_Interval
      <3>3. \A s, c : Waiting(s, c)' \in SUBSET (1..Len(pending'))
        BY DEF Waiting
      <3>4. \A s, c : IsFiniteSet(Waiting(s, c)')
        BY <3>2, <3>3, FS_Subset
      <3> QED BY <3>4, FS_CardinalityType
    <2>4. \A s \in Strategies : \A c : Owed(s, c) \in Int
      BY <2>2 DEF Owed
    <2> QED BY <2>1, <2>2, <2>3, <2>4 DEF Owed
  <1>9. ASSUME NEW c \in Cycles
        PROVE  Owed("trader", c)' <= IF c \in enteredCycles' THEN 1 ELSE 0
    <2>0. "trader" \in Strategies
      BY DEF Strategies
    <2>1. Owed("trader", c) <= IF c \in enteredCycles THEN 1 ELSE 0
      BY DEF Rationed
    <2>2. enteredCycles \subseteq enteredCycles'
          /\ (Enters(t, at, v) => CycleOf(t) \in enteredCycles')
      BY DEF BookEvent, TraderMarksEntry
    <2>3. CASE td = <<>>
      <3>1. Len(td) = 0
        BY <2>3
      <3>2. Cardinality(Waiting("trader", c)') <= 0
        BY <1>7, <3>1
      <3> QED BY <1>8, <2>0, <2>1, <2>2, <3>2
    <2>4. CASE c # CycleOf(t)
      <3>1. Cardinality(Waiting("trader", c)') <= 0
        BY <1>7, <2>4
      <3> QED BY <1>8, <2>0, <2>1, <2>2, <3>1
    <2>5. CASE td # <<>> /\ c = CycleOf(t)
      <3>1. Enters(t, at, v) /\ Len(td) <= 1 /\ c \notin enteredCycles
        BY <1>3, <2>5 DEF Enters, CycleFree
      <3>2. Cardinality(Waiting("trader", c)') <= Len(td)
        BY <1>7, <2>5
      <3> QED BY <1>3, <1>8, <2>0, <2>1, <2>2, <2>5, <3>1, <3>2
    <2> QED BY <2>3, <2>4, <2>5
  <1>10. ASSUME NEW c \in Cycles, NEW s \in Sweepers
         PROVE  Owed(s, c)' <= IF c \in fired'[s] THEN MaxRungs[s] ELSE 0
    <2>0. s \in Strategies /\ MaxRungs[s] \in Nat
      BY SweeperAssumption DEF Strategies
    <2>1. Owed(s, c) <= IF c \in fired[s] THEN MaxRungs[s] ELSE 0
      BY DEF Rationed
    <2>2. fired[s] \subseteq fired'[s] /\ (Fires(s, t, at, known) => CycleOf(t) \in fired'[s])
      BY <1>1 DEF SweepersFire, Fires
    <2>3. CASE picks[s] = <<>> \/ c # CycleOf(t)
      <3>1. Cardinality(Waiting(s, c)') <= 0
        BY <1>7, <2>3
      <3> QED BY <1>8, <2>0, <2>1, <2>2, <3>1
    <2>4. CASE picks[s] # <<>> /\ c = CycleOf(t)
      <3>1. Fires(s, t, at, known) /\ Len(picks[s]) <= MaxRungs[s] /\ Len(picks[s]) \in Nat
        BY <1>4, <2>4
      <3>2. c \notin fired[s] /\ c \in fired'[s]
        BY <2>2, <2>4, <3>1 DEF Fires, Triggers
      <3>3. Cardinality(Waiting(s, c)') <= Len(picks[s])
        BY <1>7, <2>4
      <3> QED BY <1>8, <2>0, <2>1, <3>1, <3>2, <3>3
    <2> QED BY <2>3, <2>4
  <1> QED BY <1>9, <1>10 DEF Rationed

\* The head of the queue leaves; the other decisions move up.
LEMMA WaitingTail ==
    ASSUME TypeOK, pending # <<>>, pending' = Tail(pending), NEW s \in Strategies, NEW c
    PROVE  Cardinality(Waiting(s, c)') =
               IF Head(pending).s = s /\ CycleOf(Head(pending).t) = c
               THEN Cardinality(Waiting(s, c)) - 1 ELSE Cardinality(Waiting(s, c))
  <1>1. /\ pending \in Seq(Requests) /\ Len(pending) \in Nat /\ Len(pending) > 0
        /\ Len(pending') = Len(pending) - 1 /\ Head(pending) = pending[1]
        /\ \A i \in 1..Len(pending') : pending'[i] = pending[i + 1]
    BY DEF TypeOK
  <1> DEFINE W == Waiting(s, c) \ {1}
             f == [i \in W |-> i - 1]
  <1>2. IsFiniteSet(W) /\ IsFiniteSet(Waiting(s, c))
        /\ Cardinality(W) = IF 1 \in Waiting(s, c) THEN Cardinality(Waiting(s, c)) - 1
                            ELSE Cardinality(Waiting(s, c))
    BY OwedTyped, FS_RemoveElement
  <1>3. 1 \in Waiting(s, c) <=> Head(pending).s = s /\ CycleOf(Head(pending).t) = c
    BY <1>1 DEF Waiting
  <1>4. \A j : j \in Waiting(s, c)' <=> j \in Nat /\ j + 1 \in W
    BY <1>1 DEF Waiting
  <1>5. f \in Bijection(W, Waiting(s, c)')
    <2>1. \A i \in W : i \in Nat /\ i > 1 /\ f[i] = i - 1 /\ f[i] \in Nat /\ f[i] + 1 = i
      BY <1>1 DEF Waiting
    <2>2. \A i \in W : f[i] \in Waiting(s, c)'
      BY <1>4, <2>1
    <2>3. \A j \in Waiting(s, c)' : j + 1 \in W /\ f[j + 1] = j
      BY <1>4
    <2>4. f = [i \in W |-> f[i]]
      OBVIOUS
    <2> HIDE DEF f, W
    <2>5. f \in [W -> Waiting(s, c)']
      BY <2>2, <2>4
    <2>6. \A a, b \in W : f[a] = f[b] => a = b
      BY <2>1
    <2>7. \A j \in Waiting(s, c)' : \E i \in W : f[i] = j
      BY <2>3
    <2> QED BY <2>5, <2>6, <2>7 DEF Bijection, Injection, Surjection, IsInjective
  <1>6. Cardinality(Waiting(s, c)') = Cardinality(W)
    BY <1>2, <1>5, FS_Bijection DEF ExistsBijection
  <1> QED BY <1>2, <1>3, <1>6

LEMMA RationedVeto == TypeOK /\ TypeOK' /\ Rationed /\ Veto => Rationed'
  <1> SUFFICES ASSUME TypeOK, TypeOK', Rationed, Veto PROVE Rationed'
    OBVIOUS
  <1>1. /\ pending # <<>> /\ pending' = Tail(pending)
        /\ sent' = sent /\ enteredCycles' = enteredCycles /\ fired' = fired
    BY DEF Veto, Serving, strategyVars, traderVars, sweepVars, histVars
  <1>2. \A s \in Strategies : \A c : Owed(s, c)' <= Owed(s, c)
    <2> SUFFICES ASSUME NEW s \in Strategies, NEW c PROVE Owed(s, c)' <= Owed(s, c)
      OBVIOUS
    <2>1. Cardinality(Waiting(s, c)') <= Cardinality(Waiting(s, c))
          /\ Cardinality(Waiting(s, c)') \in Int
      BY <1>1, WaitingTail, OwedTyped
    <2>2. SentIn(s, c)' = SentIn(s, c) /\ SentIn(s, c) \in Int
      BY <1>1, OwedTyped DEF SentIn
    <2>3. Owed(s, c)' = SentIn(s, c) + Cardinality(Waiting(s, c)')
      BY <2>2 DEF Owed
    <2> QED BY <2>1, <2>2, <2>3, OwedTyped DEF Owed
  <1>3. \A s \in Strategies : \A c : Owed(s, c) \in Int /\ Owed(s, c)' \in Int
    <2> SUFFICES ASSUME NEW s \in Strategies, NEW c
                 PROVE  Owed(s, c) \in Int /\ Owed(s, c)' \in Int
      OBVIOUS
    <2>1. SentIn(s, c) \in Int /\ Cardinality(Waiting(s, c)) \in Int
      BY OwedTyped
    <2>2. Cardinality(Waiting(s, c)') \in Int /\ SentIn(s, c)' = SentIn(s, c)
      BY <1>1, <2>1, WaitingTail DEF SentIn
    <2> QED BY <2>1, <2>2 DEF Owed
  <1>4. \A s \in Sweepers : MaxRungs[s] \in Nat /\ s \in Strategies
    BY SweeperAssumption DEF Strategies
  <1>5. ASSUME NEW c \in Cycles
        PROVE  Owed("trader", c)' <= IF c \in enteredCycles' THEN 1 ELSE 0
    <2>1. Owed("trader", c) <= IF c \in enteredCycles THEN 1 ELSE 0
      BY DEF Rationed
    <2> QED BY <1>1, <1>2, <1>3, <2>1 DEF Strategies
  <1>6. ASSUME NEW c \in Cycles, NEW s \in Sweepers
        PROVE  Owed(s, c)' <= IF c \in fired'[s] THEN MaxRungs[s] ELSE 0
    <2>1. Owed(s, c) <= IF c \in fired[s] THEN MaxRungs[s] ELSE 0
      BY DEF Rationed
    <2> QED BY <1>1, <1>2, <1>3, <1>4, <2>1
  <1> QED BY <1>5, <1>6 DEF Rationed

\* A decision that is sent is owed no more.
LEMMA RationedSubmit == TypeOK /\ TypeOK' /\ Rationed /\ Submit => Rationed'
  <1> SUFFICES ASSUME TypeOK, TypeOK', Rationed, Submit PROVE Rationed'
    OBVIOUS
  <1> DEFINE d == Head(pending)
  <1>1. /\ pending # <<>> /\ pending' = Tail(pending)
        /\ sent' = [sent EXCEPT ![d.s][d.t] = @ + 1]
        /\ enteredCycles' = enteredCycles /\ fired' = fired
    BY DEF Submit, Serving, strategyVars, traderVars, sweepVars
  <1>2. d.s \in Strategies /\ d.t \in Tickers
    <2>1. d \in Requests
      BY <1>1 DEF TypeOK
    <2> QED BY <2>1 DEF Requests
  <1>3. sent \in [Strategies -> [Tickers -> Nat]]
    BY DEF TypeOK
  <1>4. \A s \in Strategies : \A c : Owed(s, c)' = Owed(s, c)
    <2> SUFFICES ASSUME NEW s \in Strategies, NEW c PROVE Owed(s, c)' = Owed(s, c)
      OBVIOUS
    <2>1. /\ SentIn(s, c) \in Int /\ Cardinality(Waiting(s, c)) \in Int
      BY OwedTyped
    <2>2. Cardinality(Waiting(s, c)') = IF d.s = s /\ CycleOf(d.t) = c
                                       THEN Cardinality(Waiting(s, c)) - 1
                                       ELSE Cardinality(Waiting(s, c))
      BY <1>1, WaitingTail
    <2> HIDE DEF d
    <2>3. SentIn(s, c)' = IF d.s = s /\ CycleOf(d.t) = c THEN SentIn(s, c) + 1
                         ELSE SentIn(s, c)
      <3>1. CASE d.s # s
        BY <1>1, <1>3, <3>1 DEF SentIn
      <3>2. CASE d.s = s
        <4> DEFINE f == sent[s]
                   g == sent'[s]
        <4>1. /\ f \in [Tickers -> Int] /\ g \in [Tickers -> Int]
              /\ g[d.t] = f[d.t] + 1 /\ \A x \in Tickers \ {d.t} : g[x] = f[x]
          BY <1>1, <1>2, <1>3, <3>2
        <4>2. d.t \in OfCycle(c) <=> CycleOf(d.t) = c
          BY <1>2 DEF OfCycle
        <4>3. IsFiniteSet(OfCycle(c)) /\ OfCycle(c) \subseteq Tickers /\ 1 \in Int
          BY CycleFinite
        <4> HIDE DEF f, g
        <4>4. SumFunctionOnSet(g, OfCycle(c)) =
                IF d.t \in OfCycle(c) THEN SumFunctionOnSet(f, OfCycle(c)) + 1
                ELSE SumFunctionOnSet(f, OfCycle(c))
          BY <1>2, <4>1, <4>3, SumRaised
        <4>5. SentIn(s, c)' = SumFunctionOnSet(g, OfCycle(c))
          BY DEF SentIn, g
        <4>6. SentIn(s, c) = SumFunctionOnSet(f, OfCycle(c))
          BY DEF SentIn, f
        <4> QED BY <3>2, <4>1, <4>2, <4>4, <4>5, <4>6
      <3> QED BY <3>1, <3>2
    <2>4. Owed(s, c)' = SentIn(s, c)' + Cardinality(Waiting(s, c)')
      BY DEF Owed
    <2> QED BY <2>1, <2>2, <2>3, <2>4 DEF Owed
  <1>5. \A s \in Sweepers : s \in Strategies
    BY DEF Strategies
  <1> QED BY <1>1, <1>4, <1>5 DEF Rationed, Strategies

LEMMA RationedStep ==
    TypeOK /\ TypeOK' /\ Inv /\ Rationed /\ [Next]_vars => Rationed'
  <1> SUFFICES ASSUME TypeOK, TypeOK', Inv, Rationed, [Next]_vars PROVE Rationed'
    OBVIOUS
  <1> USE DEF strategyVars, registry, traderVars, sweepVars, tallyVars, loopVars,
              exchangeVars, histVars
  <1>1. CASE Process
    <2>1. ASSUME NEW found, Boot(found) PROVE Rationed'
      BY <2>1, RationedStays DEF Boot
    <2>2. ASSUME NEW k, Die(k) PROVE Rationed'
      BY <2>2, RationedNothing DEF Die, NoProcess
    <2>3. ASSUME NEW found, NEW extended, Discover(found, extended) PROVE Rationed'
      BY <2>3, RationedStays DEF Discover
    <2> QED BY <1>1, <2>1, <2>2, <2>3 DEF Process
  <1>2. CASE Events
    <2>1. ASSUME NEW t, LifecycleRegister(t) PROVE Rationed'
      BY <2>1, RationedStays DEF LifecycleRegister
    <2>2. ASSUME NEW t, NEW at, NEW stamp, Settlement(t, at, stamp) PROVE Rationed'
      BY <2>2, RationedStays DEF Settlement
    <2> QED BY <1>2, <2>1, <2>2, RationedBookEvent DEF Events
  <1>3. CASE Orders
    <2>1. ASSUME NEW k, OrderEnds(k) PROVE Rationed'
      BY <2>1, RationedStays DEF OrderEnds
    <2> QED BY <1>3, <2>1, RationedVeto, RationedSubmit DEF Orders
  <1>4. CASE Exchange \/ UNCHANGED vars
    <2>1. UNCHANGED <<pending, sent, enteredCycles, fired>>
      BY <1>4 DEF Exchange, Tick, Determine, vars
    <2> QED BY <2>1, RationedStays
  <1> QED BY <1>1, <1>2, <1>3, <1>4 DEF Next

\* Decisions queued and orders sent together stay within what a cycle gets.
THEOREM RationedAlways == Spec => []Rationed
  <1>1. Init => Rationed
    BY RationedInit
  <1>2. TypeOK /\ TypeOK' /\ Inv /\ Rationed /\ [Next]_vars => Rationed'
    BY RationedStep
  <1> QED BY <1>1, <1>2, TypeCorrect, InvAlways, PTL DEF Spec

\* "Single-strike selector", and one sweep a cycle: a process never sends more
\* than one trader order and max_rungs orders of each sweeper for a crypto and
\* a cycle, whatever is queued, vetoed, sent and settled in between.
THEOREM OrdersStayBounded == Spec => []OrdersBounded
  <1>1. TypeOK /\ Rationed => OrdersBounded
    <2> SUFFICES ASSUME TypeOK, Rationed, NEW c \in Cycles
                 PROVE  /\ SentIn("trader", c) <= 1
                        /\ \A s \in Sweepers : SentIn(s, c) <= MaxRungs[s]
      BY DEF OrdersBounded
    <2>1. \A s \in Strategies : /\ SentIn(s, c) \in Int /\ Owed(s, c) \in Int
                               /\ SentIn(s, c) <= Owed(s, c)
      BY OwedTyped DEF Owed
    <2>2. \A s \in Sweepers : MaxRungs[s] \in Nat /\ s \in Strategies
      BY SweeperAssumption DEF Strategies
    <2>3. Owed("trader", c) <= 1 /\ "trader" \in Strategies
      BY <2>1 DEF Rationed, Strategies
    <2>4. \A s \in Sweepers : Owed(s, c) <= MaxRungs[s]
      BY <2>1, <2>2 DEF Rationed
    <2> QED BY <2>1, <2>2, <2>3, <2>4
  <1> QED BY <1>1, TypeCorrect, RationedAlways, PTL
=============================================================================
