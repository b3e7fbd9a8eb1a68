-------------------------- MODULE DailyLossCapProofs --------------------------
(***************************************************************************)
(* Proofs about the daily loss cap, for any markets, costs and cap, any    *)
(* number of days and of processes.  That a bound day is not reopened      *)
(* needs only that the same log gives the same sum; that a complete log is *)
(* exact needs where each contract of a position is told, and sums.        *)
(***************************************************************************)
EXTENDS DailyLossCap, SequenceTheorems, FiniteSetTheorems, TLAPS

Records == [kind : {"fill"}, side : Outcomes, cost : Nat, day : Nat]
           \cup [kind : {"settlement"}, value : Outcomes, day : Nat]
Logs == [Markets -> Seq(Records)]
FillMessages == [t : Markets, side : Outcomes, cost : Nat]
Announcements == [t : Markets, value : Outcomes]
Results == {Open} \cup [outcome : Outcomes, day : Nat]
Positions == {NoPosition} \cup [side : Outcomes, costs : Seq(Nat), day : Nat]
Orders == [t : Markets, side : Outcomes, unread : BOOLEAN]

Shape ==
    /\ today \in Nat /\ unread \in BOOLEAN
    /\ log \in Logs
    /\ pending \in Seq(FillMessages)
    /\ inbox \in Seq(Announcements)
    /\ result \in [Markets -> Results]
    /\ position \in [Markets -> Positions]
    /\ wire \in SUBSET Orders

\* The log of the moment the counter was last bound: its sum was at the cap,
\* and it has only grown since.
Remembered ==
    boundAt # NotBound =>
        /\ boundAt \in [day : 0..today, log : Logs, wire : SUBSET Orders]
        /\ Reconcile(boundAt.log, boundAt.day) <= -Cap
        /\ \A t \in Markets : Len(boundAt.log[t]) <= Len(log[t])

\* Nothing was logged since the counter was bound.
Unchanged == boundAt # NotBound /\ boundAt.day = today /\ boundAt.log = log

\* A market has one order at most on the wire, and none once it is held.
OneOrder ==
    /\ \A o \in wire : o.t \notin Held
    /\ \A o, p \in wire : o.t = p.t => o = p

\* No order was sent since the counter was bound but by a process that could
\* not read the log.
Covered == Unchanged => \A o \in wire : o.unread \/ o \in boundAt.wire

CapInv ==
    /\ Shape
    /\ Remembered
    /\ OneOrder
    /\ Covered
    /\ Unchanged /\ ~unread => ~UnderCap

LEMMA CapInit == Init => CapInv
  BY DEF Init, CapInv, Shape, Remembered, OneOrder, Covered, Unchanged, Logs, Results,
         Positions

\* Reading the log keeps the invariant: a sum that was at the cap still is.
LEMMA TakeKeeps ==
  ASSUME CapInv, Take(Reconcile(log, today)),
         UNCHANGED <<today, log, pending, inbox, result, position, wire>>
  PROVE  CapInv'
  <1> DEFINE cents == Reconcile(log, today)
  <1>0. /\ counter' = cents /\ unread' = FALSE
        /\ boundAt' = IF cents <= -Cap THEN [day |-> today, log |-> log, wire |-> wire]
                      ELSE boundAt
    BY DEF Take
  <1>1. Reconcile(log, today) = cents
    OBVIOUS
  <1> HIDE DEF cents
  <1>2. Shape' /\ OneOrder'
    BY <1>0 DEF CapInv, Shape, OneOrder, Held
  <1>3. \A t \in Markets : Len(log[t]) \in Nat
    BY LenProperties DEF CapInv, Shape, Logs
  <1>4. CASE cents <= -Cap
    <2>1. boundAt' = [day |-> today, log |-> log, wire |-> wire]
      BY <1>0, <1>4
    <2>2. boundAt' \in [day : 0..today, log : Logs, wire : SUBSET Orders]
      BY <2>1 DEF CapInv, Shape
    <2>3. Remembered'
      BY <1>1, <1>3, <1>4, <2>1, <2>2 DEF Remembered
    <2>4. Covered'
      BY <2>1 DEF Covered
    <2> QED BY <1>0, <1>2, <1>4, <2>3, <2>4 DEF CapInv, UnderCap
  <1>5. CASE ~(cents <= -Cap)
    <2>1. boundAt' = boundAt
      BY <1>0, <1>5
    <2>2. Remembered'
      BY <2>1 DEF CapInv, Remembered
    <2>3. ~Unchanged'
      BY <1>1, <1>5, <2>1 DEF CapInv, Remembered, Unchanged
    <2> QED BY <1>2, <2>2, <2>3 DEF CapInv, Covered
  <1> QED BY <1>4, <1>5

\* A record more, and the log is no longer the one that was bound.
LEMMA LogKeeps ==
  ASSUME CapInv, Shape', NEW t \in Markets, NEW rec,
         log' = [log EXCEPT ![t] = Append(@, rec)],
         UNCHANGED <<today, counter, boundAt, unread, position, wire>>
  PROVE  CapInv'
  <1>1. \A u \in Markets : Len(log[u]) \in Nat
    BY LenProperties DEF CapInv, Shape, Logs
  <1>2. Len(log'[t]) = Len(log[t]) + 1 /\ \A u \in Markets \ {t} : log'[u] = log[u]
    BY DEF CapInv, Shape, Logs
  <1>3. CASE boundAt = NotBound
    BY <1>3 DEF CapInv, Remembered, Unchanged, OneOrder, Held, Covered
  <1>4. CASE boundAt # NotBound
    <2>1. \A u \in Markets : Len(boundAt.log[u]) \in Nat /\ Len(boundAt.log[u]) <= Len(log[u])
      BY <1>4, LenProperties DEF CapInv, Remembered, Logs
    <2>2. \A u \in Markets : Len(boundAt.log[u]) <= Len(log'[u])
      BY <1>1, <1>2, <2>1
    <2>3. Len(boundAt.log[t]) # Len(log'[t])
      BY <1>1, <1>2, <2>1
    <2>4. Remembered'
      BY <2>2 DEF CapInv, Remembered
    <2>5. boundAt.log # log'
      BY <2>3, Zenon
    <2> QED BY <2>4, <2>5 DEF CapInv, Unchanged, OneOrder, Held, Covered
  <1> QED BY <1>3, <1>4

LEMMA CapStep == CapInv /\ [Next]_vars => CapInv'
  <1> SUFFICES ASSUME CapInv, [Next]_vars PROVE CapInv'
    OBVIOUS
  <1> USE DEF feedVars, fillVars, exchangeVars, histVars
  <1>1. ASSUME NEW readable \in BOOLEAN, Boot(readable) PROVE CapInv'
    <2>1. CASE readable
      BY <1>1, <2>1, TakeKeeps DEF Boot
    <2>2. CASE ~readable
      BY <1>1, <2>2 DEF Boot, CapInv, Shape, Remembered, OneOrder, Held, Covered, Unchanged
    <2> QED BY <2>1, <2>2
  <1>2. CASE Crash
    BY <1>2 DEF Crash, CapInv, Shape, Remembered, OneOrder, Held, Covered, Unchanged
  <1>3. CASE Refresh
    BY <1>3, TakeKeeps DEF Refresh
  \* The connections and the exchange change what may be logged.
  <1>4. ASSUME Shape', OneOrder', wire' \subseteq wire,
               UNCHANGED <<today, counter, log, unread, boundAt>>
        PROVE  CapInv'
    BY <1>4 DEF CapInv, Remembered, Unchanged, Covered, UnderCap
  <1>5. ASSUME NEW t \in Markets, NEW side \in Outcomes, Enter(t, side) PROVE CapInv'
    <2> DEFINE order == [t |-> t, side |-> side, unread |-> unread]
    <2>1. /\ UnderCap /\ t \notin Held /\ \A o \in wire : o.t # t
          /\ wire' = wire \cup {order}
          /\ UNCHANGED <<today, counter, pending, inbox, log, result, position, unread,
                         boundAt>>
      BY <1>5 DEF Enter
    <2>2. order \in Orders /\ order.t = t /\ order.unread = unread
      BY DEF CapInv, Shape, Orders
    <2> HIDE DEF order
    <2>3. Shape'
      BY <2>1, <2>2 DEF CapInv, Shape
    <2>4. OneOrder'
      BY <2>1, <2>2 DEF CapInv, OneOrder, Held
    <2>5. Remembered' /\ Unchanged' = Unchanged /\ UnderCap' = UnderCap
      BY <2>1 DEF CapInv, Remembered, Unchanged, UnderCap
    <2>6. Covered'
      BY <2>1, <2>2, <2>5 DEF CapInv, Covered
    <2> QED BY <2>1, <2>3, <2>4, <2>5, <2>6 DEF CapInv
  <1>6. ASSUME NEW o \in wire, NEW costs \in CostLists, Match(o, costs) PROVE CapInv'
    <2> DEFINE messages == [i \in 1..Len(costs) |->
                               [t |-> o.t, side |-> o.side, cost |-> costs[i]]]
               bought == [side |-> o.side, costs |-> costs, day |-> today]
    <2>1. costs \in Seq(Nat) /\ o.t \in Markets /\ o.side \in Outcomes /\ today \in Nat
      BY CapAssumption DEF CapInv, Shape, Orders
    <2>2. messages \in Seq(FillMessages) /\ bought \in Positions
      BY <2>1 DEF FillMessages, Positions
    <2>3. /\ pending' = IF fillUp THEN pending \o messages ELSE pending
          /\ wire' = wire \ {o} /\ position' = [position EXCEPT ![o.t] = bought]
          /\ UNCHANGED <<today, counter, inbox, log, result, unread, boundAt>>
      BY <1>6 DEF Match
    <2> HIDE DEF messages, bought
    <2>4. pending' \in Seq(FillMessages)
      BY <2>2, <2>3 DEF CapInv, Shape
    <2>5. Held' \subseteq Held \cup {o.t}
      BY <2>3 DEF CapInv, Shape, Held
    <2>6. OneOrder'
      BY <2>3, <2>5 DEF CapInv, OneOrder
    <2>7. Shape'
      BY <2>2, <2>3, <2>4 DEF CapInv, Shape
    <2> QED BY <1>4, <2>3, <2>6, <2>7
  <1>7. ASSUME NEW o \in wire, Refuse(o) PROVE CapInv'
    <2>1. wire' = wire \ {o}
          /\ UNCHANGED <<today, counter, pending, inbox, log, result, position, unread,
                         boundAt>>
      BY <1>7 DEF Refuse
    <2>2. Shape' /\ OneOrder'
      BY <2>1 DEF CapInv, Shape, OneOrder, Held
    <2> QED BY <1>4, <2>1, <2>2
  <1>8. CASE LogFill
    <2> DEFINE m == Head(pending)
               rec == [kind |-> "fill", side |-> m.side, cost |-> m.cost, day |-> today]
    <2>1. /\ pending # <<>> /\ pending' = Tail(pending)
          /\ log' = [log EXCEPT ![m.t] = Append(@, rec)]
          /\ UNCHANGED <<today, counter, inbox, result, unread, boundAt, position, wire>>
      BY <1>8 DEF LogFill
    <2>2. m \in FillMessages /\ pending' \in Seq(FillMessages)
      BY <2>1 DEF CapInv, Shape
    <2>3. rec \in Records /\ m.t \in Markets
      BY <2>2 DEF CapInv, Shape, FillMessages, Records
    <2> HIDE DEF m, rec
    <2>4. log' \in Logs
      BY <2>1, <2>3 DEF CapInv, Shape, Logs
    <2> QED BY <2>1, <2>2, <2>3, <2>4, LogKeeps DEF CapInv, Shape
  <1>9. CASE RouteSettlement
    <2> DEFINE m == Head(inbox)
               rec == [kind |-> "settlement", value |-> m.value, day |-> today]
    <2>1. /\ inbox # <<>> /\ inbox' = Tail(inbox)
          /\ log' = [log EXCEPT ![m.t] = Append(@, rec)]
          /\ UNCHANGED <<today, counter, pending, result, unread, boundAt, position, wire>>
      BY <1>9 DEF RouteSettlement
    <2>2. m \in Announcements /\ inbox' \in Seq(Announcements)
      BY <2>1 DEF CapInv, Shape
    <2>3. rec \in Records /\ m.t \in Markets
      BY <2>2 DEF CapInv, Shape, Announcements, Records
    <2> HIDE DEF m, rec
    <2>4. log' \in Logs
      BY <2>1, <2>3 DEF CapInv, Shape, Logs
    <2> QED BY <2>1, <2>2, <2>3, <2>4, LogKeeps DEF CapInv, Shape
  <1>10. CASE FeedConnect \/ FeedDrop \/ FillConnect
    BY <1>4, <1>10 DEF FeedConnect, FeedDrop, FillConnect, CapInv, Shape, OneOrder, Held
  <1>11. CASE FillDrop
    BY <1>4, <1>11 DEF FillDrop, CapInv, Shape, OneOrder, Held
  <1>12. ASSUME NEW t \in Markets, NEW outcome \in Outcomes, Determine(t, outcome)
         PROVE  CapInv'
    <2>1. result' \in [Markets -> Results]
      BY <1>12 DEF Determine, CapInv, Shape, Results
    <2> QED BY <1>4, <1>12, <2>1 DEF Determine, CapInv, Shape, OneOrder, Held
  <1>13. ASSUME NEW t \in Markets, NEW given \in BOOLEAN, Announce(t, given) PROVE CapInv'
    <2> DEFINE m == [t |-> t, value |-> SettleValue(t, given)]
    <2>1. /\ result[t] # Open
          /\ inbox' = IF feedUp THEN Append(inbox, m) ELSE inbox
          /\ UNCHANGED <<today, counter, log, pending, result, unread, boundAt, position,
                         wire>>
      BY <1>13 DEF Announce
    <2>2. m \in Announcements
      BY <2>1 DEF CapInv, Shape, Results, SettleValue, Announcements, Outcomes
    <2> HIDE DEF m
    <2>3. inbox' \in Seq(Announcements)
      BY <2>1, <2>2 DEF CapInv, Shape
    <2> QED BY <1>4, <2>1, <2>3 DEF CapInv, Shape, OneOrder, Held
  <1>14. CASE Midnight
    <2>1. today' = today + 1 /\ today \in Nat
          /\ UNCHANGED <<counter, log, pending, inbox, result, unread, boundAt, position,
                         wire>>
      BY <1>14 DEF Midnight, CapInv, Shape
    <2>2. Shape' /\ OneOrder'
      BY <2>1 DEF CapInv, Shape, OneOrder, Held
    <2>4. Remembered'
      <3>1. 0..today \subseteq 0..today + 1
        BY <2>1
      <3> QED BY <2>1, <3>1 DEF CapInv, Remembered
    <2>3. ~Unchanged'
      BY <2>1 DEF CapInv, Remembered, Unchanged
    <2> QED BY <2>2, <2>3, <2>4 DEF CapInv, Covered
  <1>15. CASE UNCHANGED vars
    BY <1>4, <1>15 DEF vars, CapInv, Shape, OneOrder, Held
  <1> QED BY <1>1, <1>2, <1>3, <1>5, <1>8, <1>9, <1>10, <1>11, <1>12, <1>13, <1>14, <1>15,
             <1>6, <1>7
          DEF Next

\* Only a match changes what is held.
LEMMA BoughtByOrder ==
  ASSUME CapInv, [Next]_vars, NEW t \in Held' \ Held
  PROVE  \E o \in wire : o.t = t
  <1>1. position' # position
    BY DEF Held
  <1>2. \E o \in wire, costs \in CostLists : Match(o, costs)
    BY <1>1 DEF Next, Boot, Crash, Refresh, Enter, Refuse, LogFill, RouteSettlement,
             FeedConnect, FeedDrop, FillConnect, FillDrop, Determine, Announce,
             Midnight, vars, exchangeVars
  <1>3. PICK o \in wire, costs \in CostLists : Match(o, costs)
    BY <1>2
  <1>4. \A u \in Markets \ {o.t} : position'[u] = position[u]
    BY <1>3 DEF Match, CapInv, Shape
  <1> QED BY <1>4 DEF Held

\* Once the sum of the log was at the cap, no order is sent that day until
\* something more is logged, whatever process runs: a restart reads the same
\* log and is bound by it, if it could read it at all.  What is bought until
\* then was on the wire when the counter was bound.
THEOREM BoundStays == Spec => BoundHolds
  <1>1. CapInv /\ [Next]_vars =>
            [\A t \in Held' \ Held : \E o \in wire :
                /\ o.t = t
                /\ \/ o.unread
                   \/ boundAt = NotBound
                   \/ boundAt.day # today
                   \/ boundAt.log # log
                   \/ o \in boundAt.wire]_vars
    BY BoughtByOrder DEF CapInv, Covered, Unchanged
  <1> QED BY <1>1, CapInit, CapStep, PTL DEF Spec, BoundHolds
-----------------------------------------------------------------------------
(* Sums over finite sets.  SumFunctionOnSet folds over a set with CHOOSE: it *)
(* is read here as a table of the sums over all subsets, and what holds of   *)
(* every sum is shown by a smallest set for which it would not.              *)

\* A nonempty family of subsets of a finite set has a smallest member.
LEMMA SmallestSubset ==
    ASSUME NEW S, IsFiniteSet(S), NEW F \in SUBSET SUBSET S, F # {}
    PROVE  \E T \in F : \A U \in F : U \subseteq T => U = T
  <1> DEFINE R == StrictSubsetOrdering(S)
  <1>1. IsWellFoundedOn(R, FiniteSubsetsOf(S)) /\ F \subseteq FiniteSubsetsOf(S)
    BY FS_StrictSubsetOrderingWellFounded, FS_FiniteSubsetsOfFinite
  <1> HIDE DEF R
  <1>2. \E T \in F : \A U \in F : <<U, T>> \notin R
    BY <1>1, WFMin, Zenon
  <1> QED BY <1>2 DEF R, StrictSubsetOrdering

Any(T) == CHOOSE x \in T : TRUE

\* g tabulates the sums of f over the subsets of S.
Tabulates(g, f, S) ==
    g = [T \in SUBSET S |-> IF T = {} THEN 0 ELSE f[Any(T)] + g[T \ {Any(T)}]]

LEMMA SumIsTabulated ==
    ASSUME NEW S, NEW f
    PROVE  SumFunctionOnSet(f, S) = (CHOOSE g : Tabulates(g, f, S))[S]
  BY DEF SumFunctionOnSet, FoldFunctionOnSet, MapThenFoldSet, Tabulates, Any

LEMMA TablesAgree ==
    ASSUME NEW A, NEW B, NEW f, NEW g, NEW h, IsFiniteSet(A),
           Tabulates(g, f, A), Tabulates(h, f, B)
    PROVE  \A T \in SUBSET (A \cap B) : g[T] = h[T]
  <1> DEFINE F == {T \in SUBSET (A \cap B) : g[T] # h[T]}
  <1> SUFFICES ASSUME F # {} PROVE FALSE
    OBVIOUS
  <1>1. IsFiniteSet(A \cap B)
    BY FS_Intersection
  <1>2. F \in SUBSET SUBSET (A \cap B) /\ F # {}
    OBVIOUS
  <1> HIDE DEF F
  <1>3. PICK T \in F : \A U \in F : U \subseteq T => U = T
    BY <1>1, <1>2, SmallestSubset
  <1> USE DEF F
  <1>4. T # {}
    BY DEF Tabulates
  <1>5. Any(T) \in T
    BY <1>4 DEF Any
  <1>6. g[T \ {Any(T)}] = h[T \ {Any(T)}]
    BY <1>3, <1>5
  <1> QED BY <1>4, <1>6 DEF Tabulates

LEMMA TableExists ==
    ASSUME NEW S, IsFiniteSet(S), NEW f
    PROVE  \E g : Tabulates(g, f, S)
  <1> DEFINE F == {T \in SUBSET S : ~ \E g : Tabulates(g, f, T)}
  <1> SUFFICES ASSUME F # {} PROVE FALSE
    OBVIOUS
  <1>0. F \in SUBSET SUBSET S /\ F # {}
    OBVIOUS
  <1> HIDE DEF F
  <1>1. PICK T \in F : \A U \in F : U \subseteq T => U = T
    BY <1>0, SmallestSubset
  <1> USE DEF F
  <1> DEFINE h(U) == CHOOSE g : Tabulates(g, f, U)
  <1>2. ASSUME NEW U \in SUBSET T, U # T PROVE Tabulates(h(U), f, U)
    BY <1>1, <1>2
  <1> DEFINE v(U) == IF U = {} THEN 0 ELSE f[Any(U)] + h(U \ {Any(U)})[U \ {Any(U)}]
             k == [U \in SUBSET T |-> v(U)]
  <1>3. ASSUME NEW U \in SUBSET T, U # {} PROVE k[U \ {Any(U)}] = h(U \ {Any(U)})[U \ {Any(U)}]
    <2> DEFINE V == U \ {Any(U)}
    <2>1. Any(U) \in U
      BY <1>3 DEF Any
    <2>2. V \in SUBSET T /\ V # T
      BY <2>1
    <2>3. Tabulates(h(V), f, V)
      BY <1>2, <2>2
    <2> HIDE DEF V, h
    <2>4. h(V)[V] = IF V = {} THEN 0 ELSE f[Any(V)] + h(V)[V \ {Any(V)}]
      BY <2>3 DEF Tabulates
    <2>5. CASE V = {}
      BY <2>2, <2>4, <2>5 DEF V
    <2>6. CASE V # {}
      <3> DEFINE W == V \ {Any(V)}
      <3>1. W \in SUBSET T /\ W # T /\ W \in SUBSET (W \cap V)
        BY <2>2, <2>6 DEF Any
      <3>2. Tabulates(h(W), f, W)
        BY <1>2, <3>1
      <3>3. IsFiniteSet(W)
        BY <3>1, FS_Subset
      <3> HIDE DEF W
      <3>4. h(W)[W] = h(V)[W]
        BY <2>3, <3>1, <3>2, <3>3, TablesAgree
      <3> QED BY <2>2, <2>4, <2>6, <3>4 DEF V, W
    <2> QED BY <2>5, <2>6 DEF V
  <1> HIDE DEF h
  <1>4. Tabulates(k, f, T)
    <2>1. k = [U \in SUBSET T |-> IF U = {} THEN 0 ELSE f[Any(U)] + k[U \ {Any(U)}]]
      BY <1>3
    <2> HIDE DEF k
    <2> QED BY <2>1 DEF Tabulates
  <1> QED BY <1>4

\* A sum over a nonempty set is one of its terms and the sum of the others.
LEMMA SumUnfolds ==
    ASSUME NEW S, IsFiniteSet(S), NEW f
    PROVE  SumFunctionOnSet(f, S) =
               IF S = {} THEN 0
               ELSE f[Any(S)] + SumFunctionOnSet(f, S \ {Any(S)})
  <1> DEFINE G(T) == CHOOSE g : Tabulates(g, f, T)
             R == S \ {Any(S)}
  <1>1. IsFiniteSet(R) /\ R \subseteq S
    BY FS_Subset
  <1>2. Tabulates(G(S), f, S) /\ Tabulates(G(R), f, R)
    BY <1>1, TableExists
  <1>3. SumFunctionOnSet(f, S) = G(S)[S] /\ SumFunctionOnSet(f, R) = G(R)[R]
    BY SumIsTabulated
  <1> HIDE DEF G
  <1>4. G(R)[R] = G(S)[R]
    <2>1. R \in SUBSET (R \cap S)
      BY <1>1
    <2> HIDE DEF R
    <2> QED BY <1>1, <1>2, <2>1, TablesAgree
  <1>5. G(S)[S] = IF S = {} THEN 0 ELSE f[Any(S)] + G(S)[R]
    BY <1>2 DEF Tabulates
  <1> QED BY <1>3, <1>4, <1>5

LEMMA SumsOfInts ==
    ASSUME NEW S, IsFiniteSet(S), NEW f, \A x \in S : f[x] \in Int
    PROVE  SumFunctionOnSet(f, S) \in Int
  <1> DEFINE F == {T \in SUBSET S : SumFunctionOnSet(f, T) \notin Int}
  <1> SUFFICES ASSUME F # {} PROVE FALSE
    OBVIOUS
  <1>1. F \in SUBSET SUBSET S /\ F # {}
    OBVIOUS
  <1> HIDE DEF F
  <1>2. PICK T \in F : \A U \in F : U \subseteq T => U = T
    BY <1>1, SmallestSubset
  <1> USE DEF F
  <1>3. IsFiniteSet(T) /\ T \subseteq S
    BY FS_Subset
  <1>4. T # {}
    <2>1. SumFunctionOnSet(f, {}) = 0
      BY FS_EmptySet, SumUnfolds
    <2>2. SumFunctionOnSet(f, T) \notin Int
      BY <1>2
    <2> HIDE DEF F
    <2> QED BY <2>1, <2>2
  <1>5. Any(T) \in T
    BY <1>4 DEF Any
  <1>6. SumFunctionOnSet(f, T \ {Any(T)}) \in Int
    BY <1>2, <1>5
  <1>7. f[Any(T)] \in Int
    BY <1>3, <1>5
  <1>8. SumFunctionOnSet(f, T) = f[Any(T)] + SumFunctionOnSet(f, T \ {Any(T)})
    BY <1>3, <1>4, SumUnfolds
  <1> QED BY <1>2, <1>6, <1>7, <1>8

\* Any term may be taken out of a sum.
LEMMA SumWithout ==
    ASSUME NEW S, IsFiniteSet(S), NEW f, \A x \in S : f[x] \in Int, NEW e \in S
    PROVE  SumFunctionOnSet(f, S) = SumFunctionOnSet(f, S \ {e}) + f[e]
  <1> DEFINE Out(T, d) == SumFunctionOnSet(f, T) = SumFunctionOnSet(f, T \ {d}) + f[d]
             F == {T \in SUBSET S : \E d \in T : ~Out(T, d)}
  <1> SUFFICES ASSUME F # {} PROVE FALSE
    OBVIOUS
  <1>1. F \in SUBSET SUBSET S /\ F # {}
    OBVIOUS
  <1> HIDE DEF F
  <1>2. PICK T \in F : \A U \in F : U \subseteq T => U = T
    BY <1>1, SmallestSubset
  <1>3. PICK d \in T : ~Out(T, d)
    BY <1>2 DEF F
  <1>4. IsFiniteSet(T) /\ T \subseteq S
    BY FS_Subset DEF F
  <1> DEFINE a == Any(T)
  <1>5. a \in T
    BY <1>3 DEF Any
  <1>6. SumFunctionOnSet(f, T) = f[a] + SumFunctionOnSet(f, T \ {a})
    BY <1>4, <1>5, SumUnfolds
  <1>7. \A U \in SUBSET T : f[a] \in Int /\ f[d] \in Int /\ SumFunctionOnSet(f, U) \in Int
    <2>1. \A U \in SUBSET T : IsFiniteSet(U)
      BY <1>4, FS_Subset
    <2> QED BY <1>3, <1>4, <1>5, <2>1, SumsOfInts
  <1> HIDE DEF a
  <1>8. CASE d = a
    BY <1>3, <1>5, <1>6, <1>7, <1>8
  <1>9. CASE d # a
    <2>0. \A U \in SUBSET T : U # T => \A b \in U : Out(U, b)
      <3> HIDE DEF Out
      <3> QED BY <1>2, <1>4 DEF F
    <2>1. Out(T \ {a}, d)
      BY <2>0, <1>3, <1>5, <1>9
    <2>2. Out(T \ {d}, a)
      BY <2>0, <1>3, <1>5, <1>9
    <2>3. (T \ {a}) \ {d} = (T \ {d}) \ {a}
      OBVIOUS
    <2> DEFINE both == SumFunctionOnSet(f, (T \ {d}) \ {a})
    <2>4. both \in Int
      BY <1>7
    <2>5. SumFunctionOnSet(f, T) = f[a] + (both + f[d])
      BY <1>6, <2>1, <2>3
    <2>6. SumFunctionOnSet(f, T \ {d}) = both + f[a]
      BY <2>2
    <2> HIDE DEF both
    <2>7. SumFunctionOnSet(f, T) = SumFunctionOnSet(f, T \ {d}) + f[d]
      BY <1>7, <2>4, <2>5, <2>6
    <2> QED BY <1>3, <2>7
  <1> QED BY <1>8, <1>9
\* b pairs the terms of f over A with equal ones of g over B.
Pairing(b, f, A, g, B) ==
    /\ \A x \in A : f[x] \in Int
    /\ \A x \in A : f[x] = g[b[x]]
    /\ \A x, y \in A : b[x] = b[y] => x = y
    /\ \A x \in A : b[x] \in B
    /\ \A y \in B : \E x \in A : b[x] = y

\* A sum may be taken over what its terms are paired with.
LEMMA PairedSums ==
    ASSUME NEW A, IsFiniteSet(A), NEW f, NEW g, NEW b, NEW B, Pairing(b, f, A, g, B)
    PROVE  SumFunctionOnSet(f, A) = SumFunctionOnSet(g, B)
  <1> USE DEF Pairing
  <1> DEFINE Image(T) == {b[x] : x \in T}
             F == {T \in SUBSET A : SumFunctionOnSet(f, T) # SumFunctionOnSet(g, Image(T))}
  <1>0. Image(A) = B
    OBVIOUS
  <1> SUFFICES ASSUME F # {} PROVE FALSE
    <2>1. F = {} => A \notin F
      OBVIOUS
    <2> QED BY <1>0, <2>1
  <1>1. F \in SUBSET SUBSET A /\ F # {}
    OBVIOUS
  <1> HIDE DEF F
  <1>2. PICK T \in F : \A U \in F : U \subseteq T => U = T
    BY <1>1, SmallestSubset
  <1>3. /\ T \subseteq A /\ IsFiniteSet(T)
        /\ SumFunctionOnSet(f, T) # SumFunctionOnSet(g, Image(T))
    BY FS_Subset DEF F
  <1>4. T # {}
    <2>1. IsFiniteSet({}) /\ Image({}) = {}
      BY FS_EmptySet
    <2>2. SumFunctionOnSet(f, {}) = 0 /\ SumFunctionOnSet(g, {}) = 0
      BY <2>1, SumUnfolds
    <2> HIDE DEF Image
    <2> QED BY <1>3, <2>1, <2>2
  <1>5. PICK e \in T : TRUE
    BY <1>4
  <1>6. Image(T) \ {b[e]} = Image(T \ {e})
    BY <1>3
  <1>7. IsFiniteSet(Image(T))
    <2> DEFINE h == [x \in T |-> b[x]]
    <2>1. h \in Surjection(T, Image(T))
      BY DEF Surjection
    <2> HIDE DEF Image, h
    <2> QED BY <1>3, <2>1, FS_Surjection
  <1>8. b[e] \in Image(T) /\ f[e] = g[b[e]] /\ \A y \in Image(T) : g[y] \in Int
    BY <1>3
  <1> HIDE DEF Image
  <1>9. SumFunctionOnSet(f, T) = SumFunctionOnSet(f, T \ {e}) + f[e]
    BY <1>3, <1>5, SumWithout
  <1>10. SumFunctionOnSet(g, Image(T)) = SumFunctionOnSet(g, Image(T \ {e})) + g[b[e]]
    <2> DEFINE R == Image(T)
    <2>1. b[e] \in R /\ IsFiniteSet(R) /\ \A y \in R : g[y] \in Int
      BY <1>7, <1>8
    <2> HIDE DEF R
    <2>2. SumFunctionOnSet(g, R) = SumFunctionOnSet(g, R \ {b[e]}) + g[b[e]]
      BY <2>1, SumWithout
    <2> QED BY <1>6, <2>2 DEF R
  <1>11. SumFunctionOnSet(f, T \ {e}) = SumFunctionOnSet(g, Image(T \ {e}))
    <2>1. T \ {e} \notin F
      BY <1>2, <1>5
    <2> QED BY <1>3, <2>1 DEF F
  <1> QED BY <1>3, <1>8, <1>9, <1>10, <1>11
-----------------------------------------------------------------------------
(* Where the contracts of a position are: in the log, or on the channel. *)

Booked(t) == {i \in 1..Len(log[t]) : log[t][i].kind = "fill"}
Coming(t) == {j \in 1..Len(pending) : pending[j].t = t}

\* b and c tell which contract of t a record, and a message, stands for: each
\* is told at its cost, and once.
Booking(t, b) ==
    \A i \in Booked(t) : /\ b[i] \in 1..Len(position[t].costs)
                         /\ log[t][i].side = position[t].side
                         /\ log[t][i].cost = position[t].costs[b[i]]
Telling(t, c) ==
    \A j \in Coming(t) : /\ c[j] \in 1..Len(position[t].costs)
                         /\ pending[j].side = position[t].side
                         /\ pending[j].cost = position[t].costs[c[j]]
Once(t, b, c) ==
    /\ \A i, k \in Booked(t) : b[i] = b[k] => i = k
    /\ \A j, k \in Coming(t) : c[j] = c[k] => j = k
    /\ \A i \in Booked(t), j \in Coming(t) : b[i] # c[j]
Every(t, b, c) ==
    \A n \in 1..Len(position[t].costs) :
        (\E i \in Booked(t) : b[i] = n) \/ (\E j \in Coming(t) : c[j] = n)

Accounted(t, b, c) ==
    Booking(t, b) /\ Telling(t, c) /\ Once(t, b, c) /\ Every(t, b, c)

Traced(t) ==
    IF t \in Held
    THEN t \notin lostFills => \E b, c \in [Nat -> Int] : Accounted(t, b, c)
    ELSE Booked(t) = {} /\ Coming(t) = {}

TraceInv == \A t \in Markets : Traced(t)

LEMMA HeldIsTyped ==
  ASSUME NEW p \in Positions
  PROVE  p # NoPosition <=> p \in [side : Outcomes, costs : Seq(Nat), day : Nat]
  <1>1. ASSUME p \in [side : Outcomes, costs : Seq(Nat), day : Nat] PROVE p # NoPosition
    <2>1. "side" \in DOMAIN p
      BY <1>1
    <2>2. "side" \notin DOMAIN NoPosition
      BY DEF NoPosition
    <2> QED BY <2>1, <2>2
  <1> QED BY <1>1 DEF Positions

LEMMA TraceInit == Init => TraceInv
  BY DEF Init, TraceInv, Traced, Held, Booked, Coming

LEMMA TraceStays ==
  ASSUME TraceInv, UNCHANGED <<position, log, pending, lostFills>>
  PROVE  TraceInv'
  <1> SUFFICES ASSUME NEW t \in Markets PROVE Traced(t)'
    BY DEF TraceInv
  <1>1. /\ Held' = Held /\ Booked(t)' = Booked(t) /\ Coming(t)' = Coming(t)
        /\ \A b, c : Accounted(t, b, c)' <=> Accounted(t, b, c)
    BY DEF Held, Booked, Coming, Accounted, Booking, Telling, Once, Every
  <1> QED BY <1>1 DEF TraceInv, Traced

\* With the messages on the channel goes the claim about their markets.
LEMMA TraceLost ==
  ASSUME CapInv, TraceInv, pending' = <<>>, UNCHANGED <<position, log>>,
         lostFills' = lostFills \cup {pending[i].t : i \in 1..Len(pending)}
  PROVE  TraceInv'
  <1> SUFFICES ASSUME NEW t \in Markets PROVE Traced(t)'
    BY DEF TraceInv
  <1>1. Held' = Held /\ Booked(t)' = Booked(t) /\ Coming(t)' = {}
    BY DEF Held, Booked, Coming
  <1>2. CASE t \notin Held
    BY <1>1, <1>2 DEF TraceInv, Traced
  <1>3. CASE t \in Held /\ t \notin lostFills'
    <2>1. Coming(t) = {}
      BY <1>3 DEF Coming
    <2>2. \A b, c : Accounted(t, b, c)' <=> Accounted(t, b, c)
      BY <1>1, <2>1 DEF Accounted, Booking, Telling, Once, Every
    <2> QED BY <1>1, <1>3, <2>2 DEF TraceInv, Traced
  <1> QED BY <1>1, <1>2, <1>3 DEF Traced

LEMMA TraceMatch ==
  ASSUME CapInv, TraceInv, NEW o \in wire, NEW costs \in CostLists, Match(o, costs)
  PROVE  TraceInv'
  <1>0. PICK t \in Markets, side \in Outcomes : t = o.t /\ side = o.side
    BY DEF CapInv, Shape, Orders
  <1> DEFINE messages == [i \in 1..Len(costs) |->
                             [t |-> t, side |-> side, cost |-> costs[i]]]
             bought == [side |-> side, costs |-> costs, day |-> today]
  <1>1. /\ costs \in Seq(Nat) /\ Len(costs) \in Nat
        /\ pending \in Seq(FillMessages) /\ Len(pending) \in Nat
    BY CapAssumption, LenProperties DEF CapInv, Shape
  <1>2. /\ messages \in Seq(FillMessages) /\ Len(messages) = Len(costs)
        /\ \A i \in 1..Len(costs) :
              messages[i].t = t /\ messages[i].side = side /\ messages[i].cost = costs[i]
    BY <1>1 DEF FillMessages
  <1>3. /\ t \notin Held
        /\ position' = [position EXCEPT ![t] = bought]
        /\ pending' = IF fillUp THEN pending \o messages ELSE pending
        /\ lostFills' = IF fillUp THEN lostFills ELSE lostFills \cup {t}
        /\ log' = log
    BY <1>0 DEF Match, CapInv, OneOrder
  <1>4. bought \in [side : Outcomes, costs : Seq(Nat), day : Nat]
    BY <1>1 DEF CapInv, Shape
  <1>5. /\ position' \in [Markets -> Positions]
        /\ position'[t] = bought /\ \A u \in Markets \ {t} : position'[u] = position[u]
    BY <1>3, <1>4 DEF CapInv, Shape, Positions
  <1>6. bought # NoPosition
    BY <1>4, HeldIsTyped DEF Positions
  <1>7. Held' = Held \cup {t}
    BY <1>3, <1>5, <1>6 DEF Held
  <1>8. bought.side = side /\ bought.costs = costs
    OBVIOUS
  <1> HIDE DEF bought, messages
  <1>9. ASSUME fillUp
        PROVE  /\ Len(pending') = Len(pending) + Len(costs)
               /\ \A j \in 1..Len(pending) : pending'[j] = pending[j]
               /\ \A j \in Len(pending) + 1..Len(pending') :
                     pending'[j] = messages[j - Len(pending)]
    <2>1. pending' = pending \o messages
      BY <1>3, <1>9
    <2>2. /\ Len(pending') = Len(pending) + Len(messages)
          /\ \A j \in 1..Len(pending) + Len(messages) : pending'[j] =
                IF j <= Len(pending) THEN pending[j] ELSE messages[j - Len(pending)]
      <3>1. pending \in Seq(FillMessages) /\ messages \in Seq(FillMessages)
        BY <1>1, <1>2
      <3> HIDE DEF messages
      <3> QED BY <2>1, <3>1, ConcatProperties
    <2> QED BY <1>1, <1>2, <2>2
  <1>10. ASSUME NEW u \in Markets, u # t PROVE Traced(u)'
    <2>1. Booked(u)' = Booked(u)
      BY <1>3 DEF Booked
    <2>2. Coming(u)' = Coming(u) /\ \A j \in Coming(u) : pending'[j] = pending[j]
      <3>1. CASE ~fillUp
        BY <1>3, <3>1 DEF Coming
      <3>2. CASE fillUp
        <4>1. ASSUME NEW j \in Len(pending) + 1..Len(pending') PROVE pending'[j].t = t
          <5>1. j - Len(pending) \in 1..Len(costs)
            BY <1>1, <1>9, <3>2
          <5> QED BY <1>2, <1>9, <3>2, <5>1
        <4> QED BY <1>1, <1>9, <1>10, <3>2, <4>1 DEF Coming
      <3> QED BY <3>1, <3>2
    <2>3. position'[u] = position[u] /\ log' = log
      BY <1>3, <1>5, <1>10
    <2>4. ASSUME NEW b, NEW c, Accounted(u, b, c) PROVE Accounted(u, b, c)'
      <3>1. Booking(u, b)'
        BY <2>1, <2>3, <2>4 DEF Accounted, Booking
      <3>2. Telling(u, c)'
        BY <2>2, <2>3, <2>4 DEF Accounted, Telling
      <3>3. Once(u, b, c)'
        BY <2>1, <2>2, <2>4 DEF Accounted, Once
      <3>4. Every(u, b, c)'
        BY <2>1, <2>2, <2>3, <2>4 DEF Accounted, Every
      <3> QED BY <3>1, <3>2, <3>3, <3>4 DEF Accounted
    <2> QED BY <1>3, <1>7, <1>10, <2>1, <2>2, <2>4 DEF TraceInv, Traced
  <1>11. Traced(t)'
    <2>1. Booked(t)' = {} /\ Coming(t) = {}
      BY <1>3 DEF TraceInv, Traced, Booked
    <2>2. CASE ~fillUp
      BY <1>3, <1>7, <2>2 DEF Traced
    <2>3. CASE fillUp
      <3>1. PICK c \in [Nat -> Int] : \A j \in Nat : c[j] = j - Len(pending)
        <4>1. [j \in Nat |-> j - Len(pending)] \in [Nat -> Int]
          BY <1>1
        <4> QED BY <4>1
      <3>2. Coming(t)' = Len(pending) + 1..Len(pending')
        <4>1. \A j \in 1..Len(pending) : pending'[j].t # t
          BY <1>9, <2>1, <2>3 DEF Coming
        <4>2. ASSUME NEW j \in Len(pending) + 1..Len(pending') PROVE pending'[j].t = t
          <5>1. j - Len(pending) \in 1..Len(costs)
            BY <1>1, <1>9, <2>3
          <5> QED BY <1>2, <1>9, <2>3, <5>1
        <4>3. \A j : j \in 1..Len(pending') <=>
                        j \in 1..Len(pending) \/ j \in Len(pending) + 1..Len(pending')
          <5>1. Len(pending) \in Nat /\ Len(pending') = Len(pending) + Len(costs)
            BY <1>1, <1>9, <2>3
          <5> QED BY <1>1, <5>1
        <4>4. Coming(t)' = {j \in 1..Len(pending') : pending'[j].t = t}
          BY DEF Coming
        <4> QED BY <4>1, <4>2, <4>3, <4>4
      <3>3. ASSUME NEW j \in Coming(t)'
            PROVE  /\ j \in Nat /\ c[j] = j - Len(pending) /\ c[j] \in 1..Len(costs)
                   /\ pending'[j].side = side /\ pending'[j].cost = costs[c[j]]
        <4>0. /\ Len(pending) \in Nat /\ Len(costs) \in Nat
              /\ j \in Len(pending) + 1..Len(pending) + Len(costs)
          BY <1>1, <1>9, <2>3, <3>2, Zenon
        <4>1. j \in Nat /\ j - Len(pending) \in 1..Len(costs)
          BY <4>0
        <4> QED BY <1>2, <1>9, <2>3, <3>1, <3>2, <4>1
      <3>4. ASSUME NEW n \in 1..Len(costs) PROVE \E j \in Coming(t)' : c[j] = n
        <4> DEFINE k == Len(pending) + n
        <4>0. k \in Nat /\ k - Len(pending) = n
          BY <1>1
        <4>1. k \in Coming(t)'
          BY <1>1, <1>9, <2>3, <3>2
        <4>2. c[k] = n
          BY <3>1, <4>0
        <4> HIDE DEF k
        <4> QED BY <4>1, <4>2
      <3>5. \A j, k \in Coming(t)' : c[j] = c[k] => j = k
        BY <1>1, <3>3
      <3>6. Accounted(t, c, c)'
        BY <1>5, <1>8, <2>1, <3>3, <3>4, <3>5 DEF Accounted, Booking, Telling, Once, Every
      <3> QED BY <1>7, <3>1, <3>6 DEF Traced
    <2> QED BY <2>2, <2>3
  <1> QED BY <1>5, <1>10, <1>11 DEF TraceInv

LEMMA ShiftExists ==
  ASSUME NEW c \in [Nat -> Int]
  PROVE  \E d \in [Nat -> Int] : \A j \in Nat : d[j] = c[j + 1]
  <1>1. [j \in Nat |-> c[j + 1]] \in [Nat -> Int]
    OBVIOUS
  <1> QED BY <1>1

\* A message that is logged keeps the contract it stands for.
LEMMA TraceLogFill == ASSUME CapInv, TraceInv, LogFill PROVE TraceInv'
  <1>0. PICK m, t : m = Head(pending) /\ t = m.t
    OBVIOUS
  <1> DEFINE rec == [kind |-> "fill", side |-> m.side, cost |-> m.cost, day |-> today]
             last == Len(log[t]) + 1
  <1>1. /\ pending \in Seq(FillMessages) /\ pending # <<>> /\ pending' = Tail(pending)
        /\ log \in Logs /\ log' = [log EXCEPT ![t] = Append(@, rec)]
        /\ UNCHANGED <<position, lostFills>>
    BY <1>0 DEF LogFill, CapInv, Shape, exchangeVars, histVars
  <1>2. /\ m = pending[1] /\ t = pending[1].t /\ t \in Markets
        /\ Len(pending) \in Nat \ {0} /\ Len(pending') = Len(pending) - 1
        /\ \A j \in 1..Len(pending') : pending'[j] = pending[j + 1]
    <2>1. m = pending[1] /\ m \in FillMessages /\ t = m.t
      BY <1>0, <1>1
    <2>2. Len(pending) \in Nat \ {0}
      BY <1>1
    <2>3. /\ Len(pending') = Len(pending) - 1
          /\ \A j \in 1..Len(pending') : pending'[j] = pending[j + 1]
      BY <1>1, HeadTailProperties
    <2> QED BY <2>1, <2>2, <2>3 DEF FillMessages
  <1>3. rec.kind = "fill" /\ rec.side = m.side /\ rec.cost = m.cost
    OBVIOUS
  <1> HIDE DEF rec
  <1>4. /\ log[t] \in Seq(Records) /\ Len(log[t]) \in Nat
        /\ log'[t] = Append(log[t], rec)
        /\ \A u \in Markets \ {t} : log'[u] = log[u]
    BY <1>1, <1>2, LenProperties DEF Logs
  <1>5. /\ Len(log'[t]) = last /\ log'[t][last] = rec
        /\ \A i \in 1..Len(log[t]) : log'[t][i] = log[t][i]
    BY <1>4
  <1>6. Held' = Held
    BY <1>1 DEF Held
  <1>7. ASSUME NEW u \in Markets
        PROVE  \A j : j \in Coming(u)' <=> j \in Nat \ {0} /\ j + 1 \in Coming(u)
    BY <1>2 DEF Coming
  <1>8. 1 \in Coming(t)
    BY <1>2 DEF Coming
  <1>9. ASSUME NEW u \in Markets, u # t PROVE Traced(u)'
    <2>1. Booked(u)' = Booked(u) /\ log'[u] = log[u] /\ 1 \notin Coming(u)
      BY <1>2, <1>4, <1>9 DEF Booked, Coming
    <2>2. \A j \in Coming(u) : j \in Nat /\ j >= 2
      BY <2>1 DEF Coming
    <2>3. CASE u \notin Held
      <3>1. Booked(u)' = {} /\ Coming(u)' = {}
        BY <1>7, <2>1, <2>3 DEF TraceInv, Traced
      <3> QED BY <1>6, <2>3, <3>1 DEF Traced
    <2>4. CASE u \in Held /\ u \notin lostFills
      <3>1. PICK b \in [Nat -> Int], c \in [Nat -> Int] : Accounted(u, b, c)
        BY <2>4 DEF TraceInv, Traced
      <3>2. PICK d \in [Nat -> Int] : \A j \in Nat : d[j] = c[j + 1]
        BY ShiftExists
      <3>3. ASSUME NEW j \in Coming(u)'
            PROVE  /\ j \in Nat /\ j + 1 \in Coming(u) /\ d[j] = c[j + 1]
                   /\ pending'[j] = pending[j + 1]
        BY <1>2, <1>7, <3>2 DEF Coming
      <3>4. ASSUME NEW j \in Coming(u) PROVE \E k \in Coming(u)' : d[k] = c[j]
        <4>1. PICK k \in Nat \ {0} : k + 1 = j
          <5>1. j - 1 \in Nat \ {0} /\ (j - 1) + 1 = j
            BY <2>2
          <5> QED BY <5>1
        <4> QED BY <1>7, <3>2, <4>1
      <3>5. Once(u, b, c) /\ Booking(u, b) /\ Telling(u, c) /\ Every(u, b, c)
        BY <3>1 DEF Accounted
      <3>6. Once(u, b, d)'
        <4>1. \A j, k \in Coming(u)' : d[j] = d[k] => j = k
          <5>1. \A j, k \in Coming(u)' : d[j] = d[k] => j + 1 = k + 1
            BY <3>3, <3>5 DEF Once
          <5> QED BY <3>3, <5>1
        <4> QED BY <2>1, <3>3, <3>5, <4>1 DEF Once
      <3>7. Booking(u, b)'
        BY <1>1, <2>1, <3>5 DEF Booking
      <3>8. Telling(u, d)'
        BY <1>1, <3>3, <3>5 DEF Telling
      <3>9. Every(u, b, d)'
        <4> SUFFICES ASSUME NEW n \in 1..Len(position[u].costs)
                     PROVE  \/ \E i \in Booked(u)' : b[i] = n
                            \/ \E j \in Coming(u)' : d[j] = n
          BY <1>1 DEF Every
        <4>1. CASE \E i \in Booked(u) : b[i] = n
          BY <2>1, <4>1
        <4>2. CASE \E j \in Coming(u) : c[j] = n
          BY <3>4, <4>2
        <4> QED BY <3>5, <4>1, <4>2 DEF Every
      <3>10. Accounted(u, b, d)'
        BY <3>6, <3>7, <3>8, <3>9 DEF Accounted
      <3>11. \E x, y \in [Nat -> Int] : Accounted(u, x, y)'
        BY <3>10
      <3> QED BY <1>6, <2>4, <3>11 DEF Traced
    <2> QED BY <1>1, <1>6, <2>3, <2>4 DEF Traced
  <1>10. Traced(t)'
    <2>1. t \in Held
      BY <1>2, <1>8 DEF TraceInv, Traced
    <2>2. /\ Booked(t)' = Booked(t) \cup {last}
          /\ last \notin Booked(t) /\ last \in Nat
          /\ \A i \in Booked(t) : i \in Nat /\ log'[t][i] = log[t][i]
      BY <1>3, <1>4, <1>5 DEF Booked
    <2>3. CASE t \notin lostFills
      <3>1. PICK b \in [Nat -> Int], c \in [Nat -> Int] : Accounted(t, b, c)
        BY <1>2, <2>1, <2>3 DEF TraceInv, Traced
      <3>2. PICK d \in [Nat -> Int] : \A j \in Nat : d[j] = c[j + 1]
        BY ShiftExists
      <3>3. PICK a \in [Nat -> Int] :
                a[last] = c[1] /\ \A i \in Booked(t) : a[i] = b[i]
        <4>1. [b EXCEPT ![last] = c[1]] \in [Nat -> Int]
          OBVIOUS
        <4> QED BY <2>2, <4>1
      <3> HIDE DEF last
      <3>4. ASSUME NEW j \in Coming(t)'
            PROVE  /\ j \in Nat \ {0} /\ j + 1 \in Coming(t) /\ d[j] = c[j + 1]
                   /\ pending'[j] = pending[j + 1]
        BY <1>2, <1>7, <3>2 DEF Coming
      <3>5. ASSUME NEW j \in Coming(t), j # 1
            PROVE  \E k \in Coming(t)' : d[k] = c[j]
        <4>1. j \in Nat /\ j >= 2
          BY <3>5 DEF Coming
        <4>2. PICK k \in Nat \ {0} : k + 1 = j
          <5>1. j - 1 \in Nat \ {0} /\ (j - 1) + 1 = j
            BY <4>1
          <5> QED BY <5>1
        <4> QED BY <1>2, <1>7, <3>2, <4>2
      <3>6. Once(t, b, c) /\ Booking(t, b) /\ Telling(t, c) /\ Every(t, b, c)
        BY <3>1 DEF Accounted
      <3>7. Once(t, a, d)'
        <4>1. \A j, k \in Coming(t)' : d[j] = d[k] => j = k
          <5>1. \A j, k \in Coming(t)' : d[j] = d[k] => j + 1 = k + 1
            BY <3>4, <3>6 DEF Once
          <5> QED BY <3>4, <5>1
        <4>2. \A j \in Coming(t)' : d[j] # c[1]
          <5>1. \A j \in Coming(t)' : j + 1 # 1
            BY <3>4
          <5> QED BY <1>8, <3>4, <3>6, <5>1 DEF Once
        <4>3. \A i, k \in Booked(t)' : a[i] = a[k] => i = k
          BY <1>8, <2>2, <3>3, <3>6 DEF Once
        <4>4. \A i \in Booked(t)', j \in Coming(t)' : a[i] # d[j]
          BY <2>2, <3>3, <3>4, <3>6, <4>2 DEF Once
        <4> QED BY <4>1, <4>3, <4>4 DEF Once
      <3>8. Booking(t, a)'
        <4>1. /\ c[1] \in 1..Len(position[t].costs)
              /\ rec.side = position[t].side /\ rec.cost = position[t].costs[c[1]]
          BY <1>2, <1>3, <1>8, <3>6 DEF Telling
        <4>2. \A i \in Booked(t) : /\ a[i] \in 1..Len(position[t].costs)
                                     /\ log'[t][i].side = position[t].side
                                     /\ log'[t][i].cost = position[t].costs[a[i]]
          BY <2>2, <3>3, <3>6 DEF Booking
        <4>3. log'[t][last] = rec /\ a[last] = c[1] /\ Booked(t)' = Booked(t) \cup {last}
          BY <1>5, <2>2, <3>3
        <4> QED BY <1>1, <4>1, <4>2, <4>3 DEF Booking
      <3>9. Telling(t, d)'
        BY <1>1, <3>4, <3>6 DEF Telling
      <3>10. Every(t, a, d)'
        <4> SUFFICES ASSUME NEW n \in 1..Len(position[t].costs)
                     PROVE  \/ \E i \in Booked(t)' : a[i] = n
                            \/ \E j \in Coming(t)' : d[j] = n
          BY <1>1 DEF Every
        <4>1. CASE \E i \in Booked(t) : b[i] = n
          BY <2>2, <3>3, <4>1
        <4>2. CASE c[1] = n
          BY <2>2, <3>3, <4>2
        <4>3. CASE \E j \in Coming(t) : j # 1 /\ c[j] = n
          BY <3>5, <4>3
        <4> QED BY <3>6, <4>1, <4>2, <4>3 DEF Every
      <3>11. Accounted(t, a, d)'
        BY <3>7, <3>8, <3>9, <3>10 DEF Accounted
      <3>12. \E x, y \in [Nat -> Int] : Accounted(t, x, y)'
        BY <3>11
      <3> QED BY <1>6, <2>1, <3>12 DEF Traced
    <2> QED BY <1>1, <1>6, <2>1, <2>3 DEF Traced
  <1> QED BY <1>1, <1>9, <1>10 DEF TraceInv


LEMMA TraceRoute == ASSUME CapInv, TraceInv, RouteSettlement PROVE TraceInv'
  <1>0. PICK m, t : m = Head(inbox) /\ t = m.t
    OBVIOUS
  <1> DEFINE rec == [kind |-> "settlement", value |-> m.value, day |-> today]
  <1>1. /\ m \in Announcements /\ log \in Logs
        /\ log' = [log EXCEPT ![t] = Append(@, rec)]
        /\ UNCHANGED <<position, pending, lostFills>>
    BY <1>0 DEF RouteSettlement, CapInv, Shape, fillVars, exchangeVars, histVars
  <1>2. rec.kind = "settlement" /\ t \in Markets
    BY <1>0, <1>1 DEF Announcements
  <1> HIDE DEF rec
  <1>3. /\ log[t] \in Seq(Records) /\ log'[t] = Append(log[t], rec)
        /\ \A u \in Markets \ {t} : log'[u] = log[u]
    BY <1>1, <1>2 DEF Logs
  <1>4. /\ Len(log[t]) \in Nat /\ Len(log'[t]) = Len(log[t]) + 1
        /\ log'[t][Len(log[t]) + 1] = rec
        /\ \A i \in 1..Len(log[t]) : log'[t][i] = log[t][i]
    BY <1>3
  <1>5. ASSUME NEW u \in Markets
        PROVE  Booked(u)' = Booked(u) /\ \A i \in Booked(u) : log'[u][i] = log[u][i]
    <2>1. CASE u # t
      BY <1>3, <2>1 DEF Booked
    <2>2. CASE u = t
      BY <1>2, <1>4, <2>2 DEF Booked
    <2> QED BY <2>1, <2>2
  <1>6. ASSUME NEW u \in Markets PROVE Traced(u)'
    <2>1. Held' = Held /\ Coming(u)' = Coming(u)
      BY <1>1 DEF Held, Coming
    <2>2. ASSUME NEW b, NEW c, Accounted(u, b, c) PROVE Accounted(u, b, c)'
      <3>1. Booking(u, b)'
        BY <1>1, <1>5, <2>2 DEF Accounted, Booking
      <3>2. Telling(u, c)'
        BY <1>1, <2>1, <2>2 DEF Accounted, Telling
      <3>3. Once(u, b, c)'
        BY <1>5, <2>1, <2>2 DEF Accounted, Once
      <3>4. Every(u, b, c)'
        BY <1>1, <1>5, <2>1, <2>2 DEF Accounted, Every
      <3> QED BY <3>1, <3>2, <3>3, <3>4 DEF Accounted
    <2> QED BY <1>1, <1>5, <2>1, <2>2 DEF TraceInv, Traced
  <1> QED BY <1>1, <1>6 DEF TraceInv

LEMMA TraceStep == CapInv /\ TraceInv /\ [Next]_vars => TraceInv'
  <1> SUFFICES ASSUME CapInv, TraceInv, [Next]_vars PROVE TraceInv'
    OBVIOUS
  <1> USE DEF feedVars, fillVars, exchangeVars, histVars
  <1>1. CASE \E readable \in BOOLEAN : Boot(readable)
    BY <1>1, TraceStays DEF Boot
  <1>2. CASE Crash
    BY <1>2, TraceLost DEF Crash
  <1>3. CASE Refresh
    BY <1>3, TraceStays DEF Refresh
  <1>4. CASE \E t \in Markets, side \in Outcomes : Enter(t, side)
    BY <1>4, TraceStays DEF Enter
  <1>5. CASE \E o \in wire, costs \in CostLists : Match(o, costs)
    BY <1>5, TraceMatch
  <1>6. CASE \E o \in wire : Refuse(o)
    BY <1>6, TraceStays DEF Refuse
  <1>7. CASE LogFill
    BY <1>7, TraceLogFill
  <1>8. CASE RouteSettlement
    BY <1>8, TraceRoute
  <1>9. CASE FeedConnect \/ FeedDrop \/ FillConnect
    BY <1>9, TraceStays DEF FeedConnect, FeedDrop, FillConnect
  <1>10. CASE FillDrop
    BY <1>10, TraceLost DEF FillDrop
  <1>11. CASE \E t \in Markets, outcome \in Outcomes : Determine(t, outcome)
    BY <1>11, TraceStays DEF Determine
  <1>12. CASE \E t \in Markets, given \in BOOLEAN : Announce(t, given)
    BY <1>12, TraceStays DEF Announce
  <1>13. CASE Midnight
    BY <1>13, TraceStays DEF Midnight
  <1>14. CASE UNCHANGED vars
    BY <1>14, TraceStays DEF vars
  <1> QED BY <1>1, <1>2, <1>3, <1>4, <1>7, <1>8, <1>9, <1>10, <1>11, <1>12, <1>13, <1>14,
             <1>5, <1>6
          DEF Next

\* The last settlement record is the largest index of one.
LEMMA LastIsMax ==
  ASSUME NEW S \in SUBSET Int, NEW i \in S, \A j \in S : j <= i
  PROVE  Max(S) = i
  <1>0. \E x \in S : \A y \in S : x >= y
    BY SMT
  <1>1. Max(S) \in S /\ \A j \in S : Max(S) >= j
    BY <1>0, Zenon DEF Max
  <1>2. Max(S) \in Int /\ i \in Int /\ Max(S) >= i /\ Max(S) <= i
    BY <1>1
  <1> HIDE DEF Max
  <1> QED BY <1>2

\* The PnL of the log as the sum of a function.
LEMMA RealizedIsSum ==
  ASSUME NEW lg, NEW d, Settlements(lg, d) # {}, IsFiniteSet(Entries(lg, d)), NEW f,
         \A i \in Entries(lg, d) : f[i] = Pays(lg[i].side, ValueOf(lg, d)) - lg[i].cost
  PROVE  Realized(lg, d) = SumFunctionOnSet(f, Entries(lg, d))
  <1> DEFINE S == Entries(lg, d)
             pnl(i) == Pays(lg[i].side, ValueOf(lg, d)) - lg[i].cost
             Table(g) == g = [T \in SUBSET S |-> IF T = {} THEN 0
                                                ELSE pnl(Any(T)) + g[T \ {Any(T)}]]
             t == CHOOSE g : Table(g)
             u == CHOOSE g : Tabulates(g, f, S)
  <1>1. Realized(lg, d) = t[S]
    BY DEF Realized, MapThenSumSet, MapThenFoldSet, Any
  <1>2. Tabulates(u, f, S) /\ SumFunctionOnSet(f, S) = u[S]
    BY TableExists, SumIsTabulated
  <1>3. \A T \in SUBSET S : T # {} => f[Any(T)] = pnl(Any(T))
    BY DEF Any
  <1> HIDE DEF S, pnl, u
  <1>4. \A g : Table(g) <=> Tabulates(g, f, S)
    BY <1>3 DEF Tabulates
  <1>5. Tabulates(t, f, S)
    <2>1. Table(t)
      <3>1. Table(u)
        BY <1>2, <1>4
      <3> HIDE DEF Table
      <3> QED BY <3>1
    <2> HIDE DEF t
    <2> QED BY <1>4, <2>1
  <1>6. t[S] = u[S]
    <2>1. S \in SUBSET (S \cap S) /\ IsFiniteSet(S)
      BY DEF S
    <2> HIDE DEF t
    <2> QED BY <1>2, <1>5, <2>1, TablesAgree
  <1> QED BY <1>1, <1>2, <1>6 DEF S

LEMMA PairedIsExact ==
  ASSUME CapInv, TraceInv, NEW t \in Markets, LogComplete(t), StampedInTime(t),
         position[t].day = result[t].day, NEW d \in Nat
  PROVE  Realized(log[t], d) = TrueRealized(t, d)
  <1>1. /\ t \in Held /\ result[t] # Open /\ t \notin lostFills /\ Coming(t) = {}
    BY DEF LogComplete, Coming
  <1>2. position[t] \in [side : Outcomes, costs : Seq(Nat), day : Nat]
    BY <1>1, HeldIsTyped DEF CapInv, Shape, Held
  <1>3. log[t] \in Seq(Records) /\ Len(log[t]) \in Nat
    BY LenProperties DEF CapInv, Shape, Logs
  <1>4. \A i \in 1..Len(log[t]) :
            log[t][i].kind \in {"fill", "settlement"} /\ log[t][i].day = position[t].day
    <2>1. \A i \in 1..Len(log[t]) : log[t][i] \in Records
      BY <1>3, ElementOfSeq
    <2> QED BY <2>1 DEF Records, StampedInTime
  <1>5. PICK last \in 1..Len(log[t]) :
            /\ log[t][last].kind = "settlement" /\ log[t][last].value = result[t].outcome
            /\ \A j \in last + 1..Len(log[t]) : log[t][j].kind = "fill"
    BY DEF LogComplete
  <1>6. CASE d # position[t].day
    <2>1. Settlements(log[t], d) = {}
      BY <1>4, <1>6 DEF Settlements
    <2> QED BY <1>6, <2>1 DEF Realized, TrueRealized
  <1>7. CASE d = position[t].day
    <2> DEFINE side == position[t].side
               costs == position[t].costs
               value == result[t].outcome
               f == [i \in Entries(log[t], d) |->
                        Pays(log[t][i].side, ValueOf(log[t], d)) - log[t][i].cost]
               g == [i \in 1..Len(costs) |-> Pays(side, value) - costs[i]]
    <2>1. Entries(log[t], d) = Booked(t) /\ last \in Settlements(log[t], d)
      BY <1>4, <1>5, <1>7 DEF Entries, Booked, Settlements
    <2>2. IsFiniteSet(Booked(t))
      <3> DEFINE n == Len(log[t])
      <3>0. n \in Int /\ 1 \in Int
        BY <1>3
      <3> HIDE DEF n
      <3>3. IsFiniteSet(1..n)
        BY <3>0, FS_Interval
      <3>1. IsFiniteSet(1..Len(log[t]))
        BY <3>3 DEF n
      <3>2. Booked(t) \subseteq 1..Len(log[t])
        BY DEF Booked
      <3> QED BY <3>1, <3>2, FS_Subset
    <2>3. ValueOf(log[t], d) = value
      <3>1. \A j \in Settlements(log[t], d) : j <= last
        BY <1>3, <1>5 DEF Settlements
      <3>2. Settlements(log[t], d) \in SUBSET Int
        BY DEF Settlements
      <3>3. Max(Settlements(log[t], d)) = last
        BY <2>1, <3>1, <3>2, LastIsMax
      <3> QED BY <1>5, <3>3 DEF ValueOf
    <2>4. Realized(log[t], d) = SumFunctionOnSet(f, Booked(t))
      <3>1. \A i \in Entries(log[t], d) :
                f[i] = Pays(log[t][i].side, ValueOf(log[t], d)) - log[t][i].cost
        OBVIOUS
      <3> HIDE DEF f
      <3>2. Realized(log[t], d) = SumFunctionOnSet(f, Entries(log[t], d))
        BY <2>1, <2>2, <3>1, RealizedIsSum
      <3> QED BY <2>1, <3>2
    <2>5. TrueRealized(t, d) = SumFunctionOnSet(g, 1..Len(costs))
      BY <1>1, <1>7 DEF TrueRealized, SumFunction
    <2>6. PICK b \in [Nat -> Int], c \in [Nat -> Int] : Accounted(t, b, c)
      BY <1>1 DEF TraceInv, Traced
    <2>7. /\ \A i \in Booked(t) : /\ b[i] \in 1..Len(costs)
                                  /\ log[t][i].side = side /\ log[t][i].cost = costs[b[i]]
          /\ \A i, k \in Booked(t) : b[i] = b[k] => i = k
          /\ \A n \in 1..Len(costs) : \E i \in Booked(t) : b[i] = n
      BY <1>1, <2>6 DEF Accounted, Booking, Once, Every
    <2>8. costs \in Seq(Nat) /\ \A n \in 1..Len(costs) : costs[n] \in Nat
      BY <1>2, ElementOfSeq
    <2>9. Pays(side, value) \in Int
      BY CapAssumption DEF Pays
    <2>10. /\ \A i \in Booked(t) : f[i] = Pays(log[t][i].side, value) - log[t][i].cost
          /\ \A n \in 1..Len(costs) : g[n] = Pays(side, value) - costs[n]
      BY <2>1, <2>3
    <2> HIDE DEF f, g, costs, side, value
    <2>11. \A i \in Booked(t) : f[i] \in Int /\ f[i] = g[b[i]]
      <3> TAKE i \in Booked(t)
      <3>1. costs[b[i]] \in Nat /\ g[b[i]] = Pays(side, value) - costs[b[i]]
        BY <2>7, <2>8, <2>10
      <3>2. f[i] = Pays(side, value) - costs[b[i]]
        <4>1. log[t][i].side = side /\ log[t][i].cost = costs[b[i]]
          BY <2>7
        <4>2. f[i] = Pays(log[t][i].side, value) - log[t][i].cost
          BY <2>10
        <4> QED BY <4>1, <4>2, Zenon
      <3> QED BY <2>9, <3>1, <3>2
    <2>12. SumFunctionOnSet(f, Booked(t)) = SumFunctionOnSet(g, 1..Len(costs))
      <3>1. Pairing(b, f, Booked(t), g, 1..Len(costs))
        BY <2>7, <2>11 DEF Pairing
      <3> QED BY <2>2, <3>1, PairedSums
    <2> QED BY <2>4, <2>5, <2>12
  <1> QED BY <1>6, <1>7

\* What the log says a market earned is what it earned, whatever was bought and
\* at what prices, through any crashes and reconnections: as long as every
\* record of it was written, on the day of what it reports, that day is one and
\* the same, and the settlement in force has the exchange's outcome.
THEOREM CompleteLogIsExact == Spec => []ExactWhenComplete
  <1>1. CapInv /\ TraceInv => ExactWhenComplete
    BY CapAssumption, PairedIsExact DEF ExactWhenComplete
  <1> QED BY <1>1, CapInit, CapStep, TraceInit, TraceStep, PTL DEF Spec
=============================================================================
