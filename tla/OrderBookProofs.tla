-------------------------- MODULE OrderBookProofs --------------------------
(***************************************************************************)
(* The ladder of OrderBook.tla, for every set of prices, every size, and   *)
(* any number of messages and connections: drift that no counter shows is  *)
(* confined to the levels whose delta was dropped uncounted, and while     *)
(* there are none the favorite read from the ladder is the true one.       *)
(***************************************************************************)
EXTENDS OrderBook, WellFoundedInduction, TLAPS

(* Facts about the largest element of a set. *)

LEMMA SmallestNat ==
    ASSUME NEW T \in SUBSET Nat, T # {}
    PROVE  \E x \in T : \A y \in T : x <= y
<1> DEFINE R == OpToRel(<, Nat)
<1>1. IsWellFoundedOn(R, Nat)
    BY NatLessThanWellFounded
<1>2. \A x, y \in Nat : <<y, x>> \in R <=> y < x
    BY DEF OpToRel
<1>3. \E x \in T : \A y \in T : <<y, x>> \notin R
    BY <1>1, WFMin, Zenon
<1> HIDE DEF R
<1>4. PICK x \in T : \A y \in T : <<y, x>> \notin R
    BY <1>3
<1>5. \A y \in T : x \in Nat /\ y \in Nat /\ ~(y < x)
    BY <1>2, <1>4
<1> QED
    BY <1>5

LEMMA MaxIsLargest ==
    ASSUME NEW T \in SUBSET (0..1000), T # {}
    PROVE  Max(T) \in T /\ \A y \in T : y <= Max(T)
<1> DEFINE U == {1000 - t : t \in T}
<1>1. U # {}
  <2>1. PICK t \in T : TRUE
    OBVIOUS
  <2>2. 1000 - t \in U
    BY <2>1
  <2> QED
    BY <2>2
<1>2. \A u \in U : u \in Nat
    OBVIOUS
<1>3. \A y \in T : 1000 - y \in U
    OBVIOUS
<1>4. \A u \in U : \E t \in T : u = 1000 - t
    OBVIOUS
<1> HIDE DEF U
<1>5. PICK x \in U : \A y \in U : x <= y
    BY <1>1, <1>2, SmallestNat
<1>6. PICK t \in T : x = 1000 - t
    BY <1>4
<1>7. ASSUME NEW y \in T PROVE t >= y
  <2>1. y \in 0..1000 /\ t \in 0..1000
    OBVIOUS
  <2>2. x <= 1000 - y
    BY <1>3, <1>5
  <2> QED
    BY <1>6, <2>1, <2>2
<1> QED
    BY <1>7 DEF Max
-----------------------------------------------------------------------------
(* Facts about the reading of a book. *)

LEMMA BestBidIsBest ==
    ASSUME NEW book \in Books, NEW s \in Sides
    PROVE  /\ BestBid(book[s]) \in Bids(book[s]) \cup {0}
           /\ BestBid(book[s]) \in Prices \cup {0}
<1> DEFINE T == Bids(book[s]) \cup {0}
<1>1. T \subseteq Prices \cup {0} /\ T # {}
    BY DEF Bids
<1>2. T \in SUBSET (0..1000)
  <2>1. \A p \in Prices \cup {0} : p \in 0..1000
    BY LadderAssumption
  <2> HIDE DEF T
  <2> QED
    BY <1>1, <2>1
<1> HIDE DEF T
<1>3. Max(T) \in T
    BY <1>1, <1>2, MaxIsLargest
<1> USE DEF T
<1> QED
    BY <1>1, <1>3 DEF BestBid

LEMMA TopsType ==
    ASSUME NEW book \in Books
    PROVE  Tops(book) \in [Sides -> Prices \cup {0}]
BY BestBidIsBest DEF Tops

LEMMA LevelType ==
    ASSUME NEW book \in Books, NEW s \in Sides, NEW p \in Prices, NEW n \in Nat
    PROVE  /\ Level(book, s, p, n) \in Books
           /\ Level(book, s, p, n)[s][p] = n
BY DEF Level, Books

LEMMA ExtractedType ==
    ASSUME NEW book \in Books
    PROVE  Extracted(book) \in Books
BY DEF Extracted, EmptyBook, EmptySide, Books

\* A book is its levels.
LEMMA SameLevels ==
    ASSUME NEW b \in Books, NEW c \in Books,
           \A s \in Sides, p \in Prices : b[s][p] = c[s][p]
    PROVE  b = c
<1>1. \A s \in Sides : b[s] \in [Prices -> Nat] /\ c[s] \in [Prices -> Nat]
    BY DEF Books
<1>2. \A s \in Sides : b[s] = c[s]
    BY <1>1
<1> QED
    BY <1>2 DEF Books

\* At most one side of an uncrossed book can clear the threshold.
LEMMA OneFavorite ==
    ASSUME NEW book \in Books, Uncrossed(book)
    PROVE  \E s \in Sides : Tops(book)[s] < Threshold
<1> DEFINE y == BestBid(book["yes"])
<1> DEFINE n == BestBid(book["no"])
<1>1. "yes" \in Sides /\ "no" \in Sides
    BY DEF Sides
<1>2. /\ y \in Bids(book["yes"]) \cup {0} /\ y \in Prices \cup {0}
      /\ n \in Bids(book["no"]) \cup {0} /\ n \in Prices \cup {0}
    BY <1>1, BestBidIsBest
<1>3. Tops(book)["yes"] = y /\ Tops(book)["no"] = n
    BY <1>1 DEF Tops
<1> HIDE DEF y, n
<1>4. y # 0 /\ n # 0 => y + n < 1000
    BY <1>2 DEF Uncrossed
<1>5. y \in 0..999 /\ n \in 0..999 /\ Threshold \in 501..1000
    BY <1>2, LadderAssumption
<1>6. y < Threshold \/ n < Threshold
    BY <1>4, <1>5
<1> QED
    BY <1>1, <1>3, <1>6
-----------------------------------------------------------------------------
(* The invariant. *)

\* A message says what its number changed in the exchange's book.
Fits(m) ==
    /\ m.seq <= Len(hist)
    /\ m.kind = "snapshot" => m.seq = 1 /\ m.book = hist[1]
    /\ m.kind # "snapshot" => m.seq >= 2
    /\ m.kind = "delta" =>
        hist[m.seq] = Level(hist[m.seq - 1], m.side, m.price,
                            hist[m.seq - 1][m.side][m.price] + m.change)
    /\ m.kind = "size" =>
        hist[m.seq] = Level(hist[m.seq - 1], m.side, m.price, m.size)

PipeFits == \A i \in 1..Len(pipe) : Fits(pipe[i])

\* Numbers arrive in order, the snapshot before all others.
PipeOrdered ==
    /\ \A i, j \in 1..Len(pipe) : i < j => pipe[i].seq <= pipe[j].seq
    /\ \A i \in 1..Len(pipe) : pipe[i].kind = "snapshot" => i = 1

\* Once the snapshot is read, what is still to come is not older.
Reading ==
    base # NotRead =>
        /\ lastSeq \in 1..Len(hist)
        /\ gaps >= base.gaps /\ parseErrors >= base.errors
        /\ \A i \in 1..Len(pipe) : pipe[i].kind # "snapshot" /\ lastSeq <= pipe[i].seq

Closed == ~connected => pipe = <<>> /\ base = NotRead

HistUncrossed == \A i \in 1..Len(hist) : Uncrossed(hist[i])

TopIsShown == top = Tops(local)

BookInv ==
    /\ TypeOK
    /\ PipeFits /\ PipeOrdered
    /\ Reading /\ Closed
    /\ HistUncrossed /\ TopIsShown
    /\ DriftIsConfined
-----------------------------------------------------------------------------
(* Each action preserves it. *)

LEMMA ChangeKeeps ==
    ASSUME BookInv,
           NEW s \in Sides, NEW p \in Prices, NEW n \in Sizes, Change(s, p, n)
    PROVE  BookInv'
<1> DEFINE new == Level(TrueBook, s, p, n)
<1>1. /\ hist \in Seq(Books) /\ Len(hist) \in 1..MaxSeq /\ Len(hist) \in Nat
      /\ TrueBook \in Books /\ n \in Nat
    BY LadderAssumption DEF BookInv, TypeOK, TrueBook, Sizes
<1>2. new \in Books /\ Uncrossed(new)
    BY <1>1, LevelType DEF Change
<1>3. UNCHANGED <<connected, conns, local, lastSeq, gaps, duplicates, parseErrors, top, base>>
    BY DEF Change, bookVars
<1>4. CASE ~connected
  <2>1. pipe = <<>> /\ base = NotRead /\ pipe' = <<>> /\ hist' = <<new>>
    BY <1>4 DEF Change, BookInv, Closed
  <2>2. TypeOK'
    <3>1. hist' \in Seq(Books) /\ Len(hist') \in 1..MaxSeq
      BY <1>2, <2>1, LadderAssumption
    <3>2. pipe' = pipe
      BY <2>1
    <3> QED
      BY <1>3, <3>1, <3>2 DEF BookInv, TypeOK
  <2>3. PipeFits' /\ PipeOrdered' /\ Reading' /\ Closed' /\ HistUncrossed'
    BY <1>2, <1>3, <2>1 DEF PipeFits, PipeOrdered, Reading, Closed, HistUncrossed
  <2>4. TopIsShown' /\ DriftIsConfined'
    BY <1>3, <2>1 DEF BookInv, TopIsShown, DriftIsConfined, NothingCounted
  <2> QED
    BY <2>2, <2>3, <2>4 DEF BookInv
<1>5. CASE connected
  <2>1. Len(hist) < MaxSeq /\ hist' = Append(hist, new)
    BY <1>5 DEF Change
  <2>2. /\ hist' \in Seq(Books) /\ Len(hist') = Len(hist) + 1
        /\ \A i \in 1..Len(hist) : hist'[i] = hist[i]
        /\ hist'[Len(hist) + 1] = new
    BY <1>1, <1>2, <2>1
  <2>3. ASSUME NEW m \in Messages(s, p, n)
        PROVE  /\ m \in SnapshotMsgs \cup DeltaMsgs \cup SizeMsgs
               /\ m.seq = Len(hist) + 1 /\ m.kind # "snapshot" /\ Fits(m)'
    <3>1. TrueBook[s][p] \in Nat /\ Len(hist) + 1 \in 1..MaxSeq
      BY <1>1, <2>1, LadderAssumption DEF Books
    <3>2. hist'[Len(hist) + 1] = Level(TrueBook, s, p, n) /\ hist'[Len(hist)] = TrueBook
      BY <1>1, <2>2 DEF TrueBook
    <3>3. CASE m \in [kind : {"delta"}, seq : {Len(hist) + 1}, side : {s}, price : {p},
                      change : {n - TrueBook[s][p]}, reads : Reads]
      <4>1. /\ m.kind = "delta" /\ m.seq = Len(hist) + 1 /\ m.side = s /\ m.price = p
            /\ m.change = n - TrueBook[s][p]
        BY <3>3
      <4>2. m \in DeltaMsgs
        BY <1>1, <3>1, <3>3 DEF DeltaMsgs
      <4>3. TrueBook[s][p] + m.change = n
        BY <1>1, <3>1, <4>1
      <4>4. Len(hist) \in Nat /\ Len(hist) >= 1 /\ (Len(hist) + 1) - 1 = Len(hist)
        BY <1>1, LadderAssumption
      <4> QED
        BY <2>2, <3>2, <4>1, <4>2, <4>3, <4>4 DEF Fits
    <3>4. CASE m \in [kind : {"size"}, seq : {Len(hist) + 1}, side : {s}, price : {p},
                      size : {n}, reads : Reads]
      <4>1. /\ m.kind = "size" /\ m.seq = Len(hist) + 1 /\ m.side = s /\ m.price = p
            /\ m.size = n
        BY <3>4
      <4>2. m \in SizeMsgs
        BY <1>1, <3>1, <3>4 DEF SizeMsgs
      <4>3. Len(hist) \in Nat /\ Len(hist) >= 1 /\ (Len(hist) + 1) - 1 = Len(hist)
        BY <1>1, LadderAssumption
      <4> QED
        BY <2>2, <3>2, <4>1, <4>2, <4>3 DEF Fits
    <3> QED
      BY <3>3, <3>4 DEF Messages
  <2>4. /\ pipe' \in Seq(SnapshotMsgs \cup DeltaMsgs \cup SizeMsgs)
        /\ Len(pipe) \in Nat /\ Len(pipe') \in Nat /\ Len(pipe) <= Len(pipe')
        /\ \A i \in 1..Len(pipe) : pipe'[i] = pipe[i]
        /\ \A i \in 1..Len(pipe') : i > Len(pipe) => pipe'[i] \in Messages(s, p, n)
    <3>1. pipe \in Seq(SnapshotMsgs \cup DeltaMsgs \cup SizeMsgs)
      BY DEF BookInv, TypeOK
    <3>2. CASE pipe' = pipe
      BY <3>1, <3>2
    <3>3. ASSUME NEW m \in Messages(s, p, n), pipe' = Append(pipe, m)
          PROVE  <2>4!:
      BY <2>3, <3>1, <3>3
    <3>4. ASSUME NEW m \in Messages(s, p, n), pipe' = pipe \o <<m, m>>
          PROVE  <2>4!:
      BY <2>3, <3>1, <3>4
    <3> QED
      BY <1>5, <3>2, <3>3, <3>4 DEF Change
  <2>5. TypeOK'
    <3>1. Len(hist') \in 1..MaxSeq
      BY <1>1, <2>1, <2>2, LadderAssumption
    <3> QED
      BY <1>3, <2>2, <2>4, <3>1 DEF BookInv, TypeOK
  <2>6. \A i \in 1..Len(pipe) : Fits(pipe[i])'
    <3> TAKE i \in 1..Len(pipe)
    <3>1. /\ Fits(pipe[i]) /\ pipe'[i] = pipe[i]
          /\ pipe[i] \in SnapshotMsgs \cup DeltaMsgs \cup SizeMsgs
      BY <2>4 DEF BookInv, PipeFits, TypeOK
    <3>2. pipe[i].seq \in 1..Len(hist) /\ pipe[i].kind \in {"snapshot", "delta", "size"}
      BY <1>1, <3>1 DEF Fits, SnapshotMsgs, DeltaMsgs, SizeMsgs
    <3>3. /\ hist'[pipe[i].seq] = hist[pipe[i].seq]
          /\ pipe[i].seq >= 2 => hist'[pipe[i].seq - 1] = hist[pipe[i].seq - 1]
          /\ hist'[1] = hist[1]
      BY <1>1, <2>2, <3>2
    <3> QED
      BY <1>1, <2>2, <3>1, <3>2, <3>3 DEF Fits
  <2>7. PipeFits'
    BY <2>3, <2>4, <2>6 DEF PipeFits
  <2>8. \A i \in 1..Len(pipe) : pipe[i].seq \in 1..Len(hist)
    BY <1>1 DEF BookInv, TypeOK, PipeFits, Fits, SnapshotMsgs, DeltaMsgs, SizeMsgs
  <2>9. \A i \in 1..Len(pipe') :
          IF i <= Len(pipe) THEN pipe'[i] = pipe[i]
          ELSE pipe'[i].seq = Len(hist) + 1 /\ pipe'[i].kind # "snapshot"
    BY <2>3, <2>4
  <2>10. PipeOrdered'
    BY <1>1, <2>4, <2>8, <2>9 DEF BookInv, PipeOrdered
  <2>11. Reading'
    BY <1>1, <1>3, <2>2, <2>4, <2>9 DEF BookInv, Reading
  <2>12. Closed' /\ HistUncrossed' /\ TopIsShown'
    BY <1>1, <1>2, <1>3, <1>5, <2>2 DEF BookInv, Closed, HistUncrossed, TopIsShown
  <2>13. DriftIsConfined'
    BY <1>1, <1>3, <2>2 DEF BookInv, DriftIsConfined, NothingCounted, Reading
  <2> QED
    BY <2>5, <2>7, <2>10, <2>11, <2>12, <2>13 DEF BookInv
<1> QED
    BY <1>4, <1>5

LEMMA SubscribeKeeps ==
    ASSUME BookInv, Subscribe
    PROVE  BookInv'
<1>1. /\ hist \in Seq(Books) /\ Len(hist) \in 1..MaxSeq /\ TrueBook \in Books
      /\ Uncrossed(TrueBook)
    BY LadderAssumption DEF BookInv, TypeOK, TrueBook, HistUncrossed
<1>2. hist' = <<TrueBook>> /\ connected' = TRUE /\ conns' = conns + 1 /\ conns < MaxConns
    BY DEF Subscribe
<1>3. UNCHANGED <<local, lastSeq, gaps, duplicates, parseErrors, top, base>> /\ base = NotRead
    BY DEF Subscribe, bookVars, BookInv, Closed
<1>4. PICK parses \in BOOLEAN :
        pipe' = <<[kind |-> "snapshot", seq |-> 1, book |-> TrueBook, parses |-> parses]>>
    BY DEF Subscribe
<1> DEFINE m == [kind |-> "snapshot", seq |-> 1, book |-> TrueBook, parses |-> parses]
<1>5. m \in SnapshotMsgs
    BY <1>1, LadderAssumption DEF SnapshotMsgs
<1>6. TypeOK'
  <2>1. hist' \in Seq(Books) /\ Len(hist') \in 1..MaxSeq
    BY <1>1, <1>2, LadderAssumption
  <2>2. pipe' \in Seq(SnapshotMsgs \cup DeltaMsgs \cup SizeMsgs)
    BY <1>4, <1>5
  <2>3. conns' \in 0..MaxConns
    BY <1>2, LadderAssumption DEF BookInv, TypeOK
  <2> QED
    BY <1>2, <1>3, <2>1, <2>2, <2>3 DEF BookInv, TypeOK
<1>7. /\ Len(hist') = 1 /\ hist'[1] = TrueBook
      /\ Len(pipe') = 1 /\ pipe'[1].kind = "snapshot" /\ pipe'[1].seq = 1
      /\ pipe'[1].book = TrueBook
    BY <1>2, <1>4
<1>8. PipeFits' /\ PipeOrdered'
    BY <1>7 DEF PipeFits, PipeOrdered, Fits
<1>9. Reading' /\ Closed' /\ DriftIsConfined'
    BY <1>2, <1>3 DEF Reading, Closed, DriftIsConfined, NothingCounted
<1>10. HistUncrossed' /\ TopIsShown'
    BY <1>1, <1>3, <1>7 DEF BookInv, HistUncrossed, TopIsShown
<1> QED
    BY <1>6, <1>8, <1>9, <1>10 DEF BookInv

LEMMA DropKeeps ==
    ASSUME BookInv, Drop
    PROVE  BookInv'
<1>1. /\ hist \in Seq(Books) /\ Len(hist) \in 1..MaxSeq /\ TrueBook \in Books
      /\ Uncrossed(TrueBook)
    BY LadderAssumption DEF BookInv, TypeOK, TrueBook, HistUncrossed
<1>2. /\ hist' = <<TrueBook>> /\ connected' = FALSE /\ pipe' = <<>> /\ base' = NotRead
      /\ UNCHANGED <<conns, local, lastSeq, gaps, duplicates, parseErrors, top>>
    BY DEF Drop, bookVars
<1>3. TypeOK'
  <2>1. hist' \in Seq(Books) /\ Len(hist') \in 1..MaxSeq
    BY <1>1, <1>2, LadderAssumption
  <2>2. pipe' \in Seq(SnapshotMsgs \cup DeltaMsgs \cup SizeMsgs)
    BY <1>2
  <2> QED
    BY <1>2, <2>1, <2>2 DEF BookInv, TypeOK
<1>4. PipeFits' /\ PipeOrdered' /\ Reading' /\ Closed' /\ DriftIsConfined'
    BY <1>2 DEF PipeFits, PipeOrdered, Reading, Closed, DriftIsConfined, NothingCounted
<1>5. HistUncrossed' /\ TopIsShown'
    BY <1>1, <1>2 DEF BookInv, HistUncrossed, TopIsShown
<1> QED
    BY <1>3, <1>4, <1>5 DEF BookInv

\* Taking the head of the pipe leaves the messages after it in order.
LEMMA ReceiveKeeps ==
    ASSUME BookInv, NEW kinds, Receive(kinds)
    PROVE  LET m == Head(pipe) IN
           /\ m \in SnapshotMsgs \cup DeltaMsgs \cup SizeMsgs
           /\ m.kind \in kinds /\ Fits(m) /\ m.seq \in 1..Len(hist)
           /\ connected
           /\ UNCHANGED <<hist, connected, conns>>
           /\ pipe' \in Seq(SnapshotMsgs \cup DeltaMsgs \cup SizeMsgs)
           /\ PipeFits' /\ PipeOrdered'
           /\ \A i \in 1..Len(pipe') :
                pipe'[i].kind # "snapshot" /\ m.seq <= pipe'[i].seq
           /\ base # NotRead => m.kind # "snapshot" /\ lastSeq <= m.seq
<1> DEFINE m == Head(pipe)
<1> DEFINE Msgs == SnapshotMsgs \cup DeltaMsgs \cup SizeMsgs
<1>1. pipe \in Seq(Msgs) /\ pipe # <<>> /\ pipe' = Tail(pipe)
    BY DEF Receive, BookInv, TypeOK
<1>2. UNCHANGED <<hist, connected, conns>> /\ m.kind \in kinds
    BY DEF Receive
<1> HIDE DEF Msgs
<1>3. /\ m \in Msgs /\ m = pipe[1] /\ 1 \in 1..Len(pipe)
      /\ pipe' \in Seq(Msgs) /\ Len(pipe') = Len(pipe) - 1 /\ Len(pipe) \in Nat
      /\ \A i \in 1..Len(pipe') : pipe'[i] = pipe[i + 1] /\ i + 1 \in 1..Len(pipe)
    BY <1>1
<1>4. Fits(m) /\ connected
    BY <1>1, <1>3 DEF BookInv, PipeFits, Closed
<1>5. m.seq \in 1..Len(hist)
  <2>1. m.seq \in 1..MaxSeq /\ Len(hist) \in 1..MaxSeq
    BY <1>3 DEF Msgs, BookInv, TypeOK, SnapshotMsgs, DeltaMsgs, SizeMsgs
  <2>2. m.seq <= Len(hist)
    BY <1>4 DEF Fits
  <2> QED
    BY <2>1, <2>2, LadderAssumption
<1>6. PipeFits'
  <2>1. ASSUME NEW i \in 1..Len(pipe') PROVE Fits(pipe[i])'
    <3>1. Fits(pipe[i + 1]) /\ pipe'[i] = pipe[i + 1]
      BY <1>3 DEF BookInv, PipeFits
    <3> QED
      BY <1>2, <3>1 DEF Fits
  <2> QED
    BY <2>1 DEF PipeFits
<1>7. PipeOrdered'
  <2>1. \A i, j \in 1..Len(pipe') : i < j => i + 1 < j + 1
    BY <1>3
  <2>2. \A i \in 1..Len(pipe') : i + 1 # 1
    BY <1>3
  <2> QED
    BY <1>3, <2>1, <2>2 DEF BookInv, PipeOrdered
<1>8. \A i \in 1..Len(pipe') : pipe'[i].kind # "snapshot" /\ m.seq <= pipe'[i].seq
  <2>1. \A i \in 1..Len(pipe') : i + 1 # 1 /\ 1 < i + 1
    BY <1>3
  <2> QED
    BY <1>3, <2>1 DEF BookInv, PipeOrdered
<1>9. base # NotRead => m.kind # "snapshot" /\ lastSeq <= m.seq
    BY <1>3 DEF BookInv, Reading
<1> QED
    BY <1>2, <1>3, <1>4, <1>5, <1>6, <1>7, <1>8, <1>9 DEF Msgs

LEMMA OnSnapshotKeeps ==
    ASSUME BookInv, OnSnapshot
    PROVE  BookInv'
<1> DEFINE m == Head(pipe)
<1>1. /\ m \in SnapshotMsgs \cup DeltaMsgs \cup SizeMsgs
      /\ m.kind = "snapshot" /\ Fits(m) /\ m.seq \in 1..Len(hist)
      /\ connected
      /\ UNCHANGED <<hist, connected, conns>>
      /\ pipe' \in Seq(SnapshotMsgs \cup DeltaMsgs \cup SizeMsgs)
      /\ PipeFits' /\ PipeOrdered'
      /\ \A i \in 1..Len(pipe') : pipe'[i].kind # "snapshot" /\ m.seq <= pipe'[i].seq
      /\ base = NotRead
    BY ReceiveKeeps DEF OnSnapshot
<1>2. m \in SnapshotMsgs
    BY <1>1 DEF DeltaMsgs, SizeMsgs
<1>3. m.seq = 1 /\ m.book = hist[1] /\ m.book \in Books /\ 1 \in 1..MaxSeq
    BY <1>1, <1>2, LadderAssumption DEF Fits, SnapshotMsgs
<1>4. UNCHANGED <<gaps, duplicates>> /\ gaps \in Nat /\ parseErrors \in Nat
    BY DEF OnSnapshot, BookInv, TypeOK
<1>5. Closed' /\ HistUncrossed'
    BY <1>1 DEF BookInv, Closed, HistUncrossed
<1>6. CASE m.parses
  <2>1. /\ local' = Extracted(m.book) /\ top' = Tops(Extracted(m.book))
        /\ lastSeq' = 1 /\ UNCHANGED parseErrors
        /\ base' = [read |-> TRUE, gaps |-> gaps, errors |-> parseErrors,
                    readable |-> Readable(m.book), dropped |-> {}]
    BY <1>3, <1>6 DEF OnSnapshot, Show
  <2>2. /\ base'.gaps = gaps /\ base'.errors = parseErrors
        /\ base'.readable = (Extracted(m.book) = m.book)
        /\ base' \in [read : {TRUE}, gaps : Nat, errors : Nat, readable : BOOLEAN,
                      dropped : SUBSET (Sides \X Prices)]
    BY <1>4, <2>1 DEF Readable
  <2>3. TypeOK'
    <3>1. local' \in Books /\ top' \in [Sides -> Prices \cup {0}]
      BY <1>3, <2>1, ExtractedType, TopsType
    <3>2. lastSeq' \in 0..MaxSeq
      BY <1>3, <2>1
    <3> QED
      BY <1>1, <1>4, <2>1, <2>2, <3>1, <3>2 DEF BookInv, TypeOK
  <2>4. Reading'
    BY <1>1, <1>3, <1>4, <2>1, <2>2 DEF Reading
  <2>5. TopIsShown' /\ DriftIsConfined'
    BY <1>1, <1>3, <2>1, <2>2 DEF TopIsShown, DriftIsConfined, NothingCounted
  <2> QED
    BY <1>1, <1>5, <2>3, <2>4, <2>5 DEF BookInv
<1>7. CASE ~m.parses
  <2>1. parseErrors' = parseErrors + 1 /\ UNCHANGED <<local, top, lastSeq, base>>
    BY <1>7 DEF OnSnapshot
  <2>2. TypeOK'
    <3>1. parseErrors' \in Nat
      BY <1>4, <2>1
    <3> QED
      BY <1>1, <1>4, <2>1, <3>1 DEF BookInv, TypeOK
  <2>3. Reading' /\ TopIsShown' /\ DriftIsConfined'
    BY <1>1, <2>1 DEF BookInv, Reading, TopIsShown, DriftIsConfined, NothingCounted
  <2> QED
    BY <1>1, <1>5, <2>2, <2>3 DEF BookInv
<1> QED
    BY <1>6, <1>7

LEMMA OnDuplicateKeeps ==
    ASSUME BookInv, OnDuplicate
    PROVE  BookInv'
<1> DEFINE m == Head(pipe)
<1>1. /\ m.seq \in 1..Len(hist) /\ connected
      /\ UNCHANGED <<hist, connected, conns>>
      /\ pipe' \in Seq(SnapshotMsgs \cup DeltaMsgs \cup SizeMsgs)
      /\ PipeFits' /\ PipeOrdered'
      /\ \A i \in 1..Len(pipe') : pipe'[i].kind # "snapshot" /\ m.seq <= pipe'[i].seq
    BY ReceiveKeeps DEF OnDuplicate
<1>2. /\ m.seq = lastSeq /\ duplicates' = duplicates + 1
      /\ UNCHANGED <<local, lastSeq, gaps, parseErrors, top, base>>
    BY DEF OnDuplicate, IsDuplicate
<1>3. TypeOK'
  <2>1. duplicates' \in Nat
    BY <1>2 DEF BookInv, TypeOK
  <2> QED
    BY <1>1, <1>2, <2>1 DEF BookInv, TypeOK
<1>4. Reading' /\ Closed'
    BY <1>1, <1>2 DEF BookInv, Reading, Closed
<1>5. HistUncrossed' /\ TopIsShown' /\ DriftIsConfined'
    BY <1>1, <1>2 DEF BookInv, HistUncrossed, TopIsShown, DriftIsConfined, NothingCounted
<1> QED
    BY <1>1, <1>3, <1>4, <1>5 DEF BookInv

\* With no gap counted the message is the next one, and it carries the
\* ladder to the exchange's next book.
LEMMA OnDeltaKeeps ==
    ASSUME BookInv, OnDelta
    PROVE  BookInv'
<1> DEFINE m == Head(pipe)
<1> DEFINE k == m.seq
<1>1. /\ m \in SnapshotMsgs \cup DeltaMsgs \cup SizeMsgs
      /\ m.kind \in {"delta", "size"} /\ Fits(m) /\ k \in 1..Len(hist)
      /\ connected
      /\ UNCHANGED <<hist, connected, conns>>
      /\ pipe' \in Seq(SnapshotMsgs \cup DeltaMsgs \cup SizeMsgs)
      /\ PipeFits' /\ PipeOrdered'
      /\ \A i \in 1..Len(pipe') : pipe'[i].kind # "snapshot" /\ k <= pipe'[i].seq
      /\ base # NotRead => lastSeq <= k
    BY ReceiveKeeps DEF OnDelta
<1>2. m \in DeltaMsgs \cup SizeMsgs
    BY <1>1 DEF SnapshotMsgs
<1>3. /\ m.side \in Sides /\ m.price \in Prices /\ k \in 1..MaxSeq
      /\ m.kind = "delta" => m.change \in Int
      /\ m.kind = "size" => m.size \in Nat
    BY <1>2 DEF DeltaMsgs, SizeMsgs
<1>4. /\ ~IsDuplicate(m) /\ gaps' = gaps + GapBefore(m) /\ lastSeq' = k
      /\ UNCHANGED duplicates
      /\ base' = IF base = NotRead THEN base
                 ELSE [base EXCEPT !.dropped = Uncounted(m)]
    BY DEF OnDelta
<1>5. /\ gaps \in Nat /\ parseErrors \in Nat /\ local \in Books /\ lastSeq \in Nat
      /\ hist \in Seq(Books) /\ Len(hist) \in Nat
    BY LadderAssumption DEF BookInv, TypeOK
<1>6. GapBefore(m) \in Nat /\ k \in Nat
  <2>1. k \in Nat
    BY <1>3
  <2> HIDE DEF k
  <2>2. (IF lastSeq # NoSeq /\ k > lastSeq + 1 THEN k - lastSeq - 1 ELSE 0) \in Nat
    BY <1>5, <2>1
  <2> USE DEF k
  <2> QED
    BY <2>1, <2>2 DEF GapBefore
<1>7. NewSize(m) \in Nat
  <2>1. local[m.side][m.price] \in Nat
    BY <1>3, <1>5 DEF Books
  <2>2. CASE m.kind = "delta"
    BY <1>3, <2>1, <2>2 DEF NewSize
  <2>3. CASE m.kind = "size"
    BY <1>3, <2>1, <2>3 DEF NewSize
  <2> QED
    BY <1>1, <2>2, <2>3
<1>8. /\ m.reads = "whole" => /\ local' = Level(local, m.side, m.price, NewSize(m))
                              /\ top' = Tops(local')
      /\ m.reads # "whole" => UNCHANGED <<local, top>>
      /\ m.reads = "garbled" => parseErrors' = parseErrors + 1
      /\ m.reads # "garbled" => parseErrors' = parseErrors
      /\ m.reads \in Reads
  <2>1. m.reads \in Reads
    BY <1>2 DEF DeltaMsgs, SizeMsgs
  <2>2. parseErrors' = parseErrors + (IF m.reads = "garbled" THEN 1 ELSE 0)
    BY DEF OnDelta
  <2>3. IF m.reads = "whole"
        THEN Show(Level(local, m.side, m.price, NewSize(m)))
        ELSE UNCHANGED <<local, top>>
    BY DEF OnDelta
  <2> QED
    BY <1>5, <2>1, <2>2, <2>3 DEF Show
<1>9. /\ local' \in Books /\ top' = Tops(local') /\ parseErrors' \in Nat
      /\ parseErrors <= parseErrors' /\ gaps' \in Nat /\ gaps <= gaps'
  <2>1. m.reads = "whole" => local' \in Books
    BY <1>3, <1>5, <1>7, <1>8, LevelType
  <2>2. top' = Tops(local')
    BY <1>8 DEF BookInv, TopIsShown
  <2>3. parseErrors' \in Nat /\ parseErrors <= parseErrors'
    BY <1>5, <1>8
  <2>4. gaps' \in Nat /\ gaps <= gaps'
    BY <1>4, <1>5, <1>6
  <2> QED
    BY <1>5, <1>8, <2>1, <2>2, <2>3, <2>4
\* Of the base only the levels dropped uncounted change.
<1>10. /\ base = NotRead => base' = NotRead
       /\ base # NotRead =>
            /\ base' # NotRead /\ base'.dropped = Uncounted(m)
            /\ base'.gaps = base.gaps /\ base'.errors = base.errors
            /\ base'.readable = base.readable
            /\ base' \in [read : {TRUE}, gaps : Nat, errors : Nat, readable : BOOLEAN,
                          dropped : SUBSET (Sides \X Prices)]
  <2>1. CASE base = NotRead
    BY <1>4, <2>1
  <2>2. CASE base # NotRead
    <3>1. base \in [read : {TRUE}, gaps : Nat, errors : Nat, readable : BOOLEAN,
                    dropped : SUBSET (Sides \X Prices)]
      BY <2>2 DEF BookInv, TypeOK
    <3>2. base' = [base EXCEPT !.dropped = Uncounted(m)]
      BY <1>4, <2>2
    <3>3. Uncounted(m) \in SUBSET (Sides \X Prices)
      <4>1. <<m.side, m.price>> \in Sides \X Prices /\ base.dropped \in SUBSET (Sides \X Prices)
        BY <1>3, <3>1
      <4> QED
        BY <4>1 DEF Uncounted
    <3>4. base'.read = TRUE
      BY <3>1, <3>2
    <3> QED
      BY <2>2, <3>1, <3>2, <3>3, <3>4 DEF NotRead
  <2> QED
    BY <2>1, <2>2
<1>11. TypeOK'
  <2>1. top' \in [Sides -> Prices \cup {0}]
    BY <1>9, TopsType
  <2>2. lastSeq' \in 0..MaxSeq
    BY <1>3, <1>4
  <2>3. base' \in {NotRead} \cup [read : {TRUE}, gaps : Nat, errors : Nat,
                                 readable : BOOLEAN,
                                 dropped : SUBSET (Sides \X Prices)]
    BY <1>10
  <2> QED
    BY <1>1, <1>4, <1>9, <2>1, <2>2, <2>3 DEF BookInv, TypeOK
<1>12. Reading'
  <2>1. CASE base = NotRead
    BY <1>10, <2>1 DEF Reading
  <2>2. CASE base # NotRead
    <3>1. gaps >= base.gaps /\ parseErrors >= base.errors /\ base.gaps \in Nat /\ base.errors \in Nat
      BY <2>2 DEF BookInv, Reading, TypeOK
    <3>2. gaps' >= base'.gaps /\ parseErrors' >= base'.errors
      BY <1>5, <1>9, <1>10, <2>2, <3>1
    <3> QED
      BY <1>1, <1>4, <3>2 DEF Reading
  <2> QED
    BY <2>1, <2>2
<1>13. Closed' /\ HistUncrossed' /\ TopIsShown'
    BY <1>1, <1>9, <1>10 DEF BookInv, Closed, HistUncrossed, TopIsShown
<1>14. ASSUME NothingCounted', NEW s \in Sides, NEW p \in Prices,
              <<s, p>> \notin base'.dropped
       PROVE  local'[s][p] = hist'[lastSeq'][s][p]
  <2>1. base # NotRead /\ base.readable /\ gaps' = base.gaps /\ parseErrors' = base.errors
    BY <1>14, <1>10 DEF NothingCounted
  <2>2. gaps >= base.gaps /\ parseErrors >= base.errors /\ lastSeq \in 1..Len(hist) /\ lastSeq <= k
    BY <1>1, <2>1 DEF BookInv, Reading
  <2>3. gaps = base.gaps /\ parseErrors = base.errors /\ GapBefore(m) = 0 /\ m.reads # "garbled"
    BY <1>4, <1>5, <1>6, <1>8, <1>9, <2>1, <2>2
  <2>4. <<s, p>> \notin base.dropped => local[s][p] = hist[lastSeq][s][p]
    BY <2>1, <2>3 DEF BookInv, DriftIsConfined, NothingCounted
  <2>5. k = lastSeq + 1
    <3>1. k # lastSeq /\ (k > lastSeq + 1 => k - lastSeq - 1 = 0)
      BY <1>4, <2>2, <2>3 DEF IsDuplicate, GapBefore, NoSeq
    <3> HIDE DEF k
    <3> QED
      BY <1>5, <1>6, <2>2, <3>1
  <2>6. /\ hist[k] \in Books /\ k - 1 = lastSeq /\ hist[lastSeq] \in Books
        /\ hist'[lastSeq'] = hist[k]
    BY <1>1, <1>4, <1>5, <2>2, <2>5
  <2>7. <<s, p>> \notin Uncounted(m)
    BY <1>14, <1>10, <2>1
  <2>8. \E n \in Int : hist[k] = Level(hist[lastSeq], m.side, m.price, n)
    <3>1. hist[lastSeq][m.side][m.price] \in Nat
      BY <1>3, <2>6 DEF Books
    <3>2. CASE m.kind = "delta"
      BY <1>1, <1>3, <2>6, <3>1, <3>2 DEF Fits
    <3>3. CASE m.kind = "size"
      BY <1>1, <1>3, <2>6, <3>3 DEF Fits
    <3> QED
      BY <1>1, <3>2, <3>3
  <2>9. CASE <<s, p>> # <<m.side, m.price>>
    <3>1. <<s, p>> \notin base.dropped
      BY <2>7, <2>9 DEF Uncounted
    <3>2. hist[k][s][p] = hist[lastSeq][s][p]
      BY <1>3, <2>6, <2>8, <2>9 DEF Level, Books
    <3>3. local'[s][p] = local[s][p]
      BY <1>3, <1>5, <1>8, <2>9 DEF Level, Books
    <3> QED
      BY <2>4, <2>6, <3>1, <3>2, <3>3
  <2>10. CASE s = m.side /\ p = m.price
    <3>1. m.reads = "whole"
      BY <1>8, <2>3, <2>7, <2>10 DEF Uncounted, Reads
    <3>2. local'[s][p] = NewSize(m)
      BY <1>3, <1>5, <1>7, <1>8, <2>10, <3>1, LevelType
    <3> DEFINE now == hist[lastSeq][s][p]
    <3>3. now \in Nat
      BY <2>6 DEF Books
    <3>4. CASE m.kind = "delta"
      <4>1. local[s][p] = now
        BY <2>4, <2>7, <2>10, <3>1, <3>4 DEF Uncounted
      <4>2. hist[k] = Level(hist[lastSeq], s, p, now + m.change)
        BY <1>1, <2>6, <2>10, <3>4 DEF Fits
      <4>3. hist[k][s][p] = now + m.change
        BY <2>6, <4>2 DEF Level, Books
      <4>4. now + m.change \in Nat
        BY <2>6, <4>3 DEF Books
      <4>5. NewSize(m) = now + m.change
        BY <2>10, <3>4, <4>1, <4>4 DEF NewSize
      <4> QED
        BY <2>6, <3>2, <4>3, <4>5
    <3>5. CASE m.kind = "size"
      <4>1. hist[k] = Level(hist[lastSeq], s, p, m.size)
        BY <1>1, <2>6, <2>10, <3>5 DEF Fits
      <4>2. hist[k][s][p] = m.size
        BY <2>6, <4>1 DEF Level, Books
      <4>3. NewSize(m) = m.size
        BY <1>3, <3>5 DEF NewSize
      <4> QED
        BY <2>6, <3>2, <4>2, <4>3
    <3> QED
      BY <1>1, <3>4, <3>5
  <2> QED
    BY <2>9, <2>10
<1> QED
    BY <1>1, <1>11, <1>12, <1>13, <1>14 DEF BookInv, DriftIsConfined
-----------------------------------------------------------------------------
LEMMA InitBookInv ==
    ASSUME Init
    PROVE  BookInv
<1>1. PICK b \in [Sides -> [Prices -> Sizes]] : Uncrossed(b) /\ hist = <<b>>
    BY DEF Init
<1>2. b \in Books
    BY DEF Sizes, Books
<1>3. hist \in Seq(Books) /\ Len(hist) \in 1..MaxSeq /\ Len(hist) = 1 /\ hist[1] = b
    BY <1>1, <1>2, LadderAssumption
<1>4. EmptyBook \in Books
    BY DEF EmptyBook, EmptySide, Books
<1>5. top \in [Sides -> Prices \cup {0}] /\ TopIsShown
    BY <1>4, TopsType DEF Init, TopIsShown
<1>6. TypeOK
  <2>1. /\ connected = FALSE /\ pipe = <<>> /\ base = NotRead /\ local = EmptyBook
        /\ conns = 0 /\ lastSeq = 0 /\ gaps = 0 /\ duplicates = 0 /\ parseErrors = 0
    BY DEF Init, NoSeq
  <2>2. conns \in 0..MaxConns /\ lastSeq \in 0..MaxSeq
    BY <2>1, LadderAssumption
  <2>3. pipe \in Seq(SnapshotMsgs \cup DeltaMsgs \cup SizeMsgs)
    BY <2>1
  <2> QED
    BY <1>3, <1>4, <1>5, <2>1, <2>2, <2>3 DEF TypeOK
<1>7. PipeFits /\ PipeOrdered /\ Reading /\ Closed /\ DriftIsConfined
    BY DEF Init, PipeFits, PipeOrdered, Reading, Closed, DriftIsConfined, NothingCounted
<1>8. HistUncrossed
    BY <1>1, <1>3 DEF HistUncrossed
<1> QED
    BY <1>5, <1>6, <1>7, <1>8 DEF BookInv

LEMMA StepKeeps ==
    ASSUME BookInv, [Next]_vars
    PROVE  BookInv'
<1>1. ASSUME NEW s \in Sides, NEW p \in Prices, NEW n \in Sizes, Change(s, p, n)
      PROVE  BookInv'
    BY <1>1, ChangeKeeps
<1>2. CASE Subscribe
    BY <1>2, SubscribeKeeps
<1>3. CASE Drop
    BY <1>3, DropKeeps
<1>4. CASE OnSnapshot
    BY <1>4, OnSnapshotKeeps
<1>5. CASE OnDuplicate
    BY <1>5, OnDuplicateKeeps
<1>6. CASE OnDelta
    BY <1>6, OnDeltaKeeps
<1>7. CASE UNCHANGED vars
  <2>1. UNCHANGED <<hist, connected, pipe, conns, local, lastSeq, gaps, duplicates,
                    parseErrors, top, base>>
    BY <1>7 DEF vars, bookVars
  <2>2. TypeOK' /\ TopIsShown'
    BY <2>1 DEF BookInv, TypeOK, TopIsShown
  <2>3. PipeFits' /\ PipeOrdered'
    BY <2>1 DEF BookInv, PipeFits, Fits, PipeOrdered
  <2>4. Reading' /\ Closed' /\ HistUncrossed'
    BY <2>1 DEF BookInv, Reading, Closed, HistUncrossed
  <2>5. DriftIsConfined'
    BY <2>1 DEF BookInv, DriftIsConfined, NothingCounted
  <2> QED
    BY <2>2, <2>3, <2>4, <2>5 DEF BookInv
<1> QED
    BY <1>1, <1>2, <1>3, <1>4, <1>5, <1>6, <1>7 DEF Next

\* The ladder, its counters and what travels to it stay within their types.
THEOREM TypeCorrect == Spec => []TypeOK
<1>1. Init => BookInv
    BY InitBookInv
<1>2. BookInv /\ [Next]_vars => BookInv'
    BY StepKeeps
<1>3. BookInv => TypeOK
    BY DEF BookInv
<1> QED
    BY <1>1, <1>2, <1>3, PTL DEF Spec

\* While neither the gap counter nor the parse-error counter has moved since
\* the snapshot, the ladder is the exchange's at last_seq but for the levels
\* whose delta came without its side, price or amount.
THEOREM DriftConfined == Spec => []DriftIsConfined
<1>1. Init => BookInv
    BY InitBookInv
<1>2. BookInv /\ [Next]_vars => BookInv'
    BY StepKeeps
<1>3. BookInv => DriftIsConfined
    BY DEF BookInv
<1> QED
    BY <1>1, <1>2, <1>3, PTL DEF Spec

LEMMA FavoriteFollows ==
    ASSUME BookInv
    PROVE  FavoriteIsReal
<1> SUFFICES ASSUME NothingCounted, base.dropped = {}
             PROVE  /\ Favorite(top) = Favorite(Tops(hist[lastSeq]))
                    /\ \E s \in Sides : top[s] < Threshold
    BY DEF FavoriteIsReal
<1>1. local = hist[lastSeq] /\ top = Tops(local) /\ local \in Books
  <2>1. \A s \in Sides, p \in Prices : local[s][p] = hist[lastSeq][s][p]
    BY DEF BookInv, DriftIsConfined
  <2>2. local \in Books /\ hist[lastSeq] \in Books /\ top = Tops(local)
    BY LadderAssumption DEF BookInv, TypeOK, TopIsShown, Reading, NothingCounted
  <2> QED
    BY <2>1, <2>2, SameLevels
<1>2. Uncrossed(local)
    BY <1>1 DEF BookInv, HistUncrossed, Reading, NothingCounted
<1> QED
    BY <1>1, <1>2, OneFavorite

\* While no such delta came either, the favorite read from the last BookEvent is the
\* market's, and it is the only side at or above the threshold.
THEOREM FavoriteHolds == Spec => []FavoriteIsReal
<1>1. Init => BookInv
    BY InitBookInv
<1>2. BookInv /\ [Next]_vars => BookInv'
    BY StepKeeps
<1>3. BookInv => FavoriteIsReal
    BY FavoriteFollows
<1> QED
    BY <1>1, <1>2, <1>3, PTL DEF Spec
=============================================================================
