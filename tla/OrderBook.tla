----------------------------- MODULE OrderBook -----------------------------
(***************************************************************************)
(* The ladder of one market as feeds/kalshi_ws.py keeps it: replaced by    *)
(* the snapshot that follows a subscription, then changed by numbered      *)
(* deltas.  A gap in the numbers is counted and not repaired, a message    *)
(* whose numbers do not parse is counted and dropped, one that leaves out  *)
(* its side, price or amount is dropped and not counted, and the ladder of *)
(* a closed connection stays until the next snapshot.                      *)
(*                                                                         *)
(* The exchange numbers the messages of a connection from 1, the snapshot; *)
(* the network may leave a message out or deliver it twice in a row.       *)
(***************************************************************************)
EXTENDS Integers, Sequences, FiniteSetsExt

CONSTANTS Prices,      \* price levels, in deci-cents
          Threshold,   \* rules.FAVORITE_THRESHOLD_DECICENTS
          MaxSize,     \* contracts at a level
          MaxSeq, MaxPipe, MaxConns   \* bounds of the model

ASSUME LadderAssumption ==
    /\ Prices \subseteq 1..999
    /\ Threshold \in 501..1000
    /\ MaxSize \in Nat /\ MaxSeq \in Nat \ {0} /\ MaxPipe \in Nat /\ MaxConns \in Nat

VARIABLES
    hist,      \* the exchange's book after each message of the connection
    connected,
    pipe,      \* messages on the connection
    conns,
    \* books[ticker] and the counters of the feed
    local,     \* yes_bids and no_bids
    lastSeq,   \* last_seq
    gaps, duplicates,
    parseErrors,
    top,       \* best bids of the last BookEvent
    \* history
    base       \* the counters at this connection's snapshot, once it is read,
               \* and the levels whose message was dropped uncounted since

bookVars == <<local, lastSeq, gaps, duplicates, parseErrors, top>>
vars == <<hist, connected, pipe, conns, bookVars, base>>

Sides == {"yes", "no"}
Sizes == 0..MaxSize
Books == [Sides -> [Prices -> Nat]]
EmptySide == [p \in Prices |-> 0]
EmptyBook == [s \in Sides |-> EmptySide]
NoSeq == 0                       \* last_seq before the first snapshot
NotRead == [read |-> FALSE]

Bids(side) == {p \in Prices : side[p] > 0}

\* The best bids cannot meet: the exchange would have matched them.
Uncrossed(book) ==
    \A p \in Bids(book["yes"]), q \in Bids(book["no"]) : p + q < 1000

TrueBook == hist[Len(hist)]
-----------------------------------------------------------------------------
(* _extract_levels, _build_book_event and rules.select_favorite *)

\* A snapshot that lists no YES bid is read as an empty book.
Extracted(book) == IF Bids(book["yes"]) = {} THEN EmptyBook ELSE book

\* What the reading of a snapshot must not change.
Readable(book) == Extracted(book) = book

BestBid(side) == Max(Bids(side) \cup {0})

Tops(book) == [s \in Sides |-> BestBid(book[s])]

Favorite(tops) ==
    CASE tops["yes"] >= Threshold -> "yes"
      [] tops["yes"] < Threshold /\ tops["no"] >= Threshold -> "no"
      [] OTHER -> "none"
-----------------------------------------------------------------------------
SnapshotMsgs == [kind : {"snapshot"}, seq : 1..MaxSeq, book : Books, parses : BOOLEAN]

\* How a delta reads: all of it; with a side, a price and an amount of which
\* one is no number; or without one of the three.
Reads == {"whole", "garbled", "bare"}

DeltaMsgs == [kind : {"delta"}, seq : 1..MaxSeq, side : Sides, price : Prices,
              change : Int, reads : Reads]
SizeMsgs == [kind : {"size"}, seq : 1..MaxSeq, side : Sides, price : Prices,
             size : Nat, reads : Reads]

TypeOK ==
    /\ hist \in Seq(Books) /\ Len(hist) \in 1..MaxSeq
    /\ connected \in BOOLEAN
    /\ pipe \in Seq(SnapshotMsgs \cup DeltaMsgs \cup SizeMsgs)
    /\ conns \in 0..MaxConns
    /\ local \in Books
    /\ lastSeq \in 0..MaxSeq
    /\ gaps \in Nat /\ duplicates \in Nat /\ parseErrors \in Nat
    /\ top \in [Sides -> Prices \cup {0}]
    /\ base \in {NotRead} \cup [read : {TRUE}, gaps : Nat, errors : Nat,
                                readable : BOOLEAN,
                                dropped : SUBSET (Sides \X Prices)]

Init ==
    /\ hist \in {<<b>> : b \in {b \in [Sides -> [Prices -> Sizes]] : Uncrossed(b)}}
    /\ connected = FALSE /\ pipe = <<>> /\ conns = 0
    /\ local = EmptyBook /\ lastSeq = NoSeq
    /\ gaps = 0 /\ duplicates = 0 /\ parseErrors = 0
    /\ top = Tops(EmptyBook)
    /\ base = NotRead
-----------------------------------------------------------------------------
(* The exchange and the network. *)

Level(book, s, p, n) == [book EXCEPT ![s][p] = n]

\* A level of the book changes; the message gives the change or the new size.
Messages(s, p, n) ==
    LET seq == Len(hist) + 1 IN
    [kind : {"delta"}, seq : {seq}, side : {s}, price : {p},
     change : {n - TrueBook[s][p]}, reads : Reads]
    \cup [kind : {"size"}, seq : {seq}, side : {s}, price : {p},
          size : {n}, reads : Reads]

Change(s, p, n) ==
    /\ n # TrueBook[s][p]
    /\ Uncrossed(Level(TrueBook, s, p, n))
    /\ IF connected
       THEN /\ Len(hist) < MaxSeq
            /\ hist' = Append(hist, Level(TrueBook, s, p, n))
            /\ \/ UNCHANGED pipe                          \* left out
               \/ \E m \in Messages(s, p, n) :
                    \/ pipe' = Append(pipe, m)
                    \/ pipe' = pipe \o <<m, m>>           \* delivered twice
            /\ Len(pipe') <= MaxPipe
       ELSE /\ hist' = <<Level(TrueBook, s, p, n)>>
            /\ UNCHANGED pipe
    /\ UNCHANGED <<connected, conns, bookVars, base>>

\* events and _subscribe: the exchange answers with a snapshot.
Subscribe ==
    /\ ~connected /\ conns < MaxConns
    /\ connected' = TRUE /\ conns' = conns + 1
    /\ hist' = <<TrueBook>>
    /\ \E parses \in BOOLEAN :
        pipe' = <<[kind |-> "snapshot", seq |-> 1, book |-> TrueBook, parses |-> parses]>>
    /\ UNCHANGED <<bookVars, base>>

\* What was on the connection is gone; the books stay.
Drop ==
    /\ connected
    /\ connected' = FALSE /\ pipe' = <<>>
    /\ hist' = <<TrueBook>>
    /\ base' = NotRead
    /\ UNCHANGED <<conns, bookVars>>
-----------------------------------------------------------------------------
(* _dispatch *)

Receive(kinds) ==
    /\ pipe # <<>> /\ Head(pipe).kind \in kinds
    /\ pipe' = Tail(pipe)
    /\ UNCHANGED <<hist, connected, conns>>

\* _build_book_event
Show(book) == local' = book /\ top' = Tops(book)

\* Mutant: the snapshot is laid over the ladder of the last connection.
SnapshotMerged ==
    /\ Receive({"snapshot"})
    /\ LET m == Head(pipe) IN
        IF m.parses
        THEN /\ Show([s \in Sides |-> [p \in Prices |->
                        IF m.book[s][p] > 0 THEN m.book[s][p] ELSE local[s][p]]])
             /\ lastSeq' = m.seq
             /\ base' = [read |-> TRUE, gaps |-> gaps, errors |-> parseErrors,
                         readable |-> Readable(m.book), dropped |-> {}]
             /\ UNCHANGED parseErrors
        ELSE /\ parseErrors' = parseErrors + 1
             /\ UNCHANGED <<local, top, lastSeq, base>>
    /\ UNCHANGED <<gaps, duplicates>>

\* _on_snapshot
OnSnapshot ==
    /\ Receive({"snapshot"})
    /\ LET m == Head(pipe) IN
        IF m.parses
        THEN /\ Show(Extracted(m.book))
             /\ lastSeq' = m.seq
             /\ base' = [read |-> TRUE, gaps |-> gaps, errors |-> parseErrors,
                         readable |-> Readable(m.book), dropped |-> {}]
             /\ UNCHANGED parseErrors
        ELSE /\ parseErrors' = parseErrors + 1
             /\ UNCHANGED <<local, top, lastSeq, base>>
    /\ UNCHANGED <<gaps, duplicates>>

\* Mutant: nothing is a duplicate.
NotSeen(m) == FALSE

IsDuplicate(m) == lastSeq # NoSeq /\ m.seq = lastSeq

OnDuplicate ==
    /\ Receive({"delta", "size"})
    /\ IsDuplicate(Head(pipe))
    /\ duplicates' = duplicates + 1
    /\ UNCHANGED <<local, lastSeq, gaps, parseErrors, top, base>>

\* Mutant: the first missing message is forgiven.
GapForgiven(m) == IF lastSeq # NoSeq /\ m.seq > lastSeq + 2 THEN m.seq - lastSeq - 2 ELSE 0

GapBefore(m) == IF lastSeq # NoSeq /\ m.seq > lastSeq + 1 THEN m.seq - lastSeq - 1 ELSE 0

\* Mutant: a level may be owed contracts.
SizeOwed(m) == IF m.kind = "delta" THEN local[m.side][m.price] + m.change ELSE m.size

\* A level at or below nothing leaves the ladder.
NewSize(m) ==
    LET n == IF m.kind = "delta" THEN local[m.side][m.price] + m.change ELSE m.size
    IN  IF n <= 0 THEN 0 ELSE n

\* The levels that may be wrong with no counter moved; a message that gives
\* the size of a level sets it right.
Uncounted(m) ==
    LET level == <<m.side, m.price>> IN
    CASE m.reads = "bare" -> base.dropped \cup {level}
      [] m.reads = "whole" /\ m.kind = "size" -> base.dropped \ {level}
      [] OTHER -> base.dropped

\* _on_delta: the number is taken before the rest of the message is read.
OnDelta ==
    /\ Receive({"delta", "size"})
    /\ LET m == Head(pipe) IN
        /\ ~IsDuplicate(m)
        /\ gaps' = gaps + GapBefore(m)
        /\ lastSeq' = m.seq
        /\ IF m.reads = "whole"
           THEN Show(Level(local, m.side, m.price, NewSize(m)))
           ELSE UNCHANGED <<local, top>>
        /\ parseErrors' = parseErrors + (IF m.reads = "garbled" THEN 1 ELSE 0)
        /\ base' = IF base = NotRead THEN base
                   ELSE [base EXCEPT !.dropped = Uncounted(m)]
    /\ UNCHANGED duplicates

Next ==
    \/ \E s \in Sides, p \in Prices, n \in Sizes : Change(s, p, n)
    \/ Subscribe \/ Drop
    \/ OnSnapshot \/ OnDuplicate \/ OnDelta

Spec == Init /\ [][Next]_vars
-----------------------------------------------------------------------------
(* Properties. *)

\* No counter has moved since the snapshot of this connection was read, and
\* the snapshot was one that _extract_levels reads right.
NothingCounted ==
    /\ base # NotRead /\ base.readable
    /\ gaps = base.gaps /\ parseErrors = base.errors

\* Drift is counted or stays where a message named too little: while no
\* counter has moved, every level but those whose delta was dropped uncounted
\* is the exchange's after the last message heard, duplicates or not.
DriftIsConfined ==
    NothingCounted =>
        \A s \in Sides, p \in Prices :
            <<s, p>> \notin base.dropped => local[s][p] = hist[lastSeq][s][p]

\* ... and while nothing was dropped uncounted either, the favorite the
\* strategy was shown is the only one there was.
FavoriteIsReal ==
    NothingCounted /\ base.dropped = {} =>
        /\ Favorite(top) = Favorite(Tops(hist[lastSeq]))
        /\ \E s \in Sides : top[s] < Threshold
=============================================================================
