------------------------------ MODULE MCReplay ------------------------------
(* A market with two books, a trade and two settlement rows, of which either *)
(* may be unreadable or say the opposite, a second market with a book, and   *)
(* spot both in the capture and as a bar.  Stamps are absent, two before the *)
(* receipt, or one after it; the market closes at 4, and a book may be       *)
(* received after.                                                           *)
EXTENDS Replay
CONSTANTS one, two, btc
MCCryptoOf == [t \in Tickers |-> btc]
MCStrike == [t \in Tickers |-> 1]
MCOpenAt == [t \in Tickers |-> 0]
MCTickerRank == [t \in Tickers |-> IF t = one THEN 0 ELSE 1]
MCCryptoRank == [c \in Cryptos |-> 0]

Row(id, kind, about, sides, num, recvs, delays) ==
    {[id |-> id, kind |-> kind, about |-> about, side |-> v, num |-> num, recv |-> at,
      ex |-> IF d = NoStamp THEN NoStamp ELSE at - d] :
        v \in sides, at \in recvs, d \in delays}

Late == {NoStamp, 2}

Ahead(rows) == {[r EXCEPT !.ex = r.recv + 1] : r \in rows}

\* The first book is a favorite at 90c, or lacks its ask, or has no favorite.
AllCaptures ==
    {{b1, b2, d1, d2, c, q1, q2, bar} :
        b1 \in Row(1, "book", one, {"yes"}, 90, {2}, Late)
                 \cup Row(1, "book", one, {"no", Nothing}, 100, {2}, {NoStamp}),
        b2 \in Row(2, "book", one, {"yes"}, 90, {3, 5, 7}, Late)
                 \cup Ahead(Row(2, "book", one, {"yes"}, 90, {3}, {NoStamp})),
        d1 \in Row(3, "settled", one, Sides \cup {Unreadable}, 0, {6}, {NoStamp}),
        d2 \in Row(4, "settled", one, {"yes"}, 0, {6, 7}, Late),
        c \in Row(5, "book", two, {"yes"}, 90, {3}, {0, 2})
                \cup Row(5, "trade", one, {Nothing}, 0, {3}, {0}),
        q1 \in LET q == Row(6, "spot", btc, {Nothing}, 2, {2}, Late) IN q \cup Ahead(q),
        q2 \in Row(7, "spot", btc, {Nothing}, 0, {4, 5}, Late),
        bar \in Row(8, "bar", btc, {Nothing}, 2, {1, 6}, {NoStamp})}

MCCaptures == {C \in AllCaptures : IsCapture(C)}
=============================================================================
