----------------------------- MODULE MCDataLayer -----------------------------
(***************************************************************************)
(* Constant values for checking DataLayer with TLC.  A unit of time is     *)
(* 500 ms, so that the two supported frequencies are 1 and 2.              *)
(***************************************************************************)
EXTENDS DataLayer

L(p, v) == [price |-> p, volume |-> v]
B(bids, asks) == [bids |-> bids, asks |-> asks]

Good    == B(<< L(100, 30), L(99, 1) >>, << L(101, 10), L(102, 3) >>)
Higher  == B(<< L(103, 1), L(102, -1) >>, << L(106, 50), L(0, 2) >>)
Thin    == B(<< L(100, 1) >>, << L(101, 1) >>)
WideOne == B(<< L(90, 1) >>, << L(110, 1) >>)
Crossed == B(<< L(101, 1) >>, << L(101, 1) >>)
Empty   == B(<< L(100, -2) >>, << L(101, 2) >>)
Unpriced == B(<< L(Missing, 1) >>, << L(101, 1) >>)

Kinds == {Good, Higher, Thin, WideOne, Crossed, Empty, Unpriced}
Times == 1 .. 4      \* pre-market, two of the session, post-market
Row(kind, ts) == [recv |-> ts, clock |-> ts, bids |-> kind.bids, asks |-> kind.asks]
Late(row) == [row EXCEPT !.recv = Unread, !.clock = 4]

AnyRow == {Row(kind, ts) : kind \in Kinds, ts \in Times}
Plain  == {Row(kind, ts) : kind \in {Good, Higher}, ts \in {1, 2, 4}} \cup {Row(WideOne, 2), Row(Thin, 2)}

\* Days in one file, whose rows may come in any order and at the same time, some
\* with a receive time nobody can read, and days in two files.
OneFile  == {<< << r >> >> : r \in AnyRow \cup {Late(Row(Good, 1))}}
TwoRows  == {<< << r, s >> >> : r \in AnyRow, s \in AnyRow}
ThreeRows == {<< << r, s, Row(kind, 3) >> >> : r \in Plain, s \in Plain, kind \in {Good, Higher}}
FourRows == {<< << Row(Good, 1), r, s, Row(Good, 4) >> >> : r \in Plain, s \in Plain}
TwoFiles == {<< << r >>, << Late(s), Row(Higher, 3) >> >> : r \in Plain, s \in Plain}

FirstDay == {<< >>, << << Row(Good, 2), Row(Higher, 3) >> >>, << << Row(Higher, 1) >> >>,
             << << Row(Crossed, 2) >> >>}
MCDays == << FirstDay, OneFile \cup TwoRows \cup ThreeRows \cup FourRows \cup TwoFiles, FirstDay >>

T(ts, price, side) == [ts |-> ts, price |-> price, volume |-> ts, side |-> side]
MCTrades == {<<>>, << T(2, 101, "buy") >>, << T(2, 100, "sell"), T(1, 101, "buy"), T(4, 103, "buy") >>}
=============================================================================
