----------------------------- MODULE MCExchange -----------------------------
(***************************************************************************)
(* Instances of the exchange for TLC.  With ShareScale 1 and CentsScale    *)
(* equal to PriceScale every amount is a whole number of cents, as whole   *)
(* shares at whole-cent prices are.  With coarser cents the rounding of    *)
(* pkg/fixed takes part.                                                   *)
(***************************************************************************)
EXTENDS ExchangeProperties, TLC

CONSTANTS u1, u2, u3, yes, no, draw

UserSymmetry == Permutations(Users)

\* A request for the option "yes" of market 1.
Yes(user, side, price, amount, tif) ==
    [user |-> user, currency |-> "USD", market |-> 1, option |-> yes,
     side |-> side, price |-> price, amount |-> amount, tif |-> tif]

In(market, r) == [r EXCEPT !.market = market]

OneMarket  == {1}
TwoMarkets == {1, 2}
ThreeOrders == 1 .. 3
OneEvent(markets) == [m \in markets |-> "e"]
EventOfOne == OneEvent(OneMarket)
EventOfTwo == OneEvent(TwoMarkets)
BinaryOfOne == [m \in OneMarket |-> {yes, no}]
BinaryOfTwo == [m \in TwoMarkets |-> {yes, no}]

\* Only market 2 offers the third outcome of its event.
UnevenOfTwo == [m \in TwoMarkets |-> IF m = 1 THEN {yes, no} ELSE {yes, no, draw}]

\* Everything two users can ask of one book: both sides, two prices, one or
\* two shares, resting and immediate.
BookRequests ==
    {Yes(user, side, price, amount, tif) :
        user \in Users, side \in Sides, price \in {1, 2},
        amount \in {1, 2}, tif \in {"gtc", "ioc"}}

\* Two users who take either side of market 1, in amounts whose payouts round,
\* and share their wallets with market 2.
SharedWalletRequests ==
    {Yes(user, "buy", 1, amount, "gtc") : user \in Users, amount \in {1, 3}}
    \cup {Yes(user, "sell", 1, amount, "gtc") : user \in Users, amount \in {1, 2}}
    \cup {In(2, Yes(user, "sell", 1, 1, "gtc")) : user \in Users}
    \cup {Yes(user, "sell", 1, 2, "ioc") : user \in Users}

\* Whole cents: a seller and two buyers of market 1, whose orders improve on each
\* other's prices and fill partially, and a second market of the seller's.
HeldRequests ==
    {Yes(u1, "sell", 1, amount, "gtc") : amount \in {1, 2}}
    \cup {Yes(u2, "buy", price, 1, "gtc") : price \in {1, 2}}
    \cup {Yes(u3, "buy", 2, 1, "gtc"), Yes(u2, "buy", 2, 2, "gtc")}
    \cup {In(2, Yes(u1, "sell", 1, 1, "gtc"))}
=============================================================================
