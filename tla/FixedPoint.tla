----------------------------- MODULE FixedPoint -----------------------------
(***************************************************************************)
(* The integer arithmetic of pkg/fixed and of internal/settlement: share   *)
(* quantities and prices are integers at a scale, money is whole cents,    *)
(* and every conversion to cents rounds half up.  The scales are           *)
(* parameters (the code has 10^6, 10^6 and 100) so that TLC can use small  *)
(* ones and the proofs hold for every choice.                              *)
(***************************************************************************)
EXTENDS Integers

CONSTANTS ShareScale,   \* units of one share
          PriceScale,   \* units of a price of 1, the value of a winning share
          CentsScale    \* cents of one unit of currency

ASSUME ScaleAssumption ==
    /\ ShareScale \in Nat \ {0}
    /\ PriceScale \in Nat \ {0}
    /\ CentsScale \in Nat \ {0}

Sides == {"buy", "sell"}

\* A price is strictly between 0 and 1.
Prices == 1 .. PriceScale - 1

(***************************************************************************)
(* Division of naturals rounding half up.                                  *)
(***************************************************************************)
DivideRounded(value, denominator) ==
    (value \div denominator)
        + (IF 2 * (value % denominator) >= denominator THEN 1 ELSE 0)

\* The value in cents of a number of shares at a price.
ProductCents(shares, price) ==
    DivideRounded(shares * price * CentsScale, ShareScale * PriceScale)

\* A seller is exposed to the complement of the price.
ExposurePrice(side, price) ==
    IF side = "sell" THEN PriceScale - price ELSE price

\* What an order of that side locks for shares at its limit price.
CollateralCents(side, shares, price) ==
    ProductCents(shares, ExposurePrice(side, price))

\* What a taker gets back for shares matched at a better price than its limit.
PriceImprovementCents(side, shares, limit, matched) ==
    LET difference == IF side = "sell" THEN matched - limit ELSE limit - matched
    IN  IF difference <= 0 THEN 0 ELSE ProductCents(shares, difference)

\* Winning shares are redeemed at par.
PayoutCents(shares) == DivideRounded(shares * CentsScale, ShareScale)

(***************************************************************************)
(* The stakes of the two sides of a trade at settlement: the seller's is   *)
(* the rest of the pot, so that a single trade always balances.            *)
(***************************************************************************)
StakeCents(side, shares, matched) ==
    IF side = "buy"
    THEN CollateralCents("buy", shares, matched)
    ELSE PayoutCents(shares) - CollateralCents("buy", shares, matched)
=============================================================================
