------------------------------ MODULE RiskCaps ------------------------------
(***************************************************************************)
(* Limits on a book of target positions: RiskCaps (gross, net, single      *)
(* position, leverage, applied once each in this order), TurnoverBudget    *)
(* (the trade towards the target is scaled down) and ExposureController    *)
(* (concentration).  A book maps symbols to signed shares; a price list    *)
(* maps some of the symbols to a price, and a symbol without one counts    *)
(* as worthless.  Fractions are percentages of the portfolio value.        *)
(***************************************************************************)
EXTENDS Rounding, Functions

CONSTANTS
  MaxGross,     \* RiskCaps.max_gross_notional
  MaxNet,       \* RiskCaps.max_net_notional
  SinglePct,    \* RiskCaps.max_single_position_pct
  LeveragePct,  \* RiskCaps.max_leverage
  TurnoverPct   \* TurnoverBudget._turnover_limit

ASSUME CapsAssumption ==
  /\ MaxGross \in Nat /\ MaxNet \in Nat
  /\ SinglePct \in Nat /\ LeveragePct \in Nat /\ TurnoverPct \in Nat

-----------------------------------------------------------------------------
(* Exposure *)

PriceOf(prices, s) == IF s \in DOMAIN prices THEN prices[s] ELSE 0
SharesOfBook(book, s) == IF s \in DOMAIN book THEN book[s] ELSE 0

\* _compute_notionals
Notionals(book, prices) == [s \in DOMAIN book |-> book[s] * PriceOf(prices, s)]

Gross(book, prices) ==
  LET n == Notionals(book, prices) IN SumFunction([s \in DOMAIN n |-> Abs(n[s])])
Net(book, prices) == SumFunction(Notionals(book, prices))
LongNotional(book, prices) ==
  LET n == Notionals(book, prices) IN SumFunction([s \in DOMAIN n |-> Greatest(0, n[s])])
ShortNotional(book, prices) ==
  LET n == Notionals(book, prices) IN SumFunction([s \in DOMAIN n |-> Greatest(0, -n[s])])

\* The weight of the heaviest symbol.
Single(book, prices) ==
  LET n == Notionals(book, prices)
  IN CHOOSE w \in {Abs(n[s]) : s \in DOMAIN n} \cup {0} : \A s \in DOMAIN n : Abs(n[s]) <= w

-----------------------------------------------------------------------------
(* RiskCaps *)

\* All positions by the factor limit / gross; the limit is num / den.
ScaleToGross(book, prices, num, den) ==
  LET gross == Gross(book, prices)
  IN IF gross * den <= num \/ gross = 0 THEN book
     ELSE [s \in DOMAIN book |-> Rounded(book[s] * num, gross * den)]

ScaleToNet_LongOnly(book, prices, limit) ==    \* mutant
  LET net  == Net(book, prices)
      leg  == LongNotional(book, prices)
      keep == Greatest(0, leg - (net - limit))
  IN IF net <= limit THEN book
     ELSE [s \in DOMAIN book |->
             IF book[s] > 0 THEN Rounded(book[s] * keep, leg) ELSE book[s]]

\* Only the leg that makes the net too large.
ScaleToNet(book, prices, limit) ==
  LET net  == Net(book, prices)
      leg  == IF net > 0 THEN LongNotional(book, prices) ELSE ShortNotional(book, prices)
      keep == Greatest(0, leg - (Abs(net) - limit))
  IN IF Abs(net) <= limit THEN book
     ELSE [s \in DOMAIN book |->
             IF book[s] * net > 0 THEN Rounded(book[s] * keep, leg) ELSE book[s]]

\* No position above SinglePct of the portfolio value, in whole shares.
CapSingle(book, prices, value) ==
  [s \in DOMAIN book |->
     IF PriceOf(prices, s) = 0 THEN book[s]
     ELSE Sgn(book[s]) * Least(Abs(book[s]), (SinglePct * value) \div (100 * PriceOf(prices, s)))]

\* Gross, net, then (for an account that is worth something) single and leverage.
ApplyCaps(book, prices, value) ==
  LET a == ScaleToGross(book, prices, MaxGross, 1)
      b == ScaleToNet(a, prices, MaxNet)
  IN IF value <= 0 THEN b
     ELSE ScaleToGross(CapSingle(b, prices, value), prices, LeveragePct * value, 100)

\* check: the limits a book breaks.
Violations(book, prices, value) ==
  {v \in {"gross", "net", "leverage", "single"} :
     \/ v = "gross" /\ Gross(book, prices) > MaxGross
     \/ v = "net" /\ Abs(Net(book, prices)) > MaxNet
     \/ v = "leverage" /\ value > 0 /\ 100 * Gross(book, prices) > LeveragePct * value
     \/ v = "single" /\ value > 0 /\ 100 * Single(book, prices) > SinglePct * value}

-----------------------------------------------------------------------------
(* TurnoverBudget *)

\* compute_turnover, times the portfolio value.
Traded(held, book, prices) ==
  LET all == DOMAIN held \cup DOMAIN book
  IN SumFunction([s \in all |->
       Abs(SharesOfBook(book, s) - SharesOfBook(held, s)) * PriceOf(prices, s)])

WithinBudget(held, book, prices, value) ==
  value <= 0 \/ 100 * Traded(held, book, prices) <= TurnoverPct * value

\* The trade of each symbol in the target book by one factor; a symbol that is
\* only held keeps no entry.
Throttle(held, book, prices, value) ==
  IF WithinBudget(held, book, prices, value) THEN book
  ELSE LET traded == Traded(held, book, prices)
       IN [s \in DOMAIN book |->
             SharesOfBook(held, s)
             + Rounded((book[s] - SharesOfBook(held, s)) * TurnoverPct * value, 100 * traded)]

-----------------------------------------------------------------------------
(* ExposureController *)

\* The Herfindahl index is this over the gross exposure squared.
SquaredWeights(book, prices) ==
  LET n == Notionals(book, prices) IN SumFunction([s \in DOMAIN n |-> n[s] * n[s]])

\* check_concentration against a limit of pct hundredths.
Concentrated(book, prices, pct) ==
  LET gross == Gross(book, prices)
  IN gross > 0 /\ 100 * SquaredWeights(book, prices) > pct * gross * gross

\* round(q * sqrt(num / den)): the nearest share, found by squaring.
RootScaled(q, num, den) ==
  Sgn(q) * (CHOOSE r \in 0 .. Abs(q) :
              /\ 4 * q * q * num <= (2 * r + 1) * (2 * r + 1) * den
              /\ r > 0 => 4 * q * q * num > (2 * r - 1) * (2 * r - 1) * den)

\* apply_constraints: every position by sqrt(limit / index), at most by one.
Dilute(book, prices, pct) ==
  LET gross == Gross(book, prices)
  IN IF ~Concentrated(book, prices, pct) THEN book
     ELSE [s \in DOMAIN book |->
             RootScaled(book[s], pct * gross * gross, 100 * SquaredWeights(book, prices))]

\* neutralize_net: the larger leg down to the smaller one.
Neutralize(book, prices) ==
  LET long  == LongNotional(book, prices)
      short == ShortNotional(book, prices)
      heavy == IF long > short THEN 1 ELSE -1
  IN IF long = 0 \/ short = 0 THEN book
     ELSE [s \in DOMAIN book |->
             IF book[s] * heavy > 0
             THEN Rounded(book[s] * Least(long, short), Greatest(long, short))
             ELSE book[s]]

-----------------------------------------------------------------------------
(* What the limits promise of a book, up to the rounding of whole shares *)

\* At most twice what rounding each position to a whole share adds to an exposure.
Slack(book, prices) == SumFunction([s \in DOMAIN book |-> PriceOf(prices, s)])

\* Every position of b is on the way from the one of a to zero.
ShrinksTo(a, b) == \A s \in DOMAIN a : a[s] * b[s] >= 0 /\ Abs(b[s]) <= Abs(a[s])

\* Each limit, but for the net: a later cap may cut the other leg, and an
\* account worth nothing or less skips the last two.
CapsHold(book, prices, value) ==
  LET capped == ApplyCaps(book, prices, value)
      netted == ScaleToNet(ScaleToGross(book, prices, MaxGross, 1), prices, MaxNet)
      slack  == Slack(book, prices)
  IN /\ ShrinksTo(book, capped)
     /\ 2 * Gross(capped, prices) <= 2 * MaxGross + slack
     /\ 2 * Abs(Net(capped, prices)) <= 2 * MaxNet + slack \/ capped # netted
     /\ value > 0 => /\ "single" \notin Violations(capped, prices, value)
                     /\ 200 * Gross(capped, prices) <= 2 * LeveragePct * value + 100 * slack

\* The throttled trade is a part of the one that was asked for.
BudgetHolds(held, target, prices, value) ==
  LET cut == Throttle(held, target, prices, value)
  IN /\ \A s \in DOMAIN held : /\ (cut[s] - held[s]) * (target[s] - held[s]) >= 0
                               /\ Abs(cut[s] - held[s]) <= Abs(target[s] - held[s])
     /\ value > 0 => 200 * Traded(held, cut, prices) <= 2 * TurnoverPct * value + 100 * Slack(held, prices)

\* One factor for all leaves a book of one position as concentrated as it was.
DilutionIsVain(book, prices, pct) ==
  LET thin == Dilute(book, prices, pct)
  IN \A s \in DOMAIN book :
       /\ thin[s] # 0 /\ PriceOf(prices, s) > 0
       /\ \A r \in DOMAIN book \ {s} : book[r] = 0
       => Concentrated(thin, prices, pct)
=============================================================================
