---------------------------- MODULE StakeShares ----------------------------
(***************************************************************************)
(* Coins in several denominations, and the exchange between the tokens and *)
(* the delegator shares of a validator (x/mstaking/types/validator.go).    *)
(* Coins and shares are functions from denominations to numbers; shares    *)
(* are decimals.  `val' is a record with fields tokens and shares.         *)
(***************************************************************************)
EXTENDS Decimals, FiniteSetsExt

CONSTANT Denoms

(***************************************************************************)
(* Coins and decimals.                                                     *)
(***************************************************************************)
Zero == [d \in Denoms |-> 0]
Plus(x, y) == [d \in Denoms |-> x[d] + y[d]]
Minus(x, y) == [d \in Denoms |-> x[d] - y[d]]
Least(x, y) == [d \in Denoms |-> IF x[d] <= y[d] THEN x[d] ELSE y[d]]
AllGTE(x, y) == \A d \in Denoms : x[d] >= y[d]
Total(F(_), S) == [d \in Denoms |-> MapThenSumSet(LAMBDA e : F(e)[d], S)]

MulDec(x, f) == [d \in Denoms |-> Mul(x[d], f)]
\* NewDecCoinsFromCoins(c).MulDec(f).TruncateDecimal().
Fraction(c, f) == [d \in Denoms |-> (c[d] * f) \div Prec]

(***************************************************************************)
(* Validator arithmetic.                                                   *)
(***************************************************************************)
\* Coins list no denomination with a zero amount, so the loop sees none.
InvalidExRate(val) ==
  LET listed == {d \in Denoms : val.tokens[d] # 0}
  IN \E d \in listed : val.tokens[d] = 0 /\ val.shares[d] > 0

SharesFromTokens(val, amt) ==
  [d \in Denoms |-> IF val.tokens[d] = 0 THEN amt[d] * Prec
                    ELSE (val.shares[d] * amt[d]) \div val.tokens[d]]

\* The token worth of shares, the fraction of a token dropped.
TokensFromShares(val, sh) ==
  [d \in Denoms |-> IF sh[d] = 0 THEN 0
                    ELSE TruncateInt(Quo(sh[d] * val.tokens[d], val.shares[d]))]

\* The tokens that leave with the shares: the last shares take all.
TokensIssued(val, sh) ==
  IF Minus(val.shares, sh) = Zero THEN val.tokens ELSE TokensFromShares(val, sh)

RemoveDelShares(val, sh) ==
  [val EXCEPT !.tokens = Minus(@, TokensIssued(val, sh)), !.shares = Minus(@, sh)]

\* The token worth of shares as decimals, truncated or rounded.
StakeTruncated(val, sh) ==
  [d \in Denoms |-> IF sh[d] = 0 THEN 0
                    ELSE QuoTruncate(sh[d] * val.tokens[d], val.shares[d])]
StakeRounded(val, sh) ==
  [d \in Denoms |-> IF sh[d] = 0 THEN 0 ELSE Quo(sh[d] * val.tokens[d], val.shares[d])]
=============================================================================
