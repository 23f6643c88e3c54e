------------------------------ MODULE Amounts ------------------------------
(***************************************************************************)
(* The integer arithmetic of quotes and rates: calculation/uniswap.rs      *)
(* (constant product pools) and the rate functions of estimator.rs.        *)
(* A pool's state is its pair of reserves; a token is 0 or 1.              *)
(***************************************************************************)
EXTENDS Integers

CONSTANTS
  RateScale    \* RATE_SCALE: decimal digits of a rate

ASSUME ScaleAssumption == RateScale \in Nat

FeeBase == 10000

\* uniswap_v2_out: what a pool with reserve_in and reserve_out gives for amount_in.
V2Out(amount_in, reserve_in, reserve_out, fee) ==
  (amount_in * fee * reserve_out) \div (reserve_in * FeeBase + amount_in * fee)

\* compute_amount_out on a pool in state res with token_in going in.
AmountOut(res, token_in, fee, amount_in) ==
  IF token_in = 0 THEN V2Out(amount_in, res[1], res[2], fee)
                  ELSE V2Out(amount_in, res[2], res[1], fee)

\* 10u64.pow(n), as the product it is.
PowTen[n \in Nat] == IF n = 0 THEN 1 ELSE 10 * PowTen[n - 1]

\* scale_to_rate: from a token's decimals to those of a rate.
ScaleToRate(amount, decimals) ==
  IF decimals <= RateScale THEN amount * PowTen[RateScale - decimals]
                           ELSE amount \div PowTen[decimals - RateScale]

\* calculate_rate: output per input, zero when the input is.
CalculateRate(input, output, in_decimals, out_decimals) ==
  LET in  == ScaleToRate(input, in_decimals)
      out == ScaleToRate(output, out_decimals)
  IN  IF in = 0 THEN 0 ELSE (out * PowTen[RateScale]) \div in

\* process_eth_pool, once it has the two quotes: what input WETH gives and what
\* that gives back.  weth is the number of the pool's WETH token; decimals maps a
\* token number to its decimals.  The rate out of WETH is stored under token 0
\* and the rate into it under token 1, whichever of them is WETH.
EthPoolRates(weth, decimals, input, alt_output, other_output) ==
  LET alt == 1 - weth
  IN  [t \in {0, 1} |->
         IF t = 0 THEN CalculateRate(input, alt_output, decimals[weth], decimals[alt])
                  ELSE CalculateRate(alt_output, other_output, decimals[alt], decimals[weth])]

=============================================================================
