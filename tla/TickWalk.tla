------------------------------ MODULE TickWalk ------------------------------
(***************************************************************************)
(* uniswap_v3_out: what a pool of concentrated liquidity gives for an      *)
(* amount.  The swap walks from one stretch of liquidity to the next, each *)
(* step up to the next tick that the bitmap shows within a word, for which *)
(* the code loads three words around the current one.  The read lock is    *)
(* held throughout.                                                        *)
(*                                                                         *)
(* Prices are whole units on a scale that has Unit units to a tick, and a  *)
(* move by one unit takes and gives the liquidity once.  A word has Word   *)
(* bits.  Amounts are small: nothing overflows.                            *)
(***************************************************************************)
EXTENDS Integers, FiniteSetsExt, SequencesExt

CONSTANTS
  Swaps,            \* [pool, price, tick, liquidity, amount, zero_to_one] to be quoted
  MinTick, MaxTick, \* ticks that have a price
  Spacing,          \* tick_spacing
  Word,             \* bits in a word of the bitmap: 256
  Unit,             \* units of the price to a tick
  FeeParts          \* of each FeeParts + 1 parts put in, one is the fee

ASSUME WalkAssumption ==
  /\ MinTick < 0 /\ 0 < MaxTick
  /\ {Spacing, Word, Unit, FeeParts} \subseteq Nat \ {0}
\* A pool is its initialised ticks, with their net liquidity.
ASSUME SwapAssumption ==
  \A s \in Swaps : /\ s.amount \in Nat /\ s.liquidity \in Nat
                   /\ \A t \in DOMAIN s.pool : t % Spacing = 0 /\ t \in MinTick .. MaxTick

VARIABLES
  swap,        \* the swap being quoted
  remaining,   \* current_state.amount_specified_remaining
  calculated,  \* - current_state.amount_calculated
  price,       \* current_state.sqrt_price_x_96
  tick, liquidity,
  pc           \* "loop", "done" or "failed"

vars == <<swap, remaining, calculated, price, tick, liquidity, pc>>

Net == swap.pool
\* Rust divides towards zero, TLA+ and the tick library towards the lower number.
Quotient(a, b) == IF a < 0 THEN -((-a) \div b) ELSE a \div b

PriceAt(t)  == t * Unit
TickAt(p)   == p \div Unit
PriceLimit  == IF swap.zero_to_one THEN PriceAt(MinTick) + 1 ELSE PriceAt(MaxTick) - 1
Clamp(t)    == IF t < MinTick THEN MinTick ELSE IF t > MaxTick THEN MaxTick ELSE t

Init ==
  /\ swap \in Swaps
  /\ remaining = swap.amount /\ calculated = 0
  /\ price = swap.price /\ tick = swap.tick /\ liquidity = swap.liquidity
  /\ pc = "loop"

\* Mutant: the word of the tick and the one after it.
WordsAhead(t) ==
  LET word_pos == Quotient(t, Spacing) \div Word IN word_pos .. word_pos + 1

\* The words that the code loads at tick t.
Words(t) == LET word_pos == Quotient(t, Spacing) \div Word IN word_pos - 1 .. word_pos + 1

\* The initialised ticks in words: what tick_bitmap shows.
Shown(words) == {t \in DOMAIN Net : (t \div Spacing) \div Word \in words}

\* next_initialized_tick_within_one_word: the next tick that is shown in the word of
\* the current one, or else the last tick of that word.
NextTick(words) ==
  LET from  == IF swap.zero_to_one THEN tick \div Spacing ELSE tick \div Spacing + 1
      word  == from \div Word
      shown == {t \div Spacing : t \in Shown(words \intersect {word})}
      found == {c \in shown : IF swap.zero_to_one THEN c <= from ELSE c >= from}
  IN  [initialized |-> found # {},
       tick |-> Spacing * IF swap.zero_to_one
                            THEN IF found # {} THEN Max(found) ELSE word * Word
                            ELSE IF found # {} THEN Min(found) ELSE word * Word + Word - 1]

\* compute_swap_step: up to the price target, or as far as the rest of the amount,
\* less the fee, goes; whatever the last step does not use is fee.
SwapStep(from, target, l, rest) ==
  LET distance == IF target < from THEN from - target ELSE target - from
      net      == (rest * FeeParts) \div (FeeParts + 1)
      reached  == l * distance <= net
      moved    == IF reached THEN distance ELSE net \div l
  IN  [price |-> IF target < from THEN from - moved ELSE from + moved,
       in  |-> IF reached THEN l * moved + (l * moved + FeeParts - 1) \div FeeParts ELSE rest,
       out |-> l * moved]

\* Mutant: the sign is that of an upward crossing.
CrossedUp(l, t) == l + Net[t]

\* The liquidity past tick t, crossed in the direction of the swap.
Crossed(l, t) == IF swap.zero_to_one THEN l - Net[t] ELSE l + Net[t]

\* One turn of the loop.
Iterate ==
  /\ pc = "loop" /\ remaining # 0 /\ price # PriceLimit
  /\ LET next   == NextTick(Words(tick))
         t      == Clamp(next.tick)
         target == IF swap.zero_to_one THEN Max({PriceAt(t), PriceLimit})
                                       ELSE Min({PriceAt(t), PriceLimit})
         step   == SwapStep(price, target, liquidity, remaining)
     IN  /\ remaining' = remaining - step.in
         /\ calculated' = calculated + step.out
         /\ price' = step.price
         /\ liquidity' = IF step.price = PriceAt(t) /\ next.initialized
                           THEN Crossed(liquidity, t) ELSE liquidity
         /\ tick' = CASE step.price = PriceAt(t) /\ swap.zero_to_one -> t - 1
                      [] step.price = PriceAt(t) /\ ~swap.zero_to_one -> t
                      [] step.price # PriceAt(t) /\ step.price # price -> TickAt(step.price)
                      [] OTHER -> tick
  /\ pc' = IF liquidity' < 0 THEN "failed" ELSE "loop"
  /\ UNCHANGED swap

Finish ==
  /\ pc = "loop" /\ (remaining = 0 \/ price = PriceLimit)
  /\ pc' = "done"
  /\ UNCHANGED <<swap, remaining, calculated, price, tick, liquidity>>

Next == Iterate \/ Finish

\* The calculation runs on.
Spec == Init /\ [][Next]_vars /\ WF_vars(Next)

\* compute_amount_out takes an error for an output of zero.
Output == IF pc = "failed" THEN 0 ELSE calculated

------------------------------------------------------------------------------
(* Properties *)

\* The swap on the list of all initialised ticks, without words: from each tick on
\* the way to the next, and last to the limit.
Ahead == IF swap.zero_to_one THEN {t \in DOMAIN Net : t <= swap.tick}
                             ELSE {t \in DOMAIN Net : t > swap.tick}
Stretch(s, t) ==
  LET step == SwapStep(s.price, PriceAt(t), s.liquidity, s.rest)
      l    == Crossed(s.liquidity, t)
  IN  IF s.rest = 0 \/ s.failed THEN s
      ELSE [price |-> step.price, rest |-> s.rest - step.in, out |-> s.out + step.out,
            liquidity |-> IF step.price = PriceAt(t) THEN l ELSE s.liquidity,
            failed |-> step.price = PriceAt(t) /\ l < 0]
Reference ==
  LET ticks == SetToSortSeq(Ahead, LAMBDA a, b : IF swap.zero_to_one THEN a > b ELSE a < b)
      start == [price |-> swap.price, rest |-> swap.amount, out |-> 0,
                liquidity |-> swap.liquidity, failed |-> FALSE]
      end   == FoldLeft(Stretch, start, ticks)
  IN  IF end.failed THEN 0
      ELSE end.out + SwapStep(end.price, PriceLimit, end.liquidity, end.rest).out

\* The liquidity that the pool's ticks say there is at tick t.
LiquidityAt(t) == MapThenSumSet(LAMBDA i : Net[i], {i \in DOMAIN Net : i <= t})

\* The state of the loop; and while it holds a liquidity the pool started with in
\* agreement with its ticks, that is the liquidity at the tick it has come to.
TypeOK ==
  /\ swap \in Swaps
  /\ pc \in {"loop", "done", "failed"}
  /\ remaining \in 0 .. swap.amount /\ calculated \in 0 .. swap.amount
  /\ price \in PriceAt(MinTick) + 1 .. PriceAt(MaxTick) - 1
  /\ tick \in TickAt(price) - 1 .. TickAt(price)
  /\ pc = "failed" <=> liquidity < 0
  /\ swap.liquidity = LiquidityAt(swap.tick) => liquidity = LiquidityAt(tick)

\* Every quote comes to an end, with what the swap gives on the list of all ticks:
\* the words loaded on the way, whose number is divided towards zero where the
\* library's is not, never hide a tick, and none is crossed twice or left out.
Answers == <>(pc # "loop" /\ Output = Reference)

=============================================================================
