---------------------------- MODULE FlashQuoter ----------------------------
(***************************************************************************)
(* FlashQuoter.sol: quoteArbitrage as the simulator calls it.  The call is *)
(* run on the local database and never committed, so a quote is a function *)
(* of the pools' state.                                                    *)
(***************************************************************************)
EXTENDS Swaps

CONSTANTS
  QuoterFee   \* for each pool, what _getFee returns for its factory

ASSUME QuoterAssumption == QuoterFee \in [Pools -> 0 .. PRECISION]

\* One round of the loop; once a round has reverted all is lost.
QuoteStep(w, p) ==
  IF p \in IsV3
    THEN LET sent == V3Sends(w, p)
         IN  IF V3Starts(w, p) /\ CallbackSucceeds(sent, V3Input(w, p))
               THEN {Onward(Callback(sent, p, V3Input(w, p)), p, V3Output(w, p))}
               ELSE {}
    ELSE IF V2Succeeds(w, p, QuoterFee[p]) THEN {SwapV2(w, p, QuoterFee[p])} ELSE {}

\* The quoter holds the input and nothing else when the loop begins.
QuoteStart(reserve, amount) ==
  [reserve |-> reserve, held |-> [t \in Tokens |-> IF t = WETH THEN amount ELSE 0],
   token |-> WETH, amounts |-> <<amount>>]

\* The loop after n rounds: the set of the one world it has come to, or the empty set.
QuoteRun(reserve, path, amount) ==
  LET run[n \in 0 .. Len(path)] ==
        IF n = 0 THEN {QuoteStart(reserve, amount)}
                 ELSE UNION {QuoteStep(w, path[n]) : w \in run[n - 1]}
  IN  run

\* quoteArbitrage: the set of the one array of amounts returned, or the empty set
\* if the call reverts.
Quotes(reserve, path, amount) ==
  {w.amounts : w \in QuoteRun(reserve, path, amount)[Len(path)]}

=============================================================================
