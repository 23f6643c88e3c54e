------------------------------- MODULE Filter -------------------------------
(***************************************************************************)
(* filter.rs: which of the pools on chain the bot works with.  The tokens  *)
(* of the highest volume are fetched page by page, and cached in a file    *)
(* that outlives the process; of the pools between two of them, those are  *)
(* kept in which a swap and its inverse, simulated on the node's state,    *)
(* give most of the input back.  The process may be killed at any point    *)
(* and started again; the ranking of the tokens moves between requests.    *)
(* Chain state rests, and near the tested amount every pool is taken to    *)
(* follow the constant product curve.  Of a list of tokens the code asks   *)
(* only whether a token is in it: it is a set here.  The order in which    *)
(* pools are tried is that of a list nobody sorts: any order is allowed.   *)
(***************************************************************************)
EXTENDS Integers, Sequences, FiniteSets, SequencesExt

CONSTANTS
  Tokens, WETH, Blacklist,
  Pools,       \* the pools that pool_sync lists
  Info,        \* [t0, t1, type, key, reserve, fee] of each pool (see FactoryKey)
  AccessList,  \* per token, [address, storage_keys] items touched by balanceOf
  Implementation, KnownSlots, \* the implementation slot; known_slots, in order
  BalanceSlot, \* per token, where the token really keeps the account's balance
  Rankings,    \* the orders by volume that the tokens may be in: sequences
  NumResults,  \* num_results: 4000
  PageSize,    \* tokens on a full page: 50
  Amount,      \* AMOUNT
  MaxStarts,   \* bound: starts of the process
  MaxMoves     \* bound: changes of the ranking

V2Basic == {"UniswapV2", "SushiSwapV2", "PancakeSwapV2", "BaseSwapV2", "SwapBasedV2",
            "DackieSwapV2", "AlienBaseV2"}
V3Basic == {"UniswapV3", "AlienBaseV3", "DackieSwapV3", "PancakeSwapV3"}
V3Deadline == {"SushiSwapV3", "SwapBasedV3", "BaseSwapV3"}
PoolTypes == V2Basic \union V3Basic \union V3Deadline \union {"Aerodrome", "Slipstream"}

\* What a factory tells the pools of two tokens apart by.
FactoryKey(x) ==
  CASE Info[x].type \in V2Basic  -> 0
    [] Info[x].type = "Aerodrome" -> Info[x].key.stable
    [] Info[x].type = "Slipstream" -> Info[x].key.tick_spacing
    [] OTHER                      -> Info[x].key.fee

Of(x) == {Info[x].t0, Info[x].t1}

ASSUME FetchAssumption ==
  NumResults \in Nat \ {0} /\ PageSize \in Nat \ {0} /\ Rankings \subseteq Seq(Tokens)
ASSUME PoolAssumption ==
  \A x \in Pools : /\ Of(x) \subseteq Tokens /\ Info[x].t0 # Info[x].t1
                   /\ Info[x].type \in PoolTypes
                   /\ Info[x].reserve \in [1 .. 2 -> Nat] /\ Info[x].fee \in 0 .. 999
\* A factory has one pool for two tokens and a key.
ASSUME FactoryAssumption ==
  \A x, y \in Pools :
    Info[x].type = Info[y].type /\ FactoryKey(x) = FactoryKey(y) /\ Of(x) = Of(y) => x = y
\* AMOUNT is 10^15: its 95 percent are a whole number.
ASSUME AmountAssumption == Amount \in Nat \ {0} /\ Amount % 20 = 0

VARIABLES
  ranking, \* the tokens by volume, as the service has them now
  disk,    \* cache/top_volume_tokens_*.json: whether it is there, and the list in it
  pc,      \* where filter_pools is
  queries, \* the pages still to be fetched: [offset, limit]
  top_volume_tokens,
  pools,   \* the pools kept so far; later, those not tried yet
  slot_map,
  nodedb,  \* what was written over the node's state: [cell, allowance, reserve]
  trial,   \* between its two swaps, the pool being tried and what the first gave: [pool, amt]
  filtered_pools,
  starts, moves, \* bounded
  chosen   \* history: the pools that the first start to get through found, or none

vars == <<ranking, disk, pc, queries, top_volume_tokens, pools, slot_map, nodedb, trial,
          filtered_pools, starts, moves, chosen>>

Absent == [file |-> "absent", list |-> {}]
Torn   == [file |-> "torn", list |-> {}]
Whole(list) == [file |-> "whole", list |-> list]

OnChain == [cell |-> {}, allowance |-> {}, reserve |-> [x \in Pools |-> Info[x].reserve]]

Queries ==
  IF NumResults < PageSize THEN <<[offset |-> 0, limit |-> NumResults]>>
  ELSE [i \in 1 .. (NumResults + PageSize - 1) \div PageSize |->
          [offset |-> (i - 1) * PageSize, limit |-> PageSize]]

Init ==
  /\ ranking \in Rankings
  /\ disk = Absent
  /\ pc = "start" /\ starts = 1 /\ moves = 0
  /\ queries = <<>> /\ top_volume_tokens = {} /\ pools = Pools
  /\ slot_map = <<>> /\ nodedb = OnChain /\ trial = {} /\ filtered_pools = {}
  /\ chosen = {}

Rerank ==
  /\ moves < MaxMoves /\ moves' = moves + 1
  /\ ranking' \in Rankings \ {ranking}
  /\ UNCHANGED <<disk, pc, queries, top_volume_tokens, pools, slot_map, nodedb, trial,
                 filtered_pools, starts, chosen>>

\* The process is killed, or ends, and is started again with what is on disk.
Restart ==
  /\ starts < MaxStarts /\ starts' = starts + 1
  /\ pc' = "start"
  /\ queries' = <<>> /\ top_volume_tokens' = {} /\ pools' = Pools
  /\ slot_map' = <<>> /\ nodedb' = OnChain /\ trial' = {} /\ filtered_pools' = {}
  /\ UNCHANGED <<ranking, disk, moves, chosen>>

------------------------------------------------------------------------------
(* The tokens *)

\* Mutant: a list shorter than num_results is fetched again.
ReadOrRefetch ==
  /\ pc = "start" /\ disk # Absent
  /\ CASE disk = Torn -> pc' = "panicked" /\ UNCHANGED <<queries, top_volume_tokens>>
       [] disk # Torn /\ Cardinality(disk.list) < NumResults ->
            pc' = "fetch" /\ queries' = Queries /\ UNCHANGED top_volume_tokens
       [] OTHER -> pc' = "match" /\ top_volume_tokens' = disk.list /\ UNCHANGED queries
  /\ UNCHANGED <<ranking, disk, pools, slot_map, nodedb, trial, filtered_pools, starts,
                 moves, chosen>>

\* get_top_volume_tokens, when the file exists: a file cut short ends the process.
ReadAddresses ==
  /\ pc = "start" /\ disk # Absent
  /\ IF disk = Torn
       THEN pc' = "panicked" /\ UNCHANGED top_volume_tokens
       ELSE pc' = "match" /\ top_volume_tokens' = disk.list
  /\ UNCHANGED <<ranking, disk, queries, pools, slot_map, nodedb, trial, filtered_pools,
                 starts, moves, chosen>>

StartFetch ==
  /\ pc = "start" /\ disk = Absent
  /\ pc' = "fetch" /\ queries' = Queries
  /\ UNCHANGED <<ranking, disk, top_volume_tokens, pools, slot_map, nodedb, trial,
                 filtered_pools, starts, moves, chosen>>

\* One request: its page is added; an answer of another status than success adds
\* nothing; no answer, or one that does not parse, ends the process.
FetchPage ==
  /\ pc = "fetch" /\ queries # <<>>
  /\ LET q    == Head(queries)
         page == {ranking[i] : i \in {j \in 1 .. Len(ranking) :
                                        q.offset < j /\ j <= q.offset + q.limit}}
     IN  \/ top_volume_tokens' = top_volume_tokens \union page /\ pc' = pc
         \/ UNCHANGED top_volume_tokens /\ pc' \in {pc, "panicked"}
  /\ queries' = Tail(queries)
  /\ UNCHANGED <<ranking, disk, pools, slot_map, nodedb, trial, filtered_pools, starts,
                 moves, chosen>>

\* write_addresses_to_file creates the file, empty, and then fills it through a
\* BufWriter.
CreateFile ==
  /\ pc = "fetch" /\ queries = <<>>
  /\ disk' = Torn /\ pc' = "write"
  /\ UNCHANGED <<ranking, queries, top_volume_tokens, pools, slot_map, nodedb, trial,
                 filtered_pools, starts, moves, chosen>>

\* Mutant: of the tokens of the pages, the file gets num_results.
WriteNumResults ==
  /\ pc = "write"
  /\ \/ /\ \E list \in SUBSET top_volume_tokens :
            /\ Cardinality(list) = NumResults \/ list = top_volume_tokens
            /\ Cardinality(list) <= NumResults
            /\ disk' = Whole(list)
        /\ pc' = "match"
     \/ UNCHANGED disk /\ pc' \in {"match", "panicked"}
  /\ UNCHANGED <<ranking, queries, top_volume_tokens, pools, slot_map, nodedb, trial,
                 filtered_pools, starts, moves, chosen>>

\* The list is written, or an error of to_writer ends the process; but the last of it
\* is flushed when the BufWriter is dropped inside to_writer, where an error is lost:
\* the file is cut short, and the process goes on with the list it has.
WriteAddresses ==
  /\ pc = "write"
  /\ \/ disk' = Whole(top_volume_tokens) /\ pc' = "match"
     \/ UNCHANGED disk /\ pc' \in {"match", "panicked"}
  /\ UNCHANGED <<ranking, queries, top_volume_tokens, pools, slot_map, nodedb, trial,
                 filtered_pools, starts, moves, chosen>>

------------------------------------------------------------------------------
(* The pools *)

Matches(x, tokens) == Of(x) \subseteq tokens \ Blacklist

\* The first element of s that is in S, as a set of at most one.
FirstIn(s, S) == IF S \intersect Range(s) = {} THEN {}
                 ELSE {SelectSeq(s, LAMBDA e : e \in S)[1]}

\* construct_slot_map, for one item of the access list of balanceOf: the slot that
\* it finds.  slots is what items before it have found.
ItemSlot(item, token, slots) ==
  LET keys  == item.storage_keys
      known == FirstIn(KnownSlots, Range(keys))
      other == FirstIn(keys, Range(keys) \ {Implementation})
  IN  CASE item.address # token -> slots
        [] item.address = token /\ Len(keys) = 1 /\ keys[1] # Implementation -> {keys[1]}
        [] OTHER -> IF known # {} THEN known ELSE IF slots # {} THEN slots ELSE other

SlotOf(token) ==
  FoldLeft(LAMBDA slots, item : ItemSlot(item, token, slots), {}, AccessList[token])

\* The token match, and the slot map of the tokens that are left.
MatchPools ==
  /\ pc = "match"
  /\ pools' = {x \in pools : Matches(x, top_volume_tokens)}
  /\ slot_map' = [t \in UNION {Of(x) : x \in pools'} |-> SlotOf(t)]
  /\ pc' = "next"
  /\ UNCHANGED <<ranking, disk, queries, top_volume_tokens, nodedb, trial, filtered_pools,
                 starts, moves, chosen>>

\* WETH goes in first, or token0 when there is no WETH.
ZeroToOne(x) == WETH \in Of(x) => Info[x].t0 = WETH

\* Mutant: Slipstream is asked by fee, as Uniswap is.
KeyFee(x) ==
  CASE Info[x].type \in V2Basic   -> 0
    [] Info[x].type = "Aerodrome" -> Info[x].key.stable
    [] OTHER                      -> Info[x].key.fee

\* setup_router_calldata: what the router of the pool's type is asked to swap.
Key(x) ==
  CASE Info[x].type \in V2Basic  -> 0
    [] Info[x].type \in V3Basic \union V3Deadline -> Info[x].key.fee
    [] Info[x].type = "Aerodrome" -> Info[x].key.stable
    [] OTHER                      -> Info[x].key.tick_spacing

Calldata(x, amount, zero_to_one) ==
  [router |-> Info[x].type, key |-> Key(x), amount |-> amount,
   in  |-> IF zero_to_one THEN Info[x].t0 ELSE Info[x].t1,
   out |-> IF zero_to_one THEN Info[x].t1 ELSE Info[x].t0]

\* What a pool gives for amount, put in on side 0 or 1: the constant product curve,
\* with a fee per thousand.
Out(x, reserve, side, amount) ==
  LET in == amount * (1000 - Info[x].fee)
  IN  (in * reserve[2 - side]) \div (reserve[1 + side] * 1000 + in)

\* The pool that the router finds by its factory: any other answers nothing.
Found(call) ==
  {x \in Pools : /\ Info[x].type = call.router /\ FactoryKey(x) = call.key
                 /\ Of(x) = {call.in, call.out}}

\* The swap in it, and what the router returns: the amounts along the path, or the
\* last alone.  It fails without balance, approval or liquidity.
Swap(db, call) ==
  LET x     == CHOOSE y \in Found(call) : TRUE
      side  == IF call.in = Info[x].t0 THEN 0 ELSE 1
      out   == Out(x, db.reserve[x], side, call.amount)
      moved == IF side = 0
                 THEN <<db.reserve[x][1] + call.amount, db.reserve[x][2] - out>>
                 ELSE <<db.reserve[x][1] - out, db.reserve[x][2] + call.amount>>
  IN  IF /\ Found(call) # {}
         /\ <<call.in, BalanceSlot[call.in]>> \in db.cell
         /\ <<call.in, call.router>> \in db.allowance
         /\ db.reserve[x][1] > 0 /\ db.reserve[x][2] > 0
        THEN [success |-> TRUE,
              output |-> IF call.router \in V2Basic \union {"Aerodrome"}
                           THEN <<call.amount, out>> ELSE <<out>>,
              db |-> [db EXCEPT !.reserve[x] = moved]]
        ELSE [success |-> FALSE, output |-> <<>>, db |-> db]

\* decode_swap_return, with vec_ret by the pool's type.
Decode(x, output) ==
  IF Info[x].type \in V2Basic \union {"Aerodrome"} THEN Last(output) ELSE Head(output)

\* The account gets plenty of both tokens, and approves the router for both.
Provide(db, x) ==
  [cell      |-> db.cell \union UNION {{t} \X slot_map[t] : t \in Of(x)},
   allowance |-> db.allowance \union (Of(x) \X {Info[x].type}),
   reserve   |-> db.reserve]

SkipUnknownSlot ==
  /\ pc = "next"
  /\ \E x \in pools : /\ \E t \in Of(x) : slot_map[t] = {}
                      /\ pools' = pools \ {x}
  /\ UNCHANGED <<ranking, disk, pc, queries, top_volume_tokens, slot_map, nodedb, trial,
                 filtered_pools, starts, moves, chosen>>

\* Mutant: the first swap is committed, as the approvals are.
FirstSwapCommits ==
  /\ pc = "next"
  /\ \E x \in pools :
       /\ \A t \in Of(x) : slot_map[t] # {}
       /\ LET result == Swap(Provide(nodedb, x), Calldata(x, Amount, ZeroToOne(x)))
          IN  /\ nodedb' = result.db
              /\ IF result.success
                   THEN /\ trial' = {[pool |-> x, amt |-> Decode(x, result.output)]}
                        /\ pc' = "back" /\ UNCHANGED pools
                   ELSE pools' = pools \ {x} /\ UNCHANGED <<trial, pc>>
  /\ UNCHANGED <<ranking, disk, queries, top_volume_tokens, slot_map, filtered_pools,
                 starts, moves, chosen>>

\* The first swap is simulated and not committed.
FirstSwap ==
  /\ pc = "next"
  /\ \E x \in pools :
       /\ \A t \in Of(x) : slot_map[t] # {}
       /\ nodedb' = Provide(nodedb, x)
       /\ LET result == Swap(nodedb', Calldata(x, Amount, ZeroToOne(x)))
          IN  IF result.success
                THEN /\ trial' = {[pool |-> x, amt |-> Decode(x, result.output)]}
                     /\ pc' = "back" /\ UNCHANGED pools
                ELSE pools' = pools \ {x} /\ UNCHANGED <<trial, pc>>
  /\ UNCHANGED <<ranking, disk, queries, top_volume_tokens, slot_map, filtered_pools,
                 starts, moves, chosen>>

LowerBound == (Amount * 95) \div 100

SecondSwap ==
  /\ pc = "back"
  /\ \E tried \in trial :
       LET x      == tried.pool
           result == Swap(nodedb, Calldata(x, tried.amt, ~ZeroToOne(x)))
       IN  /\ filtered_pools' =
                IF result.success /\ Decode(x, result.output) >= LowerBound
                  THEN filtered_pools \union {x} ELSE filtered_pools
           /\ pools' = pools \ {x}
  /\ trial' = {} /\ pc' = "next"
  /\ UNCHANGED <<ranking, disk, queries, top_volume_tokens, slot_map, nodedb, starts,
                 moves, chosen>>

\* filter_pools returns, and the workers start on what it found.
Return ==
  /\ pc = "next" /\ pools = {}
  /\ pc' = "done"
  /\ chosen' = IF chosen = {} THEN {filtered_pools} ELSE chosen
  /\ UNCHANGED <<ranking, disk, queries, top_volume_tokens, pools, slot_map, nodedb, trial,
                 filtered_pools, starts, moves>>

Next ==
  \/ Rerank \/ Restart
  \/ ReadAddresses \/ StartFetch \/ FetchPage \/ CreateFile \/ WriteAddresses
  \/ MatchPools \/ SkipUnknownSlot \/ FirstSwap \/ SecondSwap \/ Return

Spec == Init /\ [][Next]_vars

------------------------------------------------------------------------------
(* Properties *)

\* The types of the variables.  From the match on, the file has the list in use or,
\* cut short, is of no use to anyone, and the node's state has no swap in it.
TypeOK ==
  /\ ranking \in Rankings
  /\ disk.list \subseteq Tokens /\ disk \in {Absent, Torn, Whole(disk.list)}
  /\ pc \in {"start", "fetch", "write", "match", "next", "back", "done", "panicked"}
  /\ pc \in {"match", "next", "back", "done"} => disk \in {Torn, Whole(top_volume_tokens)}
  /\ pc = "write" => disk = Torn
  /\ top_volume_tokens \subseteq Tokens
  /\ pools \subseteq Pools /\ filtered_pools \subseteq Pools
  /\ nodedb.reserve = OnChain.reserve
  /\ trial \subseteq [pool : pools, amt : Nat]
  /\ IF pc = "back" THEN \E tried \in trial : trial = {tried} ELSE trial = {}

TokenIn(x)   == IF ZeroToOne(x) THEN 0 ELSE 1
GivesBack(x) ==
  LET out == Out(x, Info[x].reserve, TokenIn(x), Amount)
  IN  /\ Info[x].reserve[1] > 0 /\ Info[x].reserve[2] > 0
      /\ Out(x, Info[x].reserve, 1 - TokenIn(x), out) >= LowerBound

\* The pools that pass on their own reserves, if the code knows where the balances are.
Selection(tokens) ==
  {x \in Pools : /\ Matches(x, tokens) /\ GivesBack(x)
                 /\ \A t \in Of(x) : BalanceSlot[t] \in SlotOf(t)}

\* filter_by_swap shares one database, the balances and the approvals in it between
\* all pools, and reaches each through its router: the pools it returns must be
\* those that pass on their own reserves, whichever were tried before.
SelectedAlone == pc = "done" => filtered_pools = Selection(top_volume_tokens)

\* "This is to test liquidity depth": the second swap must not find the price where
\* the first left it, or it would earn the impact back and any pool would pass.  A
\* pool that passes has at least 38 times the amount of what goes in first.
DepthTested ==
  \A x \in filtered_pools : Info[x].reserve[TokenIn(x) + 1] >= 38 * Amount

\* The ranking moves, requests fail, the process is killed at any point, in the middle
\* of writing the file too, or goes on with a file that was not flushed: a later start
\* that gets through works with the pools of the first that did, for a file that is
\* cut short lets none through.
RestartKeepsPools == pc = "done" => chosen = {filtered_pools}

=============================================================================
