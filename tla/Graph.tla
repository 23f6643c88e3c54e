------------------------------- MODULE Graph -------------------------------
(***************************************************************************)
(* ArbGraph of graph.rs: the working pools become the edges of an          *)
(* undirected graph of tokens, and a depth first search from WETH collects *)
(* the cycles that the searcher works with.  The recursion of              *)
(* construct_cycles is a stack of frames here, one per call.               *)
(*                                                                         *)
(* The order in which petgraph lists a node's edges decides nothing but    *)
(* the order of the cycles, which nobody asks for: any order is allowed.   *)
(***************************************************************************)
EXTENDS Integers, Sequences, FiniteSets, Bags, SequencesExt

CONSTANTS
  Pools,      \* the pools there are
  PoolTokens, \* for each pool, its tokens
  PoolType,   \* for each pool, its pool_type()
  Balance,    \* for each pool, its balance of each of its tokens
  WETH,       \* the token that cycles start from
  Hops        \* the values of max_hops (2 in generate_cycles)

Simple == {p \in Pools : PoolType[p] \notin {"CurveTriCrypto", "BalancerV2"}}
AllTokens == {WETH} \cup UNION {PoolTokens[p] : p \in Pools}

ASSUME PoolTokensAssumption ==
  \A p \in Pools : /\ IsFiniteSet(PoolTokens[p])
                   /\ Cardinality(PoolTokens[p]) \in IF p \in Simple THEN {2} ELSE Nat \ {0, 1}
ASSUME HopsAssumption == Hops \subseteq Nat
ASSUME BalanceAssumption == \A p \in Pools : Balance[p] \in [PoolTokens[p] -> Nat]

VARIABLES
  pc,       \* "build", "search", "done" or "panicked"
  pools,    \* the working pools that are not in the graph yet
  nodes,    \* the tokens in the graph
  edges,    \* its edges: [pool, ends]
  max_hops,
  frames,   \* the calls of construct_cycles: current_node, and the edges still to walk
  path,     \* current_path
  visited,  \* the tokens on it
  all_paths \* the cycles found, as a bag

vars == <<pc, pools, nodes, edges, max_hops, frames, path, visited, all_paths>>

Links == [pool : Pools, token_in : AllTokens, token_out : AllTokens]
Edges == [pool : Pools, ends : SUBSET AllTokens]

Init ==
  /\ pc = "build"
  /\ pools \in SUBSET Pools
  /\ nodes = {} /\ edges = {}
  /\ max_hops \in Hops
  /\ frames = <<>> /\ path = <<>> /\ visited = {}
  /\ all_paths = EmptyBag

-----------------------------------------------------------------------------
(* build_graph. *)

\* The pairs of a pool's tokens.
Pairs(p) == {{t, u} : t \in PoolTokens[p], u \in PoolTokens[p]} \ {{t} : t \in PoolTokens[p]}

AddToGraph(p, pairs) ==
  /\ pc = "build" /\ p \in pools
  /\ pools' = pools \ {p}
  /\ nodes' = nodes \cup PoolTokens[p]
  /\ edges' = edges \cup {[pool |-> p, ends |-> pair] : pair \in pairs}
  /\ UNCHANGED <<pc, max_hops, frames, path, visited, all_paths>>

AddSimplePool == \E p \in Simple : AddToGraph(p, Pairs(p))
AddCurvePool  == \E p \in Pools : PoolType[p] = "CurveTriCrypto" /\ AddToGraph(p, Pairs(p))

\* A Balancer pool trades two tokens only if it has some of each.
FundedEither(p, pair) == \E t \in pair : Balance[p][t] # 0   \* mutant: one of them will do
Funded(p, pair) == \A t \in pair : Balance[p][t] # 0
AddBalancerPool ==
  \E p \in Pools : /\ PoolType[p] = "BalancerV2"
                   /\ AddToGraph(p, {pair \in Pairs(p) : Funded(p, pair)})

-----------------------------------------------------------------------------
(* find_all_arbitrage_paths and construct_cycles. *)

EdgesOf(n) == {e \in edges : n \in e.ends}

\* A call of construct_cycles, as its loop begins: at max_hops it returns at once.
Call(n, hops) == [node |-> n, todo |-> IF hops >= max_hops THEN {} ELSE EdgesOf(n)]

\* generate_cycles finds the node of WETH, or panics.
StartSearch ==
  /\ pc = "build" /\ pools = {} /\ WETH \in nodes
  /\ frames' = <<Call(WETH, 0)>>
  /\ pc' = "search"
  /\ UNCHANGED <<pools, nodes, edges, max_hops, path, visited, all_paths>>
NoStartNode ==
  /\ pc = "build" /\ pools = {} /\ WETH \notin nodes
  /\ pc' = "panicked"
  /\ UNCHANGED <<pools, nodes, edges, max_hops, frames, path, visited, all_paths>>

Top == Last(frames)
Target(e, n) == CHOOSE t \in e.ends : t # n
LinkByFind(e) ==   \* mutant: the pool is that of find_edge, between two nodes
  LET found == CHOOSE f \in edges : f.ends = e.ends
  IN  [pool |-> found.pool, token_in |-> Top.node, token_out |-> Target(e, Top.node)]
Link(e) == [pool |-> e.pool, token_in |-> Top.node, token_out |-> Target(e, Top.node)]

\* The loop of the innermost call comes to edge e.
AtEdge(e) ==
  /\ pc = "search" /\ frames # <<>>
  /\ e \in Top.todo
Advanced(e) == [frames EXCEPT ![Len(frames)].todo = @ \ {e}]

\* Two steps back and forth must be of two types of pool.
Closes(e) ==
  \/ Len(path) >= 2
  \/ Len(path) = 1 /\ PoolType[path[1].pool] # PoolType[e.pool]

\* An edge back to WETH.
CloseCycle ==
  \E e \in edges :
    /\ AtEdge(e) /\ Link(e).token_out = WETH
    /\ all_paths' = IF Closes(e) THEN all_paths (+) SetToBag({Append(path, Link(e))})
                                 ELSE all_paths
    /\ frames' = Advanced(e)
    /\ UNCHANGED <<pc, pools, nodes, edges, max_hops, path, visited>>

\* An edge to a token that is not on the path yet.
Descend ==
  \E e \in edges :
    LET next_node == Link(e).token_out
    IN  /\ AtEdge(e) /\ next_node # WETH /\ next_node \notin visited
        /\ path' = Append(path, Link(e))
        /\ visited' = visited \cup {next_node}
        /\ frames' = Append(Advanced(e), Call(next_node, Len(path) + 1))
        /\ UNCHANGED <<pc, pools, nodes, edges, max_hops, all_paths>>

SkipVisited ==
  \E e \in edges :
    /\ AtEdge(e) /\ Link(e).token_out # WETH /\ Link(e).token_out \in visited
    /\ frames' = Advanced(e)
    /\ UNCHANGED <<pc, pools, nodes, edges, max_hops, path, visited, all_paths>>

\* The innermost call returns, and its caller takes the last step back.
ReturnVisited ==   \* mutant: the token stays visited
  /\ pc = "search" /\ Len(frames) > 1 /\ Top.todo = {}
  /\ frames' = Front(frames)
  /\ path' = Front(path)
  /\ UNCHANGED <<pc, pools, nodes, edges, max_hops, visited, all_paths>>
Return ==
  /\ pc = "search" /\ Len(frames) > 1 /\ Top.todo = {}
  /\ frames' = Front(frames)
  /\ path' = Front(path)
  /\ visited' = visited \ {Top.node}
  /\ UNCHANGED <<pc, pools, nodes, edges, max_hops, all_paths>>

\* The outermost call returns.
Finish ==
  /\ pc = "search" /\ Len(frames) = 1 /\ Top.todo = {}
  /\ frames' = <<>>
  /\ pc' = "done"
  /\ UNCHANGED <<pools, nodes, edges, max_hops, path, visited, all_paths>>

Next == \/ AddSimplePool \/ AddCurvePool \/ AddBalancerPool \/ StartSearch \/ NoStartNode
        \/ CloseCycle \/ Descend \/ SkipVisited \/ Return \/ Finish

Spec == Init /\ [][Next]_vars

-----------------------------------------------------------------------------
(* Properties. *)

\* Type invariant: every call but the outermost has its step on current_path and its
\* token among the visited ones, so that the pop and the remove after a call undo
\* what was done before it.
TypeOK ==
  /\ pc \in {"build", "search", "done", "panicked"}
  /\ pools \subseteq Pools /\ nodes \subseteq AllTokens /\ edges \subseteq Edges
  /\ max_hops \in Hops
  /\ frames \in Seq([node : AllTokens, todo : SUBSET edges])
  /\ path \in Seq(Links) /\ DOMAIN all_paths \subseteq Seq(Links)
  /\ pc = "search" =>
       /\ Len(frames) = Len(path) + 1 /\ Len(path) <= max_hops
       /\ frames[1].node = WETH
       /\ \A i \in 1 .. Len(path) : /\ path[i].token_in = frames[i].node
                                    /\ path[i].token_out = frames[i + 1].node
       /\ visited = {path[i].token_out : i \in 1 .. Len(path)} /\ WETH \notin visited
       /\ \A i, j \in 1 .. Len(path) : i # j => path[i].token_out # path[j].token_out
  /\ pc # "search" => frames = <<>> /\ path = <<>> /\ visited = {}

\* The swaps that the pools of P allow, in either direction: for Balancer pools those
\* between tokens it has some of.
Swaps(P) ==
  {l \in [pool : P, token_in : AllTokens, token_out : AllTokens] :
     /\ {l.token_in, l.token_out} \subseteq PoolTokens[l.pool]
     /\ l.token_in # l.token_out
     /\ PoolType[l.pool] = "BalancerV2" =>
          Balance[l.pool][l.token_in] > 0 /\ Balance[l.pool][l.token_out] > 0}

\* The cycles there are: swaps that follow one another from WETH to WETH by way of
\* different tokens, at most max_hops of them, and two only of different types.
IsCycle(s) ==
  /\ Len(s) \in 2 .. max_hops
  /\ s[1].token_in = WETH /\ s[Len(s)].token_out = WETH
  /\ \A i \in 1 .. Len(s) - 1 : s[i].token_out = s[i + 1].token_in /\ s[i].token_out # WETH
  /\ \A i, j \in 1 .. Len(s) - 1 : i # j => s[i].token_out # s[j].token_out
  /\ Len(s) = 2 => PoolType[s[1].pool] # PoolType[s[2].pool]

\* The pools that are in the graph.
Inserted == {e.pool : e \in edges}

\* What has been collected is cycles, swap by swap executable: the searcher quotes
\* them, and the contract follows token by token, without looking again.
PathsAreCycles == \A s \in DOMAIN all_paths : IsCycle(s) /\ s \in Seq(Swaps(Inserted))

\* In the end it is all of them, in both directions, however pools and edges are ordered.
AllCyclesFound ==
  pc = "done" =>
    \A n \in 2 .. max_hops : \A s \in [1 .. n -> Swaps(Inserted)] :
      IsCycle(s) => s \in DOMAIN all_paths

\* And none of them twice: the searcher would search, and send, it twice.
FoundOnce == \A s \in DOMAIN all_paths : all_paths[s] = 1

=============================================================================
