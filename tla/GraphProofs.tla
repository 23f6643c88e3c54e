---------------------------- MODULE GraphProofs ----------------------------
(***************************************************************************)
(* Proofs about the arbitrage graph, for any pools, tokens, balances and   *)
(* number of hops: the search returns the cycles there are, each once.     *)
(***************************************************************************)
EXTENDS Graph, SequenceTheorems, TLAPS

(***************************************************************************)
(* The inductive invariant.                                                *)
(***************************************************************************)

EdgeOf(l) == [pool |-> l.pool, ends |-> {l.token_in, l.token_out}]

\* The edges are those of the swaps there are.
EdgesInv ==
  /\ \A e \in edges : \E l \in Swaps(Inserted) : e = EdgeOf(l)
  /\ \A l \in Swaps(Inserted) : EdgeOf(l) \in edges

\* A call walks edges of its node, if the path leaves room for them; the edge that it
\* has called from is behind it.
FramesInv ==
  pc = "search" =>
    /\ \A i \in 1 .. Len(frames) : \A e \in frames[i].todo :
         frames[i].node \in e.ends /\ i <= max_hops
    /\ \A i \in 1 .. Len(path) : EdgeOf(path[i]) \in edges \ frames[i].todo

\* The search is still to come to s: some call, with the steps of s up to there behind
\* it, has the edge of the next one before it.
ToCome(s) ==
  \E k \in 0 .. Len(path) :
    /\ k < Len(s) /\ \A i \in 1 .. k : s[i] = path[i]
    /\ EdgeOf(s[k + 1]) \in frames[k + 1].todo

\* The cycles are those found and those to come, and none is both.
SearchInv ==
  /\ pc = "build" => DOMAIN all_paths = {}
  /\ pc = "search" =>
       /\ \A s \in DOMAIN all_paths : ~ToCome(s)
       /\ \A n \in 2 .. max_hops : \A s \in [1 .. n -> Swaps(Inserted)] :
            IsCycle(s) => s \in DOMAIN all_paths \/ ToCome(s)

IndInv == TypeOK /\ EdgesInv /\ FramesInv /\ SearchInv
          /\ PathsAreCycles /\ AllCyclesFound /\ FoundOnce

Calls == [node : AllTokens, todo : SUBSET edges]

(***************************************************************************)
(* Links, edges and frames.                                                *)
(***************************************************************************)

\* A swap is known by its edge and the token that goes in.
LEMMA SwapUnique ==
  ASSUME NEW l \in Links, NEW m \in Links, EdgeOf(l) = EdgeOf(m), l.token_in = m.token_in,
         l.token_in # l.token_out
  PROVE  l = m
<1>1. l.pool = m.pool /\ {l.token_in, l.token_out} = {m.token_in, m.token_out}
  BY DEF EdgeOf
<1>2. l.token_out = m.token_out
  BY <1>1
<1> QED BY <1>1, <1>2 DEF Links

\* Swaps of the pools in the graph are links, between two tokens, and go both ways.
LEMMA SwapsType ==
  ASSUME TypeOK, NEW l \in Swaps(Inserted)
  PROVE  /\ l \in Links /\ l.token_in # l.token_out
         /\ [pool |-> l.pool, token_in |-> l.token_out, token_out |-> l.token_in]
              \in Swaps(Inserted)
<1>1. Inserted \subseteq Pools
  BY DEF TypeOK, Inserted, Edges
<1> QED BY <1>1 DEF Swaps, Links

\* The innermost call, and the tokens and the room of the search.
LEMMA Shape ==
  ASSUME TypeOK, pc = "search"
  PROVE  /\ Len(path) \in Nat /\ Len(frames) = Len(path) + 1 /\ frames # <<>>
         /\ Top = frames[Len(path) + 1] /\ Top \in Calls
         /\ \A i \in 1 .. Len(path) + 1 : frames[i] \in Calls
         /\ \A i \in 1 .. Len(path) : path[i] \in Links
<1>1. path \in Seq(Links) /\ frames \in Seq(Calls) /\ Len(frames) = Len(path) + 1
  BY DEF TypeOK, Calls
<1> HIDE DEF Calls
<1>2. Len(path) \in Nat /\ frames # <<>> /\ Len(path) + 1 \in 1 .. Len(frames)
  BY <1>1
<1>3. /\ \A i \in 1 .. Len(path) + 1 : frames[i] \in Calls
      /\ \A i \in 1 .. Len(path) : path[i] \in Links
  BY <1>1
<1>4. Top = frames[Len(path) + 1]
  BY <1>1 DEF Top, Last
<1> QED BY <1>1, <1>2, <1>3, <1>4

\* The link that the loop makes of an edge is a swap of that edge, from its node.
LEMMA LinkGives ==
  ASSUME TypeOK, EdgesInv, FramesInv, NEW e \in edges, AtEdge(e)
  PROVE  /\ Link(e) \in Swaps(Inserted) /\ Link(e) \in Links
         /\ EdgeOf(Link(e)) = e /\ Link(e).token_in = Top.node /\ Link(e).pool = e.pool
         /\ Link(e).token_in # Link(e).token_out
         /\ Len(path) + 1 <= max_hops
<1>1. PICK l \in Swaps(Inserted) : e = EdgeOf(l)
  BY DEF EdgesInv
<1>2. e.pool = l.pool /\ e.ends = {l.token_in, l.token_out} /\ l.token_in # l.token_out
  BY <1>1, SwapsType DEF EdgeOf
<1>3. Top.node \in e.ends /\ Len(path) + 1 <= max_hops
  <2>1. /\ pc = "search" /\ Top = frames[Len(path) + 1] /\ Len(path) + 1 \in 1 .. Len(frames)
        /\ e \in Top.todo
    BY Shape DEF AtEdge
  <2> QED BY <2>1 DEF FramesInv
<1> DEFINE r == [pool |-> l.pool, token_in |-> l.token_out, token_out |-> l.token_in]
<1>4. CASE Top.node = l.token_in
  <2>1. Target(e, Top.node) = l.token_out
    BY <1>2, <1>4 DEF Target
  <2>2. Link(e) = l
    BY <1>2, <1>4, <2>1, SwapsType DEF Link, Links
  <2> QED BY <1>1, <1>2, <1>3, <1>4, <2>2, SwapsType
<1>5. CASE Top.node = l.token_out
  <2>1. Target(e, Top.node) = l.token_in
    BY <1>2, <1>5 DEF Target
  <2>2. Link(e) = r
    BY <1>2, <1>5, <2>1 DEF Link
  <2>3. r \in Swaps(Inserted) /\ EdgeOf(r) = e /\ r.token_in # r.token_out /\ r.pool = e.pool
        /\ r.token_in = Top.node
    BY <1>1, <1>2, <1>5, SwapsType DEF EdgeOf
  <2>4. r \in Links
    BY <2>3, SwapsType
  <2> QED BY <1>3, <2>2, <2>3, <2>4
<1> QED BY <1>2, <1>3, <1>4, <1>5

\* Advancing takes the edge out of the innermost call, and changes nothing else.
LEMMA AdvancedGives ==
  ASSUME TypeOK, pc = "search", NEW e
  PROVE  /\ Advanced(e) \in Seq(Calls) /\ Len(Advanced(e)) = Len(path) + 1
         /\ \A i \in 1 .. Len(path) : Advanced(e)[i] = frames[i]
         /\ Advanced(e)[Len(path) + 1].node = Top.node
         /\ Advanced(e)[Len(path) + 1].todo = Top.todo \ {e}
<1> DEFINE h == Len(path) + 1
<1>1. /\ Len(path) \in Nat /\ Len(frames) = h /\ Top = frames[h] /\ h \in 1 .. h
      /\ frames \in Seq(Calls) /\ frames[h] \in Calls
  BY Shape DEF TypeOK, Calls
<1>2. Advanced(e) = [frames EXCEPT ![h].todo = @ \ {e}]
  BY <1>1 DEF Advanced
<1>3. [frames[h] EXCEPT !.todo = @ \ {e}] \in Calls
  BY <1>1 DEF Calls
<1> DEFINE new == [frames[h] EXCEPT !.todo = @ \ {e}]
<1>4. new.node = frames[h].node /\ new.todo = frames[h].todo \ {e} /\ new \in Calls
  BY <1>1, <1>3 DEF Calls
<1>5. Advanced(e) = [frames EXCEPT ![h] = new]
  BY <1>2
<1> HIDE DEF new, Calls
<1>6. Advanced(e) \in Seq(Calls) /\ Len(Advanced(e)) = h /\ Advanced(e)[h] = new
      /\ \A i \in 1 .. Len(path) : Advanced(e)[i] = frames[i]
  BY <1>1, <1>4, <1>5
<1> QED BY <1>1, <1>4, <1>6

\* One more cycle that was not in the bag is in it once, the others as before.
LEMMA BagAdd ==
  ASSUME NEW c, c \notin DOMAIN all_paths, all_paths' = all_paths (+) SetToBag({c})
  PROVE  /\ DOMAIN all_paths' = DOMAIN all_paths \cup {c} /\ all_paths'[c] = 1
         /\ \A s \in DOMAIN all_paths : all_paths[s] = 1 => all_paths'[s] = 1
BY DEF (+), SetToBag


(***************************************************************************)
(* A call's loop goes on.                                                  *)
(***************************************************************************)

\* Going on without a call keeps the shape of the search.
LEMMA LoopAdvances ==
  ASSUME TypeOK, EdgesInv, FramesInv, NEW e \in edges, AtEdge(e), frames' = Advanced(e),
         UNCHANGED <<pc, pools, nodes, edges, max_hops, path, visited>>,
         DOMAIN all_paths' \subseteq Seq(Links)
  PROVE  TypeOK' /\ EdgesInv' /\ FramesInv'
<1> DEFINE h == Len(path) + 1
<1>1. /\ pc = "search" /\ pc' = pc /\ pools' = pools /\ nodes' = nodes /\ edges' = edges
      /\ max_hops' = max_hops /\ path' = path /\ visited' = visited
  BY DEF AtEdge
<1>2. /\ Len(path) \in Nat /\ h \in 1 .. h /\ Top = frames[h]
      /\ frames' \in Seq(Calls) /\ Len(frames') = h
      /\ \A i \in 1 .. Len(path) : frames'[i] = frames[i]
      /\ frames'[h].node = Top.node /\ frames'[h].todo = Top.todo \ {e}
  BY <1>1, Shape, AdvancedGives
<1>3. \A i \in 1 .. h : /\ frames'[i].node = frames[i].node
                        /\ frames'[i].todo \subseteq frames[i].todo
  <2>1. \A i \in 1 .. h : i \in 1 .. Len(path) \/ i = h
    BY <1>2
  <2> QED BY <1>2, <2>1
<1>4. TypeOK'
  <2>1. frames' \in Seq([node : AllTokens, todo : SUBSET edges'])
    BY <1>1, <1>2 DEF Calls
  <2>2. /\ frames'[1].node = WETH
        /\ \A i \in 1 .. Len(path) : /\ path[i].token_in = frames'[i].node
                                     /\ path[i].token_out = frames'[i + 1].node
    <3>1. /\ frames[1].node = WETH
          /\ \A i \in 1 .. Len(path) : /\ path[i].token_in = frames[i].node
                                       /\ path[i].token_out = frames[i + 1].node
      BY <1>1 DEF TypeOK
    <3>2. 1 \in 1 .. h /\ \A i \in 1 .. Len(path) : i \in 1 .. h /\ i + 1 \in 1 .. h
      BY <1>2
    <3> QED BY <1>3, <3>1, <3>2
  <2> QED BY <1>1, <1>2, <2>1, <2>2 DEF TypeOK
<1>5. EdgesInv'
  BY <1>1 DEF EdgesInv, Swaps, Inserted
<1>6. FramesInv'
  <2>1. ASSUME NEW i \in 1 .. h, NEW f \in frames'[i].todo
        PROVE  frames'[i].node \in f.ends /\ i <= max_hops
    <3>1. i \in 1 .. Len(frames) /\ f \in frames[i].todo
      BY <1>1, <1>3, Shape
    <3> QED BY <1>1, <1>3, <3>1 DEF FramesInv
  <2>2. ASSUME NEW i \in 1 .. Len(path)
        PROVE  EdgeOf(path[i]) \in edges \ frames'[i].todo
    <3>1. EdgeOf(path[i]) \in edges \ frames[i].todo
      BY <1>1 DEF FramesInv
    <3> QED BY <1>2, <3>1
  <2> QED BY <1>1, <1>2, <2>1, <2>2 DEF FramesInv
<1> QED BY <1>4, <1>5, <1>6

\* Then the search is still to come to what it was to come to, but for what goes on
\* from the path with edge e.
LEMMA ToComeAdvanced ==
  ASSUME TypeOK, pc = "search", NEW e, frames' = Advanced(e), path' = path, NEW s
  PROVE  /\ ToCome(s)' => ToCome(s)
         /\ ToCome(s) =>
              \/ ToCome(s)'
              \/ /\ Len(path) < Len(s) /\ \A i \in 1 .. Len(path) : s[i] = path[i]
                 /\ EdgeOf(s[Len(path) + 1]) = e
<1> DEFINE h == Len(path) + 1
<1>1. /\ Len(path) \in Nat /\ Top = frames[h]
      /\ \A i \in 1 .. Len(path) : frames'[i] = frames[i]
      /\ frames'[h].todo = Top.todo \ {e}
  BY Shape, AdvancedGives
<1>2. ASSUME ToCome(s)' PROVE ToCome(s)
  <2>1. PICK k \in 0 .. Len(path) :
          /\ k < Len(s) /\ \A i \in 1 .. k : s[i] = path[i]
          /\ EdgeOf(s[k + 1]) \in frames'[k + 1].todo
    BY <1>2 DEF ToCome
  <2>2. k + 1 \in 1 .. Len(path) \/ k + 1 = h
    BY <1>1
  <2>3. EdgeOf(s[k + 1]) \in frames[k + 1].todo
    BY <1>1, <2>1, <2>2
  <2> QED BY <2>1, <2>3 DEF ToCome
<1>3. ASSUME ToCome(s)
      PROVE  \/ ToCome(s)'
             \/ /\ Len(path) < Len(s) /\ \A i \in 1 .. Len(path) : s[i] = path[i]
                /\ EdgeOf(s[h]) = e
  <2>1. PICK k \in 0 .. Len(path) :
          /\ k < Len(s) /\ \A i \in 1 .. k : s[i] = path[i]
          /\ EdgeOf(s[k + 1]) \in frames[k + 1].todo
    BY <1>3 DEF ToCome
  <2>2. k + 1 \in 1 .. Len(path) \/ (k = Len(path) /\ k + 1 = h)
    BY <1>1
  <2>3. CASE EdgeOf(s[k + 1]) \in frames'[k + 1].todo
    BY <2>1, <2>3 DEF ToCome
  <2>4. CASE EdgeOf(s[k + 1]) \notin frames'[k + 1].todo
    BY <1>1, <2>1, <2>2, <2>4
  <2> QED BY <2>3, <2>4
<1> QED BY <1>2, <1>3

\* A cycle that goes on from the path with edge e goes on with e's link.
LEMMA NextLink ==
  ASSUME TypeOK, EdgesInv, FramesInv, NEW e \in edges, AtEdge(e), NEW n \in 2 .. max_hops,
         NEW s \in [1 .. n -> Swaps(Inserted)], IsCycle(s),
         Len(path) < Len(s), \A i \in 1 .. Len(path) : s[i] = path[i],
         EdgeOf(s[Len(path) + 1]) = e
  PROVE  /\ Len(s) = n /\ Len(path) + 1 \in 1 .. n /\ s[Len(path) + 1] = Link(e)
         /\ Link(e).token_out = WETH <=> Len(s) = Len(path) + 1
<1> DEFINE h == Len(path) + 1
<1>0. max_hops \in Nat
  BY HopsAssumption DEF TypeOK
<1>1. /\ pc = "search" /\ Len(path) \in Nat /\ Top = frames[h]
      /\ frames[1].node = WETH
      /\ \A i \in 1 .. Len(path) : path[i].token_out = frames[i + 1].node
  BY Shape DEF AtEdge, TypeOK
<1>2. n \in Nat /\ Len(s) = n /\ h \in 1 .. n /\ s[h] \in Swaps(Inserted)
  <2>1. n \in Nat
    BY <1>0
  <2>2. Len(s) = n
    BY <2>1
  <2> QED BY <1>1, <2>1, <2>2
<1>3. s[h].token_in = Top.node
  <2>1. CASE Len(path) = 0
    BY <1>1, <2>1 DEF IsCycle
  <2>2. CASE Len(path) # 0
    <3>1. Len(path) \in 1 .. Len(path) /\ Len(path) \in 1 .. Len(s) - 1
      BY <1>1, <1>2, <2>2
    <3>2. s[Len(path)].token_out = s[h].token_in
      BY <3>1 DEF IsCycle
    <3> QED BY <1>1, <3>1, <3>2
  <2> QED BY <2>1, <2>2
<1>4. s[h] = Link(e)
  <2> DEFINE l == s[h]
             m == Link(e)
  <2>1. /\ l \in Links /\ m \in Links /\ EdgeOf(l) = EdgeOf(m) /\ l.token_in = m.token_in
        /\ l.token_in # l.token_out
    BY <1>2, <1>3, LinkGives, SwapsType
  <2> HIDE DEF l, m
  <2>2. l = m
    BY <2>1, SwapUnique
  <2> QED BY <2>2 DEF l, m
<1>5. s[h].token_out = WETH <=> n = h
  <2>1. CASE n = h
    BY <1>2, <2>1 DEF IsCycle
  <2>2. CASE n # h
    <3>1. h \in 1 .. Len(s) - 1
      BY <1>1, <1>2, <2>2
    <3> QED BY <2>2, <3>1 DEF IsCycle
  <2> QED BY <2>1, <2>2
<1> QED BY <1>2, <1>4, <1>5

(***************************************************************************)
(* Building the graph.                                                     *)
(***************************************************************************)

\* The pairs of which a pool adds an edge.
Traded(p) == IF PoolType[p] = "BalancerV2" THEN {pair \in Pairs(p) : Funded(p, pair)}
             ELSE Pairs(p)

\* They are those of the swaps of the pool.
LEMMA TradedGives ==
  ASSUME NEW p \in Pools
  PROVE  /\ \A pair \in Traded(p) : \E l \in Swaps({p}) : pair = {l.token_in, l.token_out}
         /\ \A l \in Swaps({p}) : {l.token_in, l.token_out} \in Traded(p)
<1>1. /\ PoolTokens[p] \subseteq AllTokens
      /\ \A t \in PoolTokens[p] : Balance[p][t] \in Nat
  BY BalanceAssumption DEF AllTokens
<1>2. ASSUME NEW pair \in Traded(p)
      PROVE  \E l \in Swaps({p}) : pair = {l.token_in, l.token_out}
  <2>1. pair \in Pairs(p) /\ (PoolType[p] = "BalancerV2" => Funded(p, pair))
    BY DEF Traded
  <2>2. PICK t \in PoolTokens[p], u \in PoolTokens[p] : pair = {t, u} /\ t # u
    BY <2>1 DEF Pairs
  <2> DEFINE l == [pool |-> p, token_in |-> t, token_out |-> u]
  <2>3. PoolType[p] = "BalancerV2" => Balance[p][t] > 0 /\ Balance[p][u] > 0
    BY <1>1, <2>1, <2>2 DEF Funded
  <2>4. l \in Swaps({p})
    BY <1>1, <2>2, <2>3 DEF Swaps
  <2>5. l.token_in = t /\ l.token_out = u
    OBVIOUS
  <2> QED BY <2>2, <2>4, <2>5
<1>3. ASSUME NEW l \in Swaps({p})
      PROVE  {l.token_in, l.token_out} \in Traded(p)
  <2>1. /\ l.pool = p /\ l.token_in \in PoolTokens[p] /\ l.token_out \in PoolTokens[p]
        /\ l.token_in # l.token_out
        /\ PoolType[p] = "BalancerV2" => Balance[p][l.token_in] > 0 /\ Balance[p][l.token_out] > 0
    BY DEF Swaps
  <2>2. {l.token_in, l.token_out} \in Pairs(p)
    BY <2>1 DEF Pairs
  <2>3. PoolType[p] = "BalancerV2" => Funded(p, {l.token_in, l.token_out})
    BY <1>1, <2>1 DEF Funded
  <2> QED BY <2>2, <2>3 DEF Traded
<1> QED BY <1>2, <1>3

LEMMA InitInv == Init => IndInv
<1> SUFFICES ASSUME Init PROVE IndInv
  OBVIOUS
<1>1. /\ pc = "build" /\ pools \subseteq Pools /\ nodes = {} /\ edges = {} /\ max_hops \in Hops
      /\ frames = <<>> /\ path = <<>> /\ visited = {} /\ DOMAIN all_paths = {}
  BY DEF Init, EmptyBag, SetToBag
<1>2. TypeOK
  BY <1>1 DEF TypeOK
<1>3. Inserted = {} /\ Swaps(Inserted) = {}
  BY <1>1 DEF Inserted, Swaps
<1>4. EdgesInv
  BY <1>1, <1>3 DEF EdgesInv
<1>5. FramesInv /\ SearchInv /\ PathsAreCycles /\ AllCyclesFound /\ FoundOnce
  BY <1>1 DEF FramesInv, SearchInv, PathsAreCycles, AllCyclesFound, FoundOnce
<1> QED BY <1>2, <1>4, <1>5 DEF IndInv

LEMMA AddPoolInv ==
  ASSUME IndInv, NEW p \in Pools, AddToGraph(p, Traded(p))
  PROVE  IndInv'
<1>1. /\ pc = "build" /\ pc' = pc /\ pools' \subseteq Pools /\ nodes' = nodes \cup PoolTokens[p]
      /\ edges' = edges \cup {[pool |-> p, ends |-> pair] : pair \in Traded(p)}
      /\ max_hops' = max_hops /\ frames' = frames /\ path' = path /\ visited' = visited
      /\ all_paths' = all_paths
  BY DEF AddToGraph, IndInv, TypeOK
<1>2. TypeOK /\ EdgesInv /\ DOMAIN all_paths = {}
      /\ frames = <<>> /\ path = <<>> /\ visited = {}
  BY <1>1 DEF IndInv, SearchInv, TypeOK
<1>3. PoolTokens[p] \subseteq AllTokens /\ \A pair \in Traded(p) : pair \subseteq AllTokens
  BY DEF AllTokens, Traded, Pairs
<1>4. TypeOK'
  <2>1. edges' \subseteq Edges /\ nodes' \subseteq AllTokens
    BY <1>1, <1>2, <1>3 DEF TypeOK, Edges
  <2>2. frames' \in Seq([node : AllTokens, todo : SUBSET edges'])
    BY <1>1, <1>2
  <2> QED BY <1>1, <1>2, <2>1, <2>2 DEF TypeOK
<1>5. Inserted' \subseteq Inserted \cup {p} /\ Inserted \subseteq Inserted'
  BY <1>1 DEF Inserted
<1>6. EdgesInv'
  <2>1. ASSUME NEW e \in edges'
        PROVE  \E l \in Swaps(Inserted)' : e = EdgeOf(l)
    <3>1. CASE e \in edges
      <4>1. PICK l \in Swaps(Inserted) : e = EdgeOf(l)
        BY <1>2, <3>1 DEF EdgesInv
      <4>2. l \in Swaps(Inserted)'
        BY <1>5 DEF Swaps
      <4> QED BY <4>1, <4>2
    <3>2. CASE e \notin edges
      <4>1. PICK pair \in Traded(p) : e = [pool |-> p, ends |-> pair]
        BY <1>1, <3>2
      <4>2. PICK l \in Swaps({p}) : pair = {l.token_in, l.token_out}
        BY <4>1, TradedGives
      <4>3. p \in Inserted'
        BY <1>1, <4>1 DEF Inserted
      <4>4. l \in Swaps(Inserted)' /\ l.pool = p
        BY <4>3 DEF Swaps
      <4> QED BY <4>1, <4>2, <4>4 DEF EdgeOf
    <3> QED BY <3>1, <3>2
  <2>2. ASSUME NEW l \in Swaps(Inserted)'
        PROVE  EdgeOf(l) \in edges'
    <3>1. CASE l.pool = p
      <4>1. l \in Swaps({p})
        BY <3>1 DEF Swaps
      <4>2. {l.token_in, l.token_out} \in Traded(p)
        BY <4>1, TradedGives
      <4> QED BY <1>1, <3>1, <4>2 DEF EdgeOf
    <3>2. CASE l.pool # p
      <4>1. l \in Swaps(Inserted)
        BY <1>5, <3>2 DEF Swaps
      <4> QED BY <1>1, <1>2, <4>1 DEF EdgesInv
    <3> QED BY <3>1, <3>2
  <2> QED BY <2>1, <2>2 DEF EdgesInv
<1>7. FramesInv' /\ SearchInv' /\ PathsAreCycles' /\ AllCyclesFound' /\ FoundOnce'
  BY <1>1, <1>2 DEF FramesInv, SearchInv, PathsAreCycles, AllCyclesFound, FoundOnce
<1> QED BY <1>4, <1>6, <1>7 DEF IndInv

LEMMA BuildInv == IndInv /\ (AddSimplePool \/ AddCurvePool \/ AddBalancerPool) => IndInv'
<1> SUFFICES ASSUME IndInv, AddSimplePool \/ AddCurvePool \/ AddBalancerPool PROVE IndInv'
  OBVIOUS
<1>1. \E p \in Pools : AddToGraph(p, Traded(p))
  <2>1. CASE AddSimplePool
    BY <2>1 DEF AddSimplePool, Simple, Traded
  <2>2. CASE AddCurvePool
    BY <2>2 DEF AddCurvePool, Traded
  <2>3. CASE AddBalancerPool
    BY <2>3 DEF AddBalancerPool, Traded
  <2> QED BY <2>1, <2>2, <2>3
<1> QED BY <1>1, AddPoolInv

\* Without WETH in the graph there is no search.
LEMMA NoStartNodeInv == IndInv /\ NoStartNode => IndInv'
<1> SUFFICES ASSUME IndInv, NoStartNode PROVE IndInv'
  OBVIOUS
<1>1. /\ pc = "build" /\ pc' = "panicked" /\ pools' = pools /\ nodes' = nodes
      /\ edges' = edges /\ max_hops' = max_hops /\ frames' = frames /\ path' = path
      /\ visited' = visited /\ all_paths' = all_paths
  BY DEF NoStartNode
<1>2. TypeOK /\ EdgesInv /\ DOMAIN all_paths = {}
  BY <1>1 DEF IndInv, SearchInv
<1>3. TypeOK' /\ EdgesInv'
  BY <1>1, <1>2 DEF TypeOK, EdgesInv, Swaps, Inserted
<1>4. FramesInv' /\ SearchInv' /\ PathsAreCycles' /\ AllCyclesFound' /\ FoundOnce'
  BY <1>1, <1>2 DEF FramesInv, SearchInv, PathsAreCycles, AllCyclesFound, FoundOnce
<1> QED BY <1>3, <1>4 DEF IndInv

\* At the outset the search is to come to every cycle there is: its first edge is one
\* of WETH's.
LEMMA StartSearchInv == IndInv /\ StartSearch => IndInv'
<1> SUFFICES ASSUME IndInv, StartSearch PROVE IndInv'
  OBVIOUS
<1>1. /\ pc = "build" /\ pc' = "search" /\ pools' = pools /\ nodes' = nodes
      /\ edges' = edges /\ max_hops' = max_hops /\ frames' = <<Call(WETH, 0)>>
      /\ path' = path /\ visited' = visited /\ all_paths' = all_paths
  BY DEF StartSearch
<1>2. TypeOK /\ EdgesInv /\ DOMAIN all_paths = {} /\ path = <<>> /\ visited = {}
      /\ max_hops \in Nat
  BY <1>1, HopsAssumption DEF IndInv, SearchInv, TypeOK
<1> DEFINE c == Call(WETH, 0)
<1>3. c \in Calls /\ c.node = WETH
      /\ c.todo = IF max_hops = 0 THEN {} ELSE EdgesOf(WETH)
  <2>1. 0 >= max_hops <=> max_hops = 0
    BY <1>2
  <2>2. c = [node |-> WETH, todo |-> IF max_hops = 0 THEN {} ELSE EdgesOf(WETH)]
    BY <2>1 DEF Call
  <2>3. WETH \in AllTokens
    BY DEF AllTokens
  <2>4. EdgesOf(WETH) \subseteq edges
    BY DEF EdgesOf
  <2> HIDE DEF c
  <2> QED BY <2>2, <2>3, <2>4 DEF Calls
<1> HIDE DEF c
<1>4. frames' \in Seq(Calls) /\ Len(frames') = 1 /\ frames'[1] = c /\ Len(path') = 0
  <2>1. frames' = <<c>>
    BY <1>1 DEF c
  <2> HIDE DEF Calls
  <2> QED BY <1>1, <1>2, <1>3, <2>1
<1>5. TypeOK'
  <2>1. frames' \in Seq([node : AllTokens, todo : SUBSET edges'])
    BY <1>1, <1>4 DEF Calls
  <2> QED BY <1>1, <1>2, <1>3, <1>4, <2>1 DEF TypeOK
<1>6. EdgesInv'
  BY <1>1, <1>2 DEF EdgesInv, Swaps, Inserted
<1>7. FramesInv'
  BY <1>1, <1>2, <1>3, <1>4 DEF FramesInv, EdgesOf
<1>8. SearchInv'
  <2>1. ASSUME NEW n \in 2 .. max_hops, NEW s \in [1 .. n -> Swaps(Inserted)], IsCycle(s)
        PROVE  ToCome(s)'
    <3>1. Len(s) = n /\ n \in Nat /\ 1 \in 1 .. n /\ max_hops # 0
      <4>1. n \in Nat /\ max_hops # 0
        BY <1>2
      <4> QED BY <4>1
    <3>2. s[1] \in Swaps(Inserted) /\ s[1].token_in = WETH
      BY <2>1, <3>1 DEF IsCycle
    <3>3. EdgeOf(s[1]) \in c.todo
      BY <1>2, <1>3, <3>1, <3>2 DEF EdgesInv, EdgesOf, EdgeOf
    <3>4. 0 \in 0 .. Len(path') /\ 0 < Len(s) /\ EdgeOf(s[0 + 1]) \in frames'[0 + 1].todo
      BY <1>4, <3>1, <3>3
    <3>5. \A i \in 1 .. 0 : s[i] = path'[i]
      OBVIOUS
    <3> QED BY <3>4, <3>5 DEF ToCome
  <2>2. Swaps(Inserted)' = Swaps(Inserted)
    BY <1>1 DEF Swaps, Inserted
  <2>3. \A n \in 2 .. max_hops' : \A s \in [1 .. n -> Swaps(Inserted)'] :
          IsCycle(s)' => s \in DOMAIN all_paths' \/ ToCome(s)'
    BY <1>1, <2>1, <2>2 DEF IsCycle
  <2> QED BY <1>1, <1>2, <2>3 DEF SearchInv
<1>9. PathsAreCycles' /\ AllCyclesFound' /\ FoundOnce'
  BY <1>1, <1>2 DEF PathsAreCycles, AllCyclesFound, FoundOnce
<1> QED BY <1>5, <1>6, <1>7, <1>8, <1>9 DEF IndInv

(***************************************************************************)
(* The search.                                                             *)
(***************************************************************************)

\* The path with the link of an edge back to WETH, where it closes, is a cycle, and one
\* that the search was to come to.
LEMMA ClosingGives ==
  ASSUME TypeOK, EdgesInv, FramesInv, NEW e \in edges, AtEdge(e), Link(e).token_out = WETH,
         Closes(e)
  PROVE  LET c == Append(path, Link(e))
         IN  /\ c \in Seq(Links) /\ c \in Seq(Swaps(Inserted)) /\ Len(c) = Len(path) + 1
             /\ c[Len(path) + 1] = Link(e) /\ \A i \in 1 .. Len(path) : c[i] = path[i]
             /\ IsCycle(c) /\ ToCome(c)
<1> DEFINE h == Len(path) + 1
           c == Append(path, Link(e))
<1>1. /\ pc = "search" /\ Len(path) \in Nat /\ Top = frames[h] /\ e \in frames[h].todo
      /\ path \in Seq(Links)
  BY Shape DEF AtEdge, TypeOK
<1>2. /\ Link(e) \in Swaps(Inserted) /\ Link(e) \in Links /\ EdgeOf(Link(e)) = e
      /\ Link(e).token_in = Top.node /\ Link(e).pool = e.pool /\ h <= max_hops
  BY LinkGives
<1>3. /\ c \in Seq(Links) /\ Len(c) = h /\ c[h] = Link(e)
      /\ \A i \in 1 .. Len(path) : c[i] = path[i]
  BY <1>1, <1>2
<1>4. max_hops \in Nat /\ Len(path) >= 1
  BY <1>1, HopsAssumption DEF TypeOK, Closes
<1>5. /\ frames[1].node = WETH
      /\ \A i \in 1 .. Len(path) : /\ path[i].token_in = frames[i].node
                                   /\ path[i].token_out = frames[i + 1].node
                                   /\ path[i].token_out # WETH
      /\ \A i, j \in 1 .. Len(path) : i # j => path[i].token_out # path[j].token_out
  BY <1>1 DEF TypeOK
<1>6. \A i \in 1 .. Len(path) : path[i] \in Swaps(Inserted)
  <2> SUFFICES ASSUME NEW i \in 1 .. Len(path) PROVE path[i] \in Swaps(Inserted)
    OBVIOUS
  <2>1. EdgeOf(path[i]) \in edges /\ path[i] \in Links
    BY <1>1 DEF FramesInv
  <2>2. PICK l \in Swaps(Inserted) : EdgeOf(path[i]) = EdgeOf(l)
    BY <2>1 DEF EdgesInv
  <2> DEFINE m == path[i]
             r == [pool |-> l.pool, token_in |-> l.token_out, token_out |-> l.token_in]
  <2>3. /\ m \in Links /\ m.pool = l.pool
        /\ {m.token_in, m.token_out} = {l.token_in, l.token_out} /\ l.token_in # l.token_out
        /\ l \in Links /\ r \in Swaps(Inserted)
    BY <2>1, <2>2, SwapsType DEF EdgeOf
  <2>4. r \in Links
    BY <2>3, SwapsType
  <2>5. CASE m.token_in = l.token_in
    <3>1. m = l
      <4>1. EdgeOf(l) = EdgeOf(m)
        BY <2>2
      <4> HIDE DEF m
      <4> QED BY <2>3, <2>5, <4>1, SwapUnique
    <3> QED BY <3>1
  <2>6. CASE m.token_in # l.token_in
    <3>1. m = r
      BY <2>3, <2>4, <2>6 DEF Links
    <3> QED BY <2>3, <3>1
  <2> QED BY <2>5, <2>6
<1>7. c \in Seq(Swaps(Inserted))
  <2>1. path \in Seq(Swaps(Inserted))
    <3>1. path \in [1 .. Len(path) -> Swaps(Inserted)]
      BY <1>1, <1>6
    <3> QED BY <1>1, <3>1
  <2> QED BY <1>2, <2>1
<1> HIDE DEF c
<1>8. IsCycle(c)
  <2>1. Len(c) \in 2 .. max_hops
    BY <1>1, <1>2, <1>3, <1>4
  <2>2. c[1].token_in = WETH /\ c[Len(c)].token_out = WETH
    <3>1. 1 \in 1 .. Len(path)
      BY <1>1, <1>4
    <3> QED BY <1>3, <1>5, <3>1
  <2>3. ASSUME NEW i \in 1 .. Len(c) - 1
        PROVE  c[i].token_out = c[i + 1].token_in /\ c[i].token_out # WETH
    <3>1. i \in 1 .. Len(path) /\ (i + 1 \in 1 .. Len(path) \/ i + 1 = h)
      BY <1>1, <1>3
    <3>2. CASE i + 1 = h
      BY <1>1, <1>2, <1>3, <1>5, <3>1, <3>2
    <3>3. CASE i + 1 \in 1 .. Len(path)
      BY <1>3, <1>5, <3>1, <3>3
    <3> QED BY <3>1, <3>2, <3>3
  <2>4. \A i, j \in 1 .. Len(c) - 1 : i # j => c[i].token_out # c[j].token_out
    <3>1. 1 .. Len(c) - 1 = 1 .. Len(path)
      BY <1>1, <1>3
    <3> QED BY <1>3, <1>5, <3>1
  <2>5. Len(c) = 2 => PoolType[c[1].pool] # PoolType[c[2].pool]
    <3> SUFFICES ASSUME Len(c) = 2 PROVE PoolType[c[1].pool] # PoolType[c[2].pool]
      OBVIOUS
    <3>1. Len(path) = 1 /\ 1 \in 1 .. Len(path)
      <4>1. Len(path) \in Nat /\ Len(path) + 1 = 2
        BY <1>1, <1>3
      <4>2. \A q \in Nat : q + 1 = 2 => q = 1 /\ 1 \in 1 .. q
        OBVIOUS
      <4> QED BY <4>1, <4>2
    <3>2. PoolType[path[1].pool] # PoolType[e.pool]
      BY <3>1 DEF Closes
    <3> QED BY <1>2, <1>3, <3>1, <3>2
  <2> QED BY <2>1, <2>2, <2>3, <2>4, <2>5 DEF IsCycle
<1>9. ToCome(c)
  <2>1. Len(path) \in 0 .. Len(path) /\ Len(path) < Len(c)
    BY <1>1, <1>3
  <2> QED BY <1>1, <1>2, <1>3, <2>1 DEF ToCome
<1> QED BY <1>3, <1>7, <1>8, <1>9 DEF c

LEMMA CloseCycleInv == IndInv /\ CloseCycle => IndInv'
<1> SUFFICES ASSUME IndInv, CloseCycle PROVE IndInv'
  OBVIOUS
<1>1. PICK e \in edges :
        /\ AtEdge(e) /\ Link(e).token_out = WETH
        /\ all_paths' = IF Closes(e) THEN all_paths (+) SetToBag({Append(path, Link(e))})
                                     ELSE all_paths
        /\ frames' = Advanced(e)
        /\ UNCHANGED <<pc, pools, nodes, edges, max_hops, path, visited>>
  BY DEF CloseCycle
<1>2. /\ TypeOK /\ EdgesInv /\ FramesInv /\ SearchInv /\ PathsAreCycles /\ FoundOnce
      /\ pc = "search" /\ pc' = pc /\ edges' = edges /\ max_hops' = max_hops /\ path' = path
      /\ Inserted' = Inserted /\ Swaps(Inserted)' = Swaps(Inserted)
  BY <1>1 DEF IndInv, AtEdge, Inserted, Swaps
<1> DEFINE h == Len(path) + 1
           c == Append(path, Link(e))
<1>3. Closes(e) =>
        /\ c \in Seq(Links) /\ c \in Seq(Swaps(Inserted)) /\ Len(c) = h /\ c[h] = Link(e)
        /\ \A i \in 1 .. Len(path) : c[i] = path[i]
        /\ IsCycle(c) /\ ToCome(c)
  BY <1>1, <1>2, ClosingGives
<1>4. /\ Len(path) \in Nat /\ frames'[h].todo = Top.todo \ {e}
      /\ \A i \in 1 .. Len(path) : frames'[i] = frames[i]
      /\ EdgeOf(Link(e)) = e
  BY <1>1, <1>2, Shape, AdvancedGives, LinkGives
<1>5. \A s : ToCome(s)' => ToCome(s)
  BY <1>1, <1>2, ToComeAdvanced
<1>6. Closes(e) => c \notin DOMAIN all_paths
  BY <1>2, <1>3 DEF SearchInv
<1> HIDE DEF c
<1>7. /\ DOMAIN all_paths' = DOMAIN all_paths \cup (IF Closes(e) THEN {c} ELSE {})
      /\ \A s \in DOMAIN all_paths' : all_paths'[s] = 1
  <2>1. CASE Closes(e)
    <3>1. /\ DOMAIN all_paths' = DOMAIN all_paths \cup {c} /\ all_paths'[c] = 1
          /\ \A s \in DOMAIN all_paths : all_paths[s] = 1 => all_paths'[s] = 1
      <4>1. all_paths' = all_paths (+) SetToBag({c})
        BY <1>1, <2>1 DEF c
      <4>2. c \notin DOMAIN all_paths
        BY <1>6, <2>1
      <4> QED BY <4>1, <4>2, BagAdd
    <3>2. \A s \in DOMAIN all_paths : all_paths[s] = 1
      BY <1>2 DEF FoundOnce
    <3> QED BY <2>1, <3>1, <3>2
  <2>2. CASE ~Closes(e)
    BY <1>1, <1>2, <2>2 DEF FoundOnce
  <2> QED BY <2>1, <2>2
<1>8. TypeOK' /\ EdgesInv' /\ FramesInv'
  <2>1. DOMAIN all_paths' \subseteq Seq(Links)
    BY <1>2, <1>3, <1>7 DEF TypeOK
  <2> QED BY <1>1, <1>2, <2>1, LoopAdvances
<1>9. PathsAreCycles'
  <2>1. \A s \in DOMAIN all_paths' : IsCycle(s) /\ s \in Seq(Swaps(Inserted))
    BY <1>2, <1>3, <1>7 DEF PathsAreCycles
  <2> QED BY <1>2, <2>1 DEF PathsAreCycles, IsCycle
<1>10. ASSUME Closes(e), NEW s, s = c PROVE ~ToCome(s)'
  <2> SUFFICES ASSUME ToCome(s)' PROVE FALSE
    OBVIOUS
  <2>1. PICK k \in 0 .. Len(path) : EdgeOf(s[k + 1]) \in frames'[k + 1].todo
    BY <1>2 DEF ToCome
  <2>2. CASE k = Len(path)
    BY <1>3, <1>4, <1>10, <2>1, <2>2
  <2>3. CASE k # Len(path)
    <3>1. k + 1 \in 1 .. Len(path)
      BY <1>4, <2>3
    <3>2. EdgeOf(path[k + 1]) \notin frames[k + 1].todo
      BY <1>2, <3>1 DEF FramesInv
    <3> QED BY <1>3, <1>4, <1>10, <2>1, <3>1, <3>2
  <2> QED BY <2>2, <2>3
<1>11. SearchInv'
  <2>1. ASSUME NEW s \in DOMAIN all_paths' PROVE ~ToCome(s)'
    <3>1. CASE s \in DOMAIN all_paths
      BY <1>2, <1>5, <3>1 DEF SearchInv
    <3>2. CASE s \notin DOMAIN all_paths
      <4>1. Closes(e) /\ s = c
        BY <1>7, <3>2
      <4> QED BY <1>10, <4>1
    <3> QED BY <3>1, <3>2
  <2>2. ASSUME NEW n \in 2 .. max_hops, NEW s \in [1 .. n -> Swaps(Inserted)], IsCycle(s)
        PROVE  s \in DOMAIN all_paths' \/ ToCome(s)'
    <3>1. s \in DOMAIN all_paths \/ ToCome(s)
      BY <1>2, <2>2 DEF SearchInv
    <3>2. CASE s \in DOMAIN all_paths
      BY <1>7, <3>2
    <3>3. CASE ToCome(s) /\ ~ToCome(s)'
      <4>1. /\ Len(path) < Len(s) /\ \A i \in 1 .. Len(path) : s[i] = path[i]
            /\ EdgeOf(s[h]) = e
        BY <1>1, <1>2, <3>3, ToComeAdvanced
      <4>2. Len(s) = n /\ n = h /\ s[h] = Link(e) /\ n \in Nat
        <5>1. /\ Len(s) = n /\ h \in 1 .. n /\ s[h] = Link(e)
              /\ Link(e).token_out = WETH <=> Len(s) = h
          BY <1>1, <1>2, <2>2, <4>1, NextLink
        <5> QED BY <1>1, <1>4, <5>1
      <4>3. Closes(e)
        <5>1. CASE Len(path) >= 2
          BY <5>1 DEF Closes
        <5>2. CASE ~(Len(path) >= 2)
          <6>0. Len(path) = 1 /\ n = 2
            <7>1. n \in Nat /\ n >= 2 /\ n = Len(path) + 1 /\ Len(path) \in Nat
              <8>1. max_hops \in Nat
                BY <1>2, HopsAssumption DEF TypeOK
              <8> QED BY <1>4, <4>2, <8>1
            <7>2. \A q, m \in Nat : ~(q >= 2) /\ m >= 2 /\ m = q + 1 => q = 1 /\ m = 2
              OBVIOUS
            <7> QED BY <5>2, <7>1, <7>2
          <6>1. s[1] = path[1] /\ s[2] = Link(e)
            BY <4>1, <4>2, <6>0
          <6>2. PoolType[s[1].pool] # PoolType[s[2].pool]
            BY <2>2, <4>2, <6>0 DEF IsCycle
          <6>3. Link(e).pool = e.pool
            BY DEF Link
          <6> QED BY <6>0, <6>1, <6>2, <6>3 DEF Closes
        <5> QED BY <5>1, <5>2
      <4>4. s = c
        <5>1. c \in [1 .. h -> Swaps(Inserted)]
          BY <1>3, <4>3
        <5>2. \A i \in 1 .. h : s[i] = c[i]
          <6>1. \A i \in 1 .. h : i \in 1 .. Len(path) \/ i = h
            BY <1>4
          <6> QED BY <1>3, <4>1, <4>2, <4>3, <6>1
        <5> QED BY <4>2, <5>1, <5>2
      <4> QED BY <1>7, <4>3, <4>4
    <3> QED BY <3>1, <3>2, <3>3
  <2>3. \A n \in 2 .. max_hops' : \A s \in [1 .. n -> Swaps(Inserted)'] :
          IsCycle(s)' => s \in DOMAIN all_paths' \/ ToCome(s)'
    BY <1>2, <2>2 DEF IsCycle
  <2> QED BY <1>2, <2>1, <2>3 DEF SearchInv
<1>12. AllCyclesFound' /\ FoundOnce'
  BY <1>2, <1>7 DEF AllCyclesFound, FoundOnce
<1> QED BY <1>8, <1>9, <1>11, <1>12 DEF IndInv

\* What a step forward makes of the frames and of the path.
LEMMA StepForward ==
  ASSUME TypeOK, EdgesInv, FramesInv, NEW e \in edges, AtEdge(e),
         path' = Append(path, Link(e)),
         frames' = Append(Advanced(e), Call(Link(e).token_out, Len(path) + 1))
  PROVE  LET h == Len(path) + 1
         IN  /\ h \in Nat /\ h >= 1 /\ h <= max_hops /\ max_hops \in Nat
             /\ path' \in Seq(Links) /\ Len(path') = h /\ path'[h] = Link(e)
             /\ \A i \in 1 .. Len(path) : path'[i] = path[i]
             /\ frames' \in Seq(Calls) /\ Len(frames') = h + 1
             /\ \A i \in 1 .. Len(path) : frames'[i] = frames[i]
             /\ frames'[h].node = Top.node /\ frames'[h].todo = Top.todo \ {e}
             /\ frames'[h + 1].node = Link(e).token_out
             /\ frames'[h + 1].todo = IF h >= max_hops THEN {} ELSE EdgesOf(Link(e).token_out)
<1> DEFINE h == Len(path) + 1
           l == Link(e)
           c == Call(l.token_out, h)
           a == Advanced(e)
<1>1. /\ path \in Seq(Links) /\ Len(path) \in Nat /\ pc = "search"
  BY Shape DEF AtEdge, TypeOK
<1>2. l \in Links /\ h <= max_hops
  BY LinkGives
<1>3. /\ a \in Seq(Calls) /\ Len(a) = h /\ \A i \in 1 .. Len(path) : a[i] = frames[i]
      /\ a[h].node = Top.node /\ a[h].todo = Top.todo \ {e}
  BY <1>1, AdvancedGives
<1>4. /\ c.node = l.token_out
      /\ c.todo = IF h >= max_hops THEN {} ELSE EdgesOf(l.token_out)
  BY DEF Call
<1>5. c \in Calls
  <2>1. EdgesOf(l.token_out) \subseteq edges /\ l.token_out \in AllTokens
    BY <1>2 DEF EdgesOf, Links
  <2> DEFINE t == IF h >= max_hops THEN {} ELSE EdgesOf(l.token_out)
  <2>2. t \subseteq edges
    BY <2>1
  <2> HIDE DEF t
  <2>3. c = [node |-> l.token_out, todo |-> t]
    BY DEF Call, t
  <2> QED BY <2>1, <2>2, <2>3 DEF Calls
<1> HIDE DEF l, c, a, Calls
<1>6. path' = Append(path, l) /\ frames' = Append(a, c)
  BY DEF l, c, a
<1>7. /\ path' \in Seq(Links) /\ Len(path') = h /\ path'[h] = l
      /\ \A i \in 1 .. Len(path) : path'[i] = path[i]
  BY <1>1, <1>2, <1>6
<1>8. /\ frames' \in Seq(Calls) /\ Len(frames') = h + 1 /\ frames'[h + 1] = c
      /\ \A i \in 1 .. h : frames'[i] = a[i]
  <2>1. a \in Seq(Calls) /\ c \in Calls /\ frames' = Append(a, c) /\ Len(a) = h
    BY <1>3, <1>5, <1>6
  <2> HIDE DEF h
  <2>2. /\ Append(a, c) \in Seq(Calls) /\ Len(Append(a, c)) = h + 1
        /\ \A i \in 1 .. h : Append(a, c)[i] = a[i]
        /\ Append(a, c)[h + 1] = c
    BY <2>1, AppendProperties
  <2> QED BY <2>1, <2>2
<1>9. h \in 1 .. h /\ \A i \in 1 .. Len(path) : i \in 1 .. h
  BY <1>1
<1>10. h \in Nat /\ h >= 1 /\ max_hops \in Nat
  BY <1>1, HopsAssumption DEF TypeOK
<1> QED BY <1>2, <1>3, <1>4, <1>7, <1>8, <1>9, <1>10 DEF l, c

LEMMA DescendInv == IndInv /\ Descend => IndInv'
<1> SUFFICES ASSUME IndInv, Descend PROVE IndInv'
  OBVIOUS
<1>1. PICK e \in edges :
        /\ AtEdge(e) /\ Link(e).token_out # WETH /\ Link(e).token_out \notin visited
        /\ path' = Append(path, Link(e))
        /\ visited' = visited \cup {Link(e).token_out}
        /\ frames' = Append(Advanced(e), Call(Link(e).token_out, Len(path) + 1))
        /\ UNCHANGED <<pc, pools, nodes, edges, max_hops, all_paths>>
  BY DEF Descend
<1>2. /\ TypeOK /\ EdgesInv /\ FramesInv /\ SearchInv /\ PathsAreCycles /\ FoundOnce
      /\ pc = "search" /\ pc' = pc /\ edges' = edges /\ max_hops' = max_hops
      /\ pools' = pools /\ nodes' = nodes /\ all_paths' = all_paths
      /\ Inserted' = Inserted /\ Swaps(Inserted)' = Swaps(Inserted)
  BY <1>1 DEF IndInv, AtEdge, Inserted, Swaps
<1> DEFINE h == Len(path) + 1
           l == Link(e)
<1>3. /\ l \in Swaps(Inserted) /\ l \in Links /\ EdgeOf(l) = e /\ l.token_in = Top.node
      /\ l.token_in # l.token_out
  BY <1>1, <1>2, LinkGives
<1>4. /\ h \in Nat /\ h >= 1 /\ h <= max_hops /\ max_hops \in Nat
      /\ path' \in Seq(Links) /\ Len(path') = h /\ path'[h] = l
      /\ \A i \in 1 .. Len(path) : path'[i] = path[i]
      /\ frames' \in Seq(Calls) /\ Len(frames') = h + 1
      /\ \A i \in 1 .. Len(path) : frames'[i] = frames[i]
      /\ frames'[h].node = Top.node /\ frames'[h].todo = Top.todo \ {e}
      /\ frames'[h + 1].node = l.token_out
      /\ frames'[h + 1].todo = IF h >= max_hops THEN {} ELSE EdgesOf(l.token_out)
  BY <1>1, <1>2, StepForward
<1>5. /\ Len(path) \in Nat /\ Len(frames) = h /\ Top = frames[h] /\ e \in frames[h].todo
      /\ h \in 1 .. h /\ h + 1 \in 1 .. h + 1
      /\ \A i \in 1 .. h : (i \in 1 .. Len(path) \/ i = h) /\ i \in 1 .. h + 1
  BY <1>1, <1>2, Shape DEF AtEdge
<1> HIDE DEF l
<1>6. TypeOK'
  <2>1. frames' \in Seq([node : AllTokens, todo : SUBSET edges'])
    BY <1>2, <1>4 DEF Calls
  <2>2. /\ frames[1].node = WETH
        /\ \A i \in 1 .. Len(path) : /\ path[i].token_in = frames[i].node
                                     /\ path[i].token_out = frames[i + 1].node
        /\ visited = {path[i].token_out : i \in 1 .. Len(path)} /\ WETH \notin visited
        /\ \A i, j \in 1 .. Len(path) : i # j => path[i].token_out # path[j].token_out
    BY <1>2 DEF TypeOK
  <2>3. \A i \in 1 .. h : frames'[i].node = frames[i].node
    BY <1>4, <1>5
  <2>4. frames'[1].node = WETH
    <3>1. 1 \in 1 .. h
      BY <1>4
    <3> QED BY <2>2, <2>3, <3>1
  <2>5. ASSUME NEW i \in 1 .. h
        PROVE  path'[i].token_in = frames'[i].node /\ path'[i].token_out = frames'[i + 1].node
    <3>1. CASE i = h
      BY <1>3, <1>4, <3>1
    <3>2. CASE i \in 1 .. Len(path)
      <4>1. i + 1 \in 1 .. h
        BY <1>5, <3>2
      <4> QED BY <1>4, <2>2, <2>3, <3>2, <4>1
    <3> QED BY <1>5, <3>1, <3>2
  <2>6. l.token_out \notin visited /\ l.token_out # WETH
        /\ visited' = visited \cup {l.token_out}
    BY <1>1 DEF l
  <2>7. visited' = {path'[i].token_out : i \in 1 .. h}
    <3>1. ASSUME NEW t \in visited' PROVE \E i \in 1 .. h : t = path'[i].token_out
      <4>1. CASE t = l.token_out
        BY <1>4, <1>5, <4>1
      <4>2. CASE t \in visited
        <5>1. PICK i \in 1 .. Len(path) : t = path[i].token_out
          BY <2>2, <4>2
        <5>2. i \in 1 .. h
          BY <1>5
        <5> QED BY <1>4, <5>1, <5>2
      <4> QED BY <2>6, <3>1, <4>1, <4>2
    <3>2. ASSUME NEW i \in 1 .. h PROVE path'[i].token_out \in visited'
      <4>1. CASE i = h
        BY <1>4, <2>6, <4>1
      <4>2. CASE i \in 1 .. Len(path)
        BY <1>4, <2>2, <2>6, <4>2
      <4> QED BY <1>5, <4>1, <4>2
    <3> QED BY <3>1, <3>2
  <2>8. \A i, j \in 1 .. h : i # j => path'[i].token_out # path'[j].token_out
    <3> SUFFICES ASSUME NEW i \in 1 .. h, NEW j \in 1 .. h, i # j
                 PROVE  path'[i].token_out # path'[j].token_out
      OBVIOUS
    <3>1. \A k \in 1 .. Len(path) : path'[k].token_out \in visited
      BY <1>4, <2>2
    <3>2. CASE i = h
      <4>1. j \in 1 .. Len(path)
        BY <1>5, <3>2
      <4> QED BY <1>4, <2>6, <3>1, <3>2, <4>1
    <3>3. CASE j = h
      <4>1. i \in 1 .. Len(path)
        BY <1>5, <3>3
      <4> QED BY <1>4, <2>6, <3>1, <3>3, <4>1
    <3>4. CASE i \in 1 .. Len(path) /\ j \in 1 .. Len(path)
      BY <1>4, <2>2, <3>4
    <3> QED BY <1>5, <3>2, <3>3, <3>4
  <2>9. WETH \notin visited'
    BY <2>2, <2>6
  <2>10. Len(frames') = Len(path') + 1 /\ Len(path') <= max_hops'
    BY <1>2, <1>4
  <2>11. path' \in Seq(Links) /\ Len(path') = h
    BY <1>4
  <2>12. /\ pc' \in {"build", "search", "done", "panicked"}
         /\ pools' \subseteq Pools /\ nodes' \subseteq AllTokens /\ edges' \subseteq Edges
         /\ max_hops' \in Hops /\ DOMAIN all_paths' \subseteq Seq(Links)
         /\ pc' = "search"
    BY <1>2 DEF TypeOK
  <2> HIDE DEF h
  <2> QED BY <2>1, <2>4, <2>5, <2>7, <2>8, <2>9, <2>10, <2>11, <2>12 DEF TypeOK
<1>7. EdgesInv'
  BY <1>2 DEF EdgesInv
<1>8. FramesInv'
  <2>1. ASSUME NEW i \in 1 .. h + 1, NEW f \in frames'[i].todo
        PROVE  frames'[i].node \in f.ends /\ i <= max_hops
    <3>1. CASE i = h + 1
      <4>1. f \in EdgesOf(l.token_out) /\ ~(h >= max_hops)
        BY <1>4, <2>1, <3>1
      <4>2. h + 1 <= max_hops
        BY <1>4, <4>1
      <4> QED BY <1>4, <3>1, <4>1, <4>2 DEF EdgesOf
    <3>2. CASE i \in 1 .. h
      <4>1. f \in frames[i].todo /\ frames'[i].node = frames[i].node
        BY <1>4, <1>5, <2>1, <3>2
      <4> QED BY <1>2, <1>5, <3>2, <4>1 DEF FramesInv
    <3>3. i = h + 1 \/ i \in 1 .. h
      BY <1>4
    <3> QED BY <3>1, <3>2, <3>3
  <2>2. ASSUME NEW i \in 1 .. h
        PROVE  EdgeOf(path'[i]) \in edges \ frames'[i].todo
    <3>1. CASE i = h
      BY <1>3, <1>4, <3>1
    <3>2. CASE i \in 1 .. Len(path)
      BY <1>2, <1>4, <3>2 DEF FramesInv
    <3> QED BY <1>5, <3>1, <3>2
  <2> HIDE DEF h
  <2> QED BY <1>2, <1>4, <2>1, <2>2 DEF FramesInv
<1>9. ASSUME NEW s, ToCome(s)' PROVE ToCome(s)
  <2>1. PICK k \in 0 .. h :
          /\ k < Len(s) /\ \A i \in 1 .. k : s[i] = path'[i]
          /\ EdgeOf(s[k + 1]) \in frames'[k + 1].todo
    BY <1>4, <1>9 DEF ToCome
  <2>2. CASE k = h
    <3>1. Len(path) < Len(s) /\ Len(path) \in 0 .. Len(path)
      <4>1. h < Len(s) /\ Len(path) < h
        BY <1>5, <2>1, <2>2
      <4> QED BY <1>5, <2>1, <2>2
    <3>2. s[h] = l /\ \A i \in 1 .. Len(path) : s[i] = path[i]
      BY <1>4, <1>5, <2>1, <2>2
    <3> QED BY <1>3, <1>5, <3>1, <3>2 DEF ToCome
  <2>3. CASE k \in 0 .. Len(path)
    <3>1. \A i \in 1 .. k : i \in 1 .. Len(path)
      BY <1>5, <2>3
    <3>2. \A i \in 1 .. k : s[i] = path[i]
      BY <1>4, <2>1, <3>1
    <3>3. k + 1 \in 1 .. h
      BY <1>5, <2>3
    <3>4. EdgeOf(s[k + 1]) \in frames[k + 1].todo
      BY <1>4, <1>5, <2>1, <3>3
    <3> QED BY <2>1, <2>3, <3>2, <3>4 DEF ToCome
  <2>4. k = h \/ k \in 0 .. Len(path)
    BY <1>5
  <2> QED BY <2>2, <2>3, <2>4
<1>10. ASSUME NEW n \in 2 .. max_hops, NEW s \in [1 .. n -> Swaps(Inserted)], IsCycle(s),
              ToCome(s)
       PROVE  ToCome(s)'
  <2>1. PICK k \in 0 .. Len(path) :
          /\ k < Len(s) /\ \A i \in 1 .. k : s[i] = path[i]
          /\ EdgeOf(s[k + 1]) \in frames[k + 1].todo
    BY <1>10 DEF ToCome
  <2>2. CASE EdgeOf(s[k + 1]) \in frames'[k + 1].todo
    <3>1. k \in 0 .. Len(path') /\ \A i \in 1 .. k : i \in 1 .. Len(path)
      BY <1>4, <1>5
    <3>2. \A i \in 1 .. k : s[i] = path'[i]
      BY <1>4, <2>1, <3>1
    <3> QED BY <2>1, <2>2, <3>1, <3>2 DEF ToCome
  <2>3. CASE EdgeOf(s[k + 1]) \notin frames'[k + 1].todo
    <3>1. k = Len(path) /\ EdgeOf(s[h]) = e
      <4>1. k + 1 \in 1 .. Len(path) \/ k = Len(path)
        BY <1>5
      <4> QED BY <1>4, <1>5, <2>1, <2>3, <4>1
    <3>2. /\ Len(s) = n /\ h \in 1 .. n /\ s[h] = l /\ Len(s) # h
      <4>1. /\ Len(path) < Len(s) /\ \A i \in 1 .. Len(path) : s[i] = path[i]
            /\ EdgeOf(s[Len(path) + 1]) = e
        BY <2>1, <3>1
      <4> QED BY <1>1, <1>2, <1>10, <4>1, NextLink DEF l
    <3>3. n \in Nat /\ n <= max_hops /\ h < n /\ h + 1 \in 1 .. n /\ h \in 1 .. n - 1
          /\ ~(h >= max_hops)
      BY <1>4, <3>2
    <3>4. s[h + 1] \in Swaps(Inserted) /\ s[h + 1].token_in = l.token_out
      BY <1>10, <3>2, <3>3 DEF IsCycle
    <3>5. EdgeOf(s[h + 1]) \in EdgesOf(l.token_out)
      BY <1>2, <3>4 DEF EdgesInv, EdgesOf, EdgeOf
    <3>6. EdgeOf(s[h + 1]) \in frames'[h + 1].todo
      BY <1>4, <3>3, <3>5
    <3>7. \A i \in 1 .. h : s[i] = path'[i]
      BY <1>4, <1>5, <2>1, <3>1, <3>2
    <3>8. h \in 0 .. Len(path') /\ h < Len(s)
      BY <1>4, <3>2, <3>3
    <3> QED BY <3>6, <3>7, <3>8 DEF ToCome
  <2> QED BY <2>2, <2>3
<1>11. SearchInv'
  <2>1. \A s \in DOMAIN all_paths' : ~ToCome(s)'
    BY <1>2, <1>9 DEF SearchInv
  <2>2. \A n \in 2 .. max_hops' : \A s \in [1 .. n -> Swaps(Inserted)'] :
          IsCycle(s)' => s \in DOMAIN all_paths' \/ ToCome(s)'
    BY <1>2, <1>10 DEF SearchInv, IsCycle
  <2> QED BY <1>2, <2>1, <2>2 DEF SearchInv
<1>12. PathsAreCycles' /\ AllCyclesFound' /\ FoundOnce'
  BY <1>2 DEF PathsAreCycles, IsCycle, AllCyclesFound, FoundOnce
<1> QED BY <1>6, <1>7, <1>8, <1>11, <1>12 DEF IndInv

LEMMA SkipVisitedInv == IndInv /\ SkipVisited => IndInv'
<1> SUFFICES ASSUME IndInv, SkipVisited PROVE IndInv'
  OBVIOUS
<1>1. PICK e \in edges :
        /\ AtEdge(e) /\ Link(e).token_out # WETH /\ Link(e).token_out \in visited
        /\ frames' = Advanced(e)
        /\ UNCHANGED <<pc, pools, nodes, edges, max_hops, path, visited, all_paths>>
  BY DEF SkipVisited
<1>2. /\ TypeOK /\ EdgesInv /\ FramesInv /\ SearchInv /\ PathsAreCycles /\ FoundOnce
      /\ pc = "search" /\ pc' = pc /\ edges' = edges /\ max_hops' = max_hops /\ path' = path
      /\ all_paths' = all_paths
      /\ Inserted' = Inserted /\ Swaps(Inserted)' = Swaps(Inserted)
  BY <1>1 DEF IndInv, AtEdge, Inserted, Swaps
<1>3. TypeOK' /\ EdgesInv' /\ FramesInv'
  <2>1. DOMAIN all_paths' \subseteq Seq(Links)
    BY <1>2 DEF TypeOK
  <2> QED BY <1>1, <1>2, <2>1, LoopAdvances
<1>4. ASSUME NEW n \in 2 .. max_hops, NEW s \in [1 .. n -> Swaps(Inserted)], IsCycle(s),
             ToCome(s)
      PROVE  ToCome(s)'
  <2> SUFFICES ASSUME ~ToCome(s)' PROVE FALSE
    OBVIOUS
  <2> DEFINE h == Len(path) + 1
  <2>1. /\ Len(path) < Len(s) /\ \A i \in 1 .. Len(path) : s[i] = path[i]
        /\ EdgeOf(s[h]) = e
    BY <1>1, <1>2, <1>4, ToComeAdvanced
  <2>2. Len(s) = n /\ h \in 1 .. n /\ s[h] = Link(e) /\ Len(s) # h
    BY <1>1, <1>2, <1>4, <2>1, NextLink
  <2>3. PICK i \in 1 .. Len(path) : path[i].token_out = Link(e).token_out
    <3>1. visited = {path[i].token_out : i \in 1 .. Len(path)} /\ Link(e).token_out \in visited
      BY <1>1, <1>2 DEF TypeOK
    <3> QED BY <3>1
  <2>4. i \in 1 .. Len(s) - 1 /\ h \in 1 .. Len(s) - 1 /\ i # h
    <3>1. n \in Nat /\ Len(path) \in Nat
      <4>1. max_hops \in Nat
        BY <1>2, HopsAssumption DEF TypeOK
      <4> QED BY <1>2, <4>1, Shape
    <3> QED BY <2>2, <3>1
  <2> QED BY <1>4, <2>1, <2>2, <2>3, <2>4 DEF IsCycle
<1>5. SearchInv'
  <2>1. \A s : ToCome(s)' => ToCome(s)
    BY <1>1, <1>2, ToComeAdvanced
  <2>2. \A s \in DOMAIN all_paths' : ~ToCome(s)'
    BY <1>2, <2>1 DEF SearchInv
  <2>3. \A n \in 2 .. max_hops' : \A s \in [1 .. n -> Swaps(Inserted)'] :
          IsCycle(s)' => s \in DOMAIN all_paths' \/ ToCome(s)'
    BY <1>2, <1>4 DEF SearchInv, IsCycle
  <2> QED BY <1>2, <2>2, <2>3 DEF SearchInv
<1>6. PathsAreCycles' /\ AllCyclesFound' /\ FoundOnce'
  BY <1>2 DEF PathsAreCycles, IsCycle, AllCyclesFound, FoundOnce
<1> QED BY <1>3, <1>5, <1>6 DEF IndInv

\* What is left of a sequence without its last element.
LEMMA FrontGives ==
  ASSUME NEW S, NEW q \in Seq(S), Len(q) # 0
  PROVE  /\ Front(q) \in Seq(S) /\ Len(Front(q)) = Len(q) - 1
         /\ \A i \in 1 .. Len(q) - 1 : Front(q)[i] = q[i]
<1>1. Len(q) \in Nat /\ Len(q) - 1 \in Nat
  OBVIOUS
<1> DEFINE m == Len(q) - 1
<1>2. Front(q) = SubSeq(q, 1, m)
  BY DEF Front
<1>3. \A i \in 1 .. m : q[i] \in S
  OBVIOUS
<1>4. m \in Nat /\ 1 \in Int /\ m \in Int
  BY <1>1
<1> HIDE DEF m
<1>5. /\ SubSeq(q, 1, m) \in Seq(S) /\ Len(SubSeq(q, 1, m)) = IF 1 <= m THEN m - 1 + 1 ELSE 0
      /\ \A i \in 1 .. m - 1 + 1 : SubSeq(q, 1, m)[i] = q[1 + i - 1]
  BY <1>3, <1>4, SubSeqProperties
<1>6. (IF 1 <= m THEN m - 1 + 1 ELSE 0) = m /\ m - 1 + 1 = m /\ \A i \in 1 .. m : 1 + i - 1 = i
  BY <1>4
<1>7. Front(q) \in Seq(S) /\ Len(Front(q)) = m /\ \A i \in 1 .. m : Front(q)[i] = q[i]
  BY <1>2, <1>5, <1>6
<1> QED BY <1>7 DEF m

LEMMA ReturnInv == IndInv /\ Return => IndInv'
<1> SUFFICES ASSUME IndInv, Return PROVE IndInv'
  OBVIOUS
<1>1. /\ pc = "search" /\ pc' = pc /\ Len(frames) > 1 /\ Top.todo = {}
      /\ frames' = Front(frames) /\ path' = Front(path) /\ visited' = visited \ {Top.node}
      /\ pools' = pools /\ nodes' = nodes /\ edges' = edges /\ max_hops' = max_hops
      /\ all_paths' = all_paths
  BY DEF Return
<1>2. /\ TypeOK /\ EdgesInv /\ FramesInv /\ SearchInv /\ PathsAreCycles /\ FoundOnce
      /\ Inserted' = Inserted /\ Swaps(Inserted)' = Swaps(Inserted)
  BY <1>1 DEF IndInv, Inserted, Swaps
<1> DEFINE h == Len(path)
<1>3. /\ h \in Nat /\ Len(frames) = h + 1 /\ Top = frames[h + 1] /\ frames[h + 1].todo = {}
      /\ path \in Seq(Links) /\ frames \in Seq(Calls)
  BY <1>1, <1>2, Shape DEF TypeOK, Calls
<1>4. /\ h >= 1 /\ h - 1 \in Nat /\ h \in 1 .. h
      /\ \A i \in 1 .. h : i = h \/ i \in 1 .. h - 1
      /\ \A i \in 1 .. h - 1 : i \in 1 .. h /\ i + 1 \in 1 .. h /\ i # h
  <2>1. h \in Nat /\ h + 1 > 1
    BY <1>1, <1>3
  <2> HIDE DEF h
  <2> QED BY <2>1
<1>5. /\ path' \in Seq(Links) /\ Len(path') = h - 1
      /\ \A i \in 1 .. h - 1 : path'[i] = path[i]
  BY <1>1, <1>3, <1>4, FrontGives
<1>6. /\ frames' \in Seq(Calls) /\ Len(frames') = h
      /\ \A i \in 1 .. h : frames'[i] = frames[i]
  <2>1. Len(frames) # 0 /\ Len(frames) - 1 = h
    BY <1>3
  <2> HIDE DEF Calls
  <2> QED BY <1>1, <1>3, <2>1, FrontGives
<1>7. TypeOK'
  <2>1. frames' \in Seq([node : AllTokens, todo : SUBSET edges'])
    BY <1>1, <1>6 DEF Calls
  <2>2. /\ frames[1].node = WETH /\ h <= max_hops
        /\ \A i \in 1 .. h : /\ path[i].token_in = frames[i].node
                             /\ path[i].token_out = frames[i + 1].node
        /\ visited = {path[i].token_out : i \in 1 .. h} /\ WETH \notin visited
        /\ \A i, j \in 1 .. h : i # j => path[i].token_out # path[j].token_out
    BY <1>1, <1>2 DEF TypeOK
  <2>3. frames'[1].node = WETH
    <3>1. 1 \in 1 .. h
      BY <1>4
    <3> QED BY <1>6, <2>2, <3>1
  <2>4. \A i \in 1 .. h - 1 : /\ path'[i].token_in = frames'[i].node
                              /\ path'[i].token_out = frames'[i + 1].node
    BY <1>4, <1>5, <1>6, <2>2
  <2>5. Top.node = path[h].token_out
    BY <1>3, <1>4, <2>2
  <2>6. visited' = {path'[i].token_out : i \in 1 .. h - 1}
    <3>1. ASSUME NEW t \in visited' PROVE \E i \in 1 .. h - 1 : t = path'[i].token_out
      <4>1. PICK i \in 1 .. h : t = path[i].token_out
        BY <1>1, <2>2
      <4>2. i # h
        BY <1>1, <2>5, <4>1
      <4> QED BY <1>4, <1>5, <4>1, <4>2
    <3>2. ASSUME NEW i \in 1 .. h - 1 PROVE path'[i].token_out \in visited'
      <4>1. path[i].token_out \in visited /\ path[i].token_out # Top.node
        BY <1>4, <2>2, <2>5
      <4> QED BY <1>1, <1>5, <4>1
    <3> QED BY <3>1, <3>2
  <2>7. \A i, j \in 1 .. h - 1 : i # j => path'[i].token_out # path'[j].token_out
    <3>1. \A i \in 1 .. h - 1 : i \in 1 .. h /\ path'[i] = path[i]
      BY <1>4, <1>5
    <3> QED BY <2>2, <3>1
  <2>8. WETH \notin visited'
    BY <1>1, <2>2
  <2>9. Len(frames') = Len(path') + 1 /\ Len(path') <= max_hops'
    <3>1. max_hops \in Nat
      BY <1>2, HopsAssumption DEF TypeOK
    <3> QED BY <1>1, <1>3, <1>5, <1>6, <2>2, <3>1
  <2>10. /\ pc' \in {"build", "search", "done", "panicked"}
         /\ pools' \subseteq Pools /\ nodes' \subseteq AllTokens /\ edges' \subseteq Edges
         /\ max_hops' \in Hops /\ DOMAIN all_paths' \subseteq Seq(Links)
         /\ pc' = "search"
    BY <1>1, <1>2 DEF TypeOK
  <2>11. path' \in Seq(Links) /\ Len(path') = h - 1
    BY <1>5
  <2> HIDE DEF h
  <2> QED BY <2>1, <2>3, <2>4, <2>6, <2>7, <2>8, <2>9, <2>10, <2>11 DEF TypeOK
<1>8. EdgesInv'
  BY <1>1, <1>2 DEF EdgesInv
<1>9. FramesInv'
  <2>1. /\ \A i \in 1 .. h + 1 : \A e \in frames[i].todo :
             frames[i].node \in e.ends /\ i <= max_hops
        /\ \A i \in 1 .. h : EdgeOf(path[i]) \in edges \ frames[i].todo
    BY <1>1, <1>2, <1>3 DEF FramesInv
  <2>2. \A i \in 1 .. h : i \in 1 .. h + 1
    BY <1>3
  <2>3. /\ \A i \in 1 .. h : \A e \in frames'[i].todo :
             frames'[i].node \in e.ends /\ i <= max_hops'
        /\ \A i \in 1 .. h - 1 : EdgeOf(path'[i]) \in edges' \ frames'[i].todo
    BY <1>1, <1>4, <1>5, <1>6, <2>1, <2>2
  <2> HIDE DEF h
  <2> QED BY <1>5, <1>6, <2>3 DEF FramesInv
<1>10. \A s : ToCome(s)' <=> ToCome(s)
  <2> SUFFICES ASSUME NEW s PROVE ToCome(s)' <=> ToCome(s)
    OBVIOUS
  <2> DEFINE At(k) == /\ k < Len(s) /\ \A i \in 1 .. k : s[i] = path[i]
                      /\ EdgeOf(s[k + 1]) \in frames[k + 1].todo
             AtNext(k) == /\ k < Len(s) /\ \A i \in 1 .. k : s[i] = path'[i]
                          /\ EdgeOf(s[k + 1]) \in frames'[k + 1].todo
  <2>1. \A k \in 0 .. h - 1 : k + 1 \in 1 .. h /\ \A i \in 1 .. k : i \in 1 .. h - 1
    BY <1>3, <1>4
  <2>2. \A k \in 0 .. h - 1 : AtNext(k) <=> At(k)
    <3> SUFFICES ASSUME NEW k \in 0 .. h - 1 PROVE AtNext(k) <=> At(k)
      OBVIOUS
    <3>1. frames'[k + 1] = frames[k + 1] /\ \A i \in 1 .. k : path'[i] = path[i]
      BY <1>5, <1>6, <2>1
    <3> QED BY <3>1
  <2>3. ~At(h)
    BY <1>3
  <2>4. (\E k \in 0 .. h : At(k)) <=> (\E k \in 0 .. h - 1 : At(k))
    <3>1. \A k : k \in 0 .. h <=> (k \in 0 .. h - 1 \/ k = h)
      BY <1>3, <1>4
    <3> HIDE DEF At, h
    <3> QED BY <2>3, <3>1
  <2>5. ToCome(s) <=> \E k \in 0 .. h : At(k)
    BY DEF ToCome
  <2>6. ToCome(s)' <=> \E k \in 0 .. h - 1 : AtNext(k)
    BY <1>5 DEF ToCome
  <2> HIDE DEF At, AtNext
  <2> QED BY <2>2, <2>4, <2>5, <2>6
<1>11. SearchInv'
  <2>1. \A s \in DOMAIN all_paths' : ~ToCome(s)'
    BY <1>1, <1>2, <1>10 DEF SearchInv
  <2>2. \A n \in 2 .. max_hops' : \A s \in [1 .. n -> Swaps(Inserted)'] :
          IsCycle(s)' => s \in DOMAIN all_paths' \/ ToCome(s)'
    BY <1>1, <1>2, <1>10 DEF SearchInv, IsCycle
  <2> QED BY <1>1, <2>1, <2>2 DEF SearchInv
<1>12. PathsAreCycles' /\ AllCyclesFound' /\ FoundOnce'
  BY <1>1, <1>2 DEF PathsAreCycles, IsCycle, AllCyclesFound, FoundOnce
<1> QED BY <1>7, <1>8, <1>9, <1>11, <1>12 DEF IndInv

\* When the outermost call returns there is nothing to come: what is there has been found.
LEMMA FinishInv == IndInv /\ Finish => IndInv'
<1> SUFFICES ASSUME IndInv, Finish PROVE IndInv'
  OBVIOUS
<1>1. /\ pc = "search" /\ pc' = "done" /\ Len(frames) = 1 /\ Top.todo = {} /\ frames' = <<>>
      /\ pools' = pools /\ nodes' = nodes /\ edges' = edges /\ max_hops' = max_hops
      /\ path' = path /\ visited' = visited /\ all_paths' = all_paths
  BY DEF Finish
<1>2. /\ TypeOK /\ EdgesInv /\ SearchInv /\ PathsAreCycles /\ FoundOnce
      /\ Inserted' = Inserted /\ Swaps(Inserted)' = Swaps(Inserted)
  BY <1>1 DEF IndInv, Inserted, Swaps
<1>3. Len(path) = 0 /\ Top = frames[1] /\ path = <<>> /\ visited = {}
  <2>1. Len(path) \in Nat /\ 1 = Len(path) + 1 /\ Top = frames[Len(path) + 1]
    BY <1>1, <1>2, Shape
  <2>2. Len(path) = 0
    BY <2>1
  <2>3. path \in Seq(Links) /\ visited = {path[i].token_out : i \in 1 .. Len(path)}
    BY <1>1, <1>2 DEF TypeOK
  <2>4. path = <<>>
    BY <2>2, <2>3
  <2> QED BY <2>1, <2>2, <2>3, <2>4
<1>4. TypeOK'
  <2>1. frames' \in Seq([node : AllTokens, todo : SUBSET edges'])
    BY <1>1
  <2> QED BY <1>1, <1>2, <1>3, <2>1 DEF TypeOK
<1>5. EdgesInv' /\ FramesInv' /\ SearchInv'
  BY <1>1, <1>2 DEF EdgesInv, FramesInv, SearchInv
<1>6. \A s : ~ToCome(s)
  <2> SUFFICES ASSUME NEW s, ToCome(s) PROVE FALSE
    OBVIOUS
  <2>1. PICK k \in 0 .. Len(path) : EdgeOf(s[k + 1]) \in frames[k + 1].todo
    BY DEF ToCome
  <2>2. k + 1 = 1
    BY <1>3
  <2> QED BY <1>1, <1>3, <2>1, <2>2
<1>7. PathsAreCycles' /\ FoundOnce'
  BY <1>1, <1>2 DEF PathsAreCycles, IsCycle, FoundOnce
<1>8. AllCyclesFound'
  BY <1>1, <1>2, <1>6 DEF AllCyclesFound, SearchInv, IsCycle
<1> QED BY <1>4, <1>5, <1>7, <1>8 DEF IndInv

LEMMA StutterInv == IndInv /\ UNCHANGED vars => IndInv'
<1> SUFFICES ASSUME IndInv, UNCHANGED vars PROVE IndInv'
  OBVIOUS
<1>1. /\ pc' = pc /\ pools' = pools /\ nodes' = nodes /\ edges' = edges
      /\ max_hops' = max_hops /\ frames' = frames /\ path' = path /\ visited' = visited
      /\ all_paths' = all_paths
  BY DEF vars
<1>2. Inserted' = Inserted /\ Swaps(Inserted)' = Swaps(Inserted)
  BY <1>1 DEF Inserted, Swaps
<1>3. TypeOK' /\ EdgesInv' /\ FramesInv'
  BY <1>1, <1>2 DEF IndInv, TypeOK, EdgesInv, FramesInv
<1>4. SearchInv'
  <2>1. \A s : (ToCome(s)' <=> ToCome(s)) /\ (IsCycle(s)' <=> IsCycle(s))
    BY <1>1 DEF ToCome, IsCycle
  <2> QED BY <1>1, <1>2, <2>1 DEF IndInv, SearchInv
<1>5. PathsAreCycles' /\ AllCyclesFound' /\ FoundOnce'
  BY <1>1, <1>2 DEF IndInv, PathsAreCycles, AllCyclesFound, FoundOnce, IsCycle
<1> QED BY <1>3, <1>4, <1>5 DEF IndInv

LEMMA Invariance == Spec => []IndInv
<1>1. IndInv /\ [Next]_vars => IndInv'
  BY BuildInv, StartSearchInv, NoStartNodeInv, CloseCycleInv, DescendInv, SkipVisitedInv,
     ReturnInv, FinishInv, StutterInv
     DEF Next
<1> QED BY InitInv, <1>1, PTL DEF Spec

(***************************************************************************)
(* The theorems.                                                           *)
(***************************************************************************)

\* The calls of construct_cycles keep the path, the visited tokens and each other in
\* step, whatever the order of the edges: pop and remove undo what was done before a call.
THEOREM TypeCorrect == Spec => []TypeOK
<1>1. IndInv => TypeOK
  BY DEF IndInv
<1> QED BY Invariance, <1>1, PTL

\* Whatever find_all_arbitrage_paths collects is a cycle of swaps that the pools allow.
THEOREM OnlyCycles == Spec => []PathsAreCycles
<1>1. IndInv => PathsAreCycles
  BY DEF IndInv
<1> QED BY Invariance, <1>1, PTL

\* When it returns it has collected every such cycle, in both directions: the marking
\* of visited tokens, their release, and the edges a call has behind it lose none.
THEOREM EveryCycle == Spec => []AllCyclesFound
<1>1. IndInv => AllCyclesFound
  BY DEF IndInv
<1> QED BY Invariance, <1>1, PTL

\* And it has collected none of them twice, where several pools trade the same tokens too.
THEOREM NoCycleTwice == Spec => []FoundOnce
<1>1. IndInv => FoundOnce
  BY DEF IndInv
<1> QED BY Invariance, <1>1, PTL
=============================================================================
