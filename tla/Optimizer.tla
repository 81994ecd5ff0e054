----------------------------- MODULE Optimizer -----------------------------
(***************************************************************************)
(* The netlist optimizer, ryzr_core::optimize.                             *)
(*                                                                         *)
(* The Rewriter's state is its node list: `consts` and `cse` of the code   *)
(* cache exactly the Const and the Gate nodes of that list, so looking     *)
(* them up is looking the node up. A rewrite takes node ids and returns    *)
(* [nodes, id]: the node list afterwards and the id that stands for the    *)
(* rewritten gate. Nodes have the form of instructions.                    *)
(***************************************************************************)
EXTENDS Netlist

Found(nodes, id) == [nodes |-> nodes, id |-> id]

push(nodes, node) == Found(Append(nodes, node), Len(nodes) + 1)

\* The node equal to `node`, pushed if there is none.
Intern(nodes, node) ==
  IF Contains(nodes, node)
  THEN Found(nodes, CHOOSE id \in DOMAIN nodes : nodes[id] = node)
  ELSE push(nodes, node)

IsConst(nodes, id, v) == nodes[id] = Const(v)
IsKonst(nodes, id) == nodes[id].kind = "Const"
konst(nodes, v) == Intern(nodes, Const(v))

gate(nodes, op, ins) ==
  Intern(nodes, Gate(op, IF op \in Commutative /\ ins[1] > ins[2]
                         THEN <<ins[2], ins[1]>> ELSE ins))

Inverts(nodes, x, y) == nodes[x] = Gate("Not", <<y>>)
complements(nodes, a, b) == Inverts(nodes, a, b) \/ Inverts(nodes, b, a)

\* Mutant: only constants are folded.
NotKeepsDoubles(nodes, x) ==
  IF IsKonst(nodes, x) THEN konst(nodes, ~nodes[x].value) ELSE gate(nodes, "Not", <<x>>)

not(nodes, x) ==
  IF IsKonst(nodes, x) THEN konst(nodes, ~nodes[x].value)
  ELSE IF IsGate(nodes[x]) /\ nodes[x].op = "Not" THEN Found(nodes, nodes[x].ins[1])
  ELSE gate(nodes, "Not", <<x>>)

\* Mutant: the inverter is emitted without simplifying it.
NotIfRaw(inverted, nodes, x) ==
  IF inverted THEN gate(nodes, "Not", <<x>>) ELSE Found(nodes, x)

NotIf(inverted, nodes, x) == IF inverted THEN not(nodes, x) ELSE Found(nodes, x)

\* And, Or, Nand and Nor share one shape: a dominating constant, whose
\* negation is the identity, and a possibly inverted result.
Lattice(nodes, op, dominant, inverted, a, b) ==
  IF IsConst(nodes, a, dominant) \/ IsConst(nodes, b, dominant)
  THEN konst(nodes, dominant # inverted)
  ELSE IF IsConst(nodes, a, ~dominant) THEN NotIf(inverted, nodes, b)
  ELSE IF IsConst(nodes, b, ~dominant) \/ a = b THEN NotIf(inverted, nodes, a)
  ELSE IF complements(nodes, a, b) THEN konst(nodes, dominant # inverted)
  ELSE gate(nodes, op, <<a, b>>)

and(nodes, a, b)  == Lattice(nodes, "And", FALSE, FALSE, a, b)
or(nodes, a, b)   == Lattice(nodes, "Or", TRUE, FALSE, a, b)
nand(nodes, a, b) == Lattice(nodes, "Nand", FALSE, TRUE, a, b)

\* Mutant: FALSE taken for the dominating constant of Nor.
NorDominatedByFalse(nodes, a, b) == Lattice(nodes, "Nor", FALSE, TRUE, a, b)

nor(nodes, a, b)  == Lattice(nodes, "Nor", TRUE, TRUE, a, b)

\* Xor and Xnor: a constant operand keeps or inverts the other one.
Parity(nodes, op, inverted, a, b) ==
  IF IsKonst(nodes, a) /\ IsKonst(nodes, b)
  THEN konst(nodes, (nodes[a].value # nodes[b].value) # inverted)
  ELSE IF IsKonst(nodes, a) THEN NotIf(nodes[a].value # inverted, nodes, b)
  ELSE IF IsKonst(nodes, b) THEN NotIf(nodes[b].value # inverted, nodes, a)
  ELSE IF a = b THEN konst(nodes, inverted)
  ELSE IF complements(nodes, a, b) THEN konst(nodes, ~inverted)
  ELSE gate(nodes, op, <<a, b>>)

xor(nodes, a, b)  == Parity(nodes, "Xor", FALSE, a, b)
xnor(nodes, a, b) == Parity(nodes, "Xnor", TRUE, a, b)

\* A Mux with a constant arm becomes one or two simpler gates.
mux(nodes, s, t, e) ==
  LET ns == not(nodes, s)
  IN  IF IsKonst(nodes, s) THEN Found(nodes, IF nodes[s].value THEN t ELSE e)
      ELSE IF t = e THEN Found(nodes, t)
      ELSE IF IsConst(nodes, t, TRUE)
           THEN IF IsConst(nodes, e, FALSE) THEN Found(nodes, s) ELSE or(nodes, s, e)
      ELSE IF IsConst(nodes, t, FALSE)
           THEN IF IsConst(nodes, e, TRUE) THEN ns ELSE and(ns.nodes, ns.id, e)
      ELSE IF IsConst(nodes, e, FALSE) THEN and(nodes, s, t)
      ELSE IF IsConst(nodes, e, TRUE) THEN or(ns.nodes, ns.id, t)
      ELSE IF s = t THEN or(nodes, s, e)
      ELSE IF s = e THEN and(nodes, s, t)
      ELSE gate(nodes, "Mux", <<s, t, e>>)

\* One instruction of the forward rewrite: repr maps the signals seen so far
\* to the nodes that stand for them.
Rewrite(nodes, repr, inst) ==
  LET r(i) == repr[inst.ins[i]]
  IN  CASE inst.kind = "Const" -> konst(nodes, inst.value)
        [] inst.kind \in {"Input", "RegisterOutput"} -> push(nodes, inst)
        [] IsGate(inst) ->
             CASE inst.op = "Buf"  -> Found(nodes, r(1))
               [] inst.op = "Not"  -> not(nodes, r(1))
               [] inst.op = "And"  -> and(nodes, r(1), r(2))
               [] inst.op = "Or"   -> or(nodes, r(1), r(2))
               [] inst.op = "Xor"  -> xor(nodes, r(1), r(2))
               [] inst.op = "Nand" -> nand(nodes, r(1), r(2))
               [] inst.op = "Nor"  -> nor(nodes, r(1), r(2))
               [] inst.op = "Xnor" -> xnor(nodes, r(1), r(2))
               [] inst.op = "Mux"  -> mux(nodes, r(1), r(2), r(3))

ForwardRewrite(c) ==
  LET upTo[n \in 0 .. Len(c.insts)] ==
        IF n = 0 THEN [repr |-> <<>>, nodes |-> <<>>]
        ELSE LET before == upTo[n - 1]
                 res    == Rewrite(before.nodes, before.repr, c.insts[n])
             IN  [repr |-> Append(before.repr, res.id), nodes |-> res.nodes]
  IN  upTo[Len(c.insts)]

\* The nodes reached from the roots. Operands have lower ids, so one
\* descending pass reaches everything; marked[id] is its state after node id.
Reached(nodes, roots) ==
  LET marked[id \in 1 .. Len(nodes) + 1] ==
        IF id = Len(nodes) + 1 THEN roots
        ELSE LET live == marked[id + 1]
             IN  IF id \in live THEN live \cup Operands(nodes[id]) ELSE live
  IN  marked[1]

\* Mutant: inputs and register outputs are removed like dead gates.
LiveDropsSources(nodes, roots) == Reached(nodes, roots)

\* What is kept: besides, every input and register output.
Live(nodes, roots) ==
  Reached(nodes, roots)
  \cup {id \in DOMAIN nodes : nodes[id].kind \in {"Input", "RegisterOutput"}}

Roots(c, repr) == {repr[s] : s \in ToSet(c.outputs)}
                  \cup {repr[c.regs[r].data] : r \in DOMAIN c.regs}

\* What a circuit becomes, given its forward rewrite: the live nodes,
\* renumbered.
Compacted(c, fwd) ==
  LET nodes == fwd.nodes
      live  == Live(nodes, Roots(c, fwd.repr))
      kept  == Ascending(live)
      remap == Rank(live)
      emit(node) == IF IsGate(node)
                    THEN [node EXCEPT !.ins = [i \in DOMAIN node.ins |-> remap[node.ins[i]]]]
                    ELSE node
  IN  [insts |-> [p \in DOMAIN kept |-> emit(nodes[kept[p]])],
       regs |-> [r \in DOMAIN c.regs |->
                   [c.regs[r] EXCEPT !.data = remap[fwd.repr[c.regs[r].data]]]],
       outputs |-> [o \in DOMAIN c.outputs |-> remap[fwd.repr[c.outputs[o]]]],
       input_count |-> c.input_count]

optimize(c) == Compacted(c, ForwardRewrite(c))

\* What the pattern matchers of the packed engines rely on after optimize:
\* no constant operand, no Buf, no double inversion, no two equal gates, and
\* no gate that nothing observes.
NormalForm(c) ==
  LET gates == {s \in Insts(c) : IsGate(c.insts[s])}
      Not(s) == s \in gates /\ c.insts[s].op = "Not"
  IN  \A g \in gates :
        /\ c.insts[g].op # "Buf"
        /\ \A x \in Operands(c.insts[g]) :
             c.insts[x].kind # "Const" /\ ~(Not(g) /\ Not(x))
        /\ \A h \in gates : c.insts[g] = c.insts[h] => g = h
        /\ \/ g \in ToSet(c.outputs) \/ \E r \in DOMAIN c.regs : c.regs[r].data = g
           \/ \E h \in gates : g \in Operands(c.insts[h])
=============================================================================
