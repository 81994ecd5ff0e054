-------------------------------- MODULE Fuse --------------------------------
(***************************************************************************)
(* find_chains: ripple-carry chains on a tape, each replaced by one word   *)
(* addition in the packed engines.                                         *)
(*                                                                         *)
(* A link is one bit of a ripple adder, carry = majority(p, q, cin) and    *)
(* sum = p xor q xor cin, as five gates (a full adder) or, where q is      *)
(* absent, as two (an incrementer). NoSlot stands for an absent gate.      *)
(***************************************************************************)
EXTENDS Tape, Order, SequencesExt

CONSTANTS
  MinChain, \* MIN_CHAIN: links worth fusing
  MaxChain  \* MAX_CHAIN: links whose sums and carry fit in a word

GatesOf(t, op) == {s \in GateSlots(t) : t.ops[s] = op}

\* xor_of: the first Xor gate over the two operands, in any order.
XorOf(t, x, y) ==
  LET xors == {s \in GatesOf(t, "Xor") : {t.a[s], t.b[s]} = {x, y}}
  IN  IF xors = {} THEN NoSlot ELSE Min(xors)

Link(p, q, pxq, g, prop, carry, sum, cin) ==
  [p |-> p, q |-> q, pxq |-> pxq, g |-> g, prop |-> prop, carry |-> carry,
   sum |-> sum, cin |-> cin, ext_pxq |-> FALSE, ext_g |-> FALSE]

IsFull(link) == link.prop # NoSlot
link_gates(link) == {link.pxq, link.g, link.prop, link.carry, link.sum} \ {NoSlot}
ChainGates(links) == UNION {link_gates(links[i]) : i \in DOMAIN links}

\* The full-adder link carry = or(g, prop), if its gates have that form.
full_link(t, g, prop, carry) ==
  LET p == t.a[g]
      q == t.b[g]
      pxq == XorOf(t, p, q)
      cin == IF t.a[prop] = pxq THEN t.b[prop] ELSE t.a[prop]
      sum == XorOf(t, pxq, cin)
  IN  {link \in {Link(p, q, pxq, g, prop, carry, sum, cin)} :
         /\ t.ops[g] = "And" /\ t.ops[prop] = "And"
         /\ pxq # NoSlot /\ pxq \in {t.a[prop], t.b[prop]}
         /\ Cardinality(link_gates(link)) = IF sum = NoSlot THEN 4 ELSE 5}

\* Every full-adder link, in the order of the carries. At most one of the two
\* operand orders matches: in both, the sum of one link would be an operand
\* of its own propagate gate. So the hash order in which the code collects
\* the heads before it sorts them by carry is not observable.
FullLinks(t) ==
  LET ors == Ascending(GatesOf(t, "Or"))
  IN  FlattenSeq([i \in DOMAIN ors |->
        LET s == ors[i] IN
        SetToSeq(full_link(t, t.a[s], t.b[s], s)) \o SetToSeq(full_link(t, t.b[s], t.a[s], s))])

\* The incrementer link carry = and(p, cin).
inc_link(t, p, cin, carry) ==
  Link(p, NoSlot, NoSlot, NoSlot, NoSlot, carry, XorOf(t, p, cin), cin)

\* Any And gate may head an incrementer, with either operand as carry-in.
IncHeads(t) ==
  LET ands == Ascending(GatesOf(t, "And"))
  IN  FlattenSeq([i \in DOMAIN ands |->
        LET s == ands[i] IN
        <<inc_link(t, t.a[s], t.b[s], s), inc_link(t, t.b[s], t.a[s], s)>>])

\* io: slots observed outside the gate graph.
Observed(t) ==
  {t.output_slots[o] : o \in OutputIds(t)}
    \cup {t.reg_in_slots[r] : r \in {q \in Registers(t) : t.reg_out_slots[q] # NoSlot}}

\* Mutant: one of the readers is enough.
FeedsSome(t, slot, allowed) == successors(t, slot) \cap allowed # {}

only_feeds(t, slot, allowed) == successors(t, slot) \subseteq allowed
Interior(t, slot, allowed) == slot \notin Observed(t) /\ only_feeds(t, slot, allowed)

\* The link with its escape flags, unless its gates are taken or its prop
\* has another reader.
admit(t, taken, link) ==
  {[link EXCEPT
      !.ext_pxq = IsFull(link) /\ ~Interior(t, link.pxq, {link.prop, link.sum}),
      !.ext_g   = IsFull(link) /\ ~Interior(t, link.g, {link.carry})] :
   l \in {x \in {link} :
            /\ link_gates(link) \cap taken = {}
            /\ IsFull(link) => Interior(t, link.prop, {link.carry})}}

\* The links among which the one that follows a carry is looked up, full
\* adders first.
Candidates(t, carry) ==
  LET ands == Ascending({s \in GatesOf(t, "And") : carry \in {t.a[s], t.b[s]}})
  IN  FullLinks(t)
        \o [i \in DOMAIN ands |->
              inc_link(t, IF t.a[ands[i]] = carry THEN t.b[ands[i]] ELSE t.a[ands[i]],
                       carry, ands[i])]

\* The gates of a link that read its carry-in.
Fed(link) == {IF IsFull(link) THEN link.prop ELSE link.carry, link.sum}

\* The next link, if the carry feeds nothing else and is not observed.
continuation(t, taken, carry) ==
  LET links == Candidates(t, carry)
      fit == {k \in DOMAIN links : /\ links[k].cin = carry /\ Interior(t, carry, Fed(links[k]))
                                   /\ admit(t, taken, links[k]) # {}}
  IN  IF fit = {} THEN {} ELSE admit(t, taken, links[Min(fit)])

\* The slots a chain's addition reads.
ChainInputs(links) ==
  ({links[1].cin} \cup UNION {{links[i].p, links[i].q} : i \in DOMAIN links}) \ {NoSlot}

\* The gates of a chain that something else may read.
Materialized(links) ==
  ({links[i].sum : i \in DOMAIN links} \cup {Last(links).carry}
     \cup {links[i].pxq : i \in {j \in DOMAIN links : links[j].ext_pxq}}
     \cup {links[i].g : i \in {j \in DOMAIN links : links[j].ext_g}}) \ {NoSlot}

\* Mutant: only the operands of the first link count.
ReadyOfHead(t, links) ==
  1 + Max({t.slot_level[s] : s \in ChainInputs(SubSeq(links, 1, 1))})

\* The emission boundary: one above the operands.
ready(t, links) == 1 + Max({t.slot_level[s] : s \in ChainInputs(links)})

consistent(t, links) ==
  /\ ChainInputs(links) \cap ChainGates(links) = {}
  /\ \A s \in Materialized(links) : t.slot_level[s] >= ready(t, links)

Chain(t, links) ==
  [cin |-> links[1].cin, links |-> links, ready |-> ready(t, links),
   ext_pxq |-> \E i \in DOMAIN links : links[i].ext_pxq,
   ext_g   |-> \E i \in DOMAIN links : links[i].ext_g]

\* The longest admissible chain from an admitted head.
Grown(t, used, head) ==
  LET grown[n \in 1 .. MaxChain] ==
        IF n = 1 THEN <<head>>
        ELSE LET links == grown[n - 1]
             IN  links \o SetToSeq(continuation(t, used \cup ChainGates(links), Last(links).carry))
  IN  grown[MaxChain]

\* The chain is kept, and its gates are taken.
commit(t, found, links) ==
  [chains |-> Append(found.chains, Chain(t, links)),
   used   |-> found.used \cup ChainGates(links)]

\* Links are popped until the rest is consistent, and what is left is
\* committed if it is still worth fusing.
trim(t, found, links) ==
  LET sizes == {n \in MinChain .. Len(links) : consistent(t, SubSeq(links, 1, n))}
  IN  IF sizes = {} THEN found ELSE commit(t, found, SubSeq(links, 1, Max(sizes)))

\* Grow a chain from an admitted head, trim it and commit it.
try_chain(t, found, head) ==
  LET heads == admit(t, found.used, head)
  IN  IF heads = {} THEN found
      ELSE trim(t, found, Grown(t, found.used, CHOOSE link \in heads : TRUE))

\* A chain of links of the tape, each fed by the carry of the one before.
IsLink(t, link) ==
  LET s == link.carry
      full == full_link(t, t.a[s], t.b[s], s) \cup full_link(t, t.b[s], t.a[s], s)
      inc  == {inc_link(t, t.a[s], t.b[s], s), inc_link(t, t.b[s], t.a[s], s)}
  IN  /\ link_gates(link) \cup {s} \subseteq GateSlots(t)
      /\ \E bare \in IF t.ops[s] = "Or" THEN full ELSE IF t.ops[s] = "And" THEN inc ELSE {} :
           link = [bare EXCEPT !.ext_pxq = link.ext_pxq, !.ext_g = link.ext_g]
IsChain(t, chain) ==
  /\ Len(chain.links) \in 1 .. MaxChain /\ DOMAIN chain.links = 1 .. Len(chain.links)
  /\ \A i \in DOMAIN chain.links :
       /\ IsLink(t, chain.links[i])
       /\ chain.links[i].cin = IF i = 1 THEN chain.cin ELSE chain.links[i - 1].carry

\* The chains of a tape and the gates they replace.
find_chains(t) ==
  LET heads == FullLinks(t) \o IncHeads(t)
      found[n \in 0 .. Len(heads)] ==
        IF n = 0 THEN [chains |-> <<>>, used |-> {}] ELSE try_chain(t, found[n - 1], heads[n])
  IN  found[Len(heads)]
=============================================================================
