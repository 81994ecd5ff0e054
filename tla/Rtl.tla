-------------------------------- MODULE Rtl --------------------------------
(***************************************************************************)
(* The word-level circuit library: what its networks of gates compute. A   *)
(* wire is a Boolean, a word of wires the set of those that are high, and a*)
(* select or an amount a sequence of wires, the least significant first.   *)
(***************************************************************************)
EXTENDS Word32

\* Wires lo to hi - 1 of a word as a sequence.
Wires(w, lo, hi) == [k \in 1 .. hi - lo |-> lo + k - 1 \in w]

mux_word(sel, then_w, else_w) == IF sel THEN then_w ELSE else_w

\* Each select, from the last, keeps one half of the items.
mux_tree(sel, items) ==
  FoldLeft(LAMBDA rest, s : IF s THEN SubSeq(rest, Len(rest) \div 2 + 1, Len(rest))
                            ELSE SubSeq(rest, 1, Len(rest) \div 2),
           items, Reverse(sel))[1]

\* One-hot lines; each select doubles them.
decoder(sel) ==
  FoldLeft(LAMBDA lines, s : [k \in DOMAIN lines |-> ~s /\ lines[k]]
                               \o [k \in DOMAIN lines |-> s /\ lines[k]],
           <<TRUE>>, sel)

match_bits(bits, value) ==
  \A k \in DOMAIN bits : bits[k] = ((value \div 2 ^ (k - 1)) % 2 = 1)

word_not(a) == BitIds \ a
word_and(a, x) == a \cap x
word_or(a, x) == a \cup x
word_xor(a, x) == (a \ x) \cup (x \ a)

\* Ripple-carry: the sum and the carry out.
adder(a, x, carry_in) ==
  FoldLeft(LAMBDA acc, i :
             LET pxq == (i \in a) # (i \in x)
             IN  [sum   |-> IF pxq # acc.carry THEN acc.sum \cup {i} ELSE acc.sum,
                  carry |-> (i \in a /\ i \in x) \/ (pxq /\ acc.carry)],
           [sum |-> {}, carry |-> carry_in], [i \in 1 .. XLEN |-> i - 1])

add(a, x) == adder(a, x, FALSE).sum

equal(a, x) == word_xor(a, x) = {}

\* Barrel shifters: stage k moves by 2^(k - 1).
shift_left(a, amount) ==
  FoldLeft(LAMBDA cur, k : mux_word(amount[k], {i \in BitIds : i - 2 ^ (k - 1) \in cur}, cur),
           a, [k \in DOMAIN amount |-> k])

shift_right(a, amount, fill) ==
  FoldLeft(LAMBDA cur, k :
             mux_word(amount[k],
                      {i \in BitIds : IF i + 2 ^ (k - 1) < XLEN THEN i + 2 ^ (k - 1) \in cur ELSE fill},
                      cur),
           a, [k \in DOMAIN amount |-> k])
=============================================================================
