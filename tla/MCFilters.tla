------------------------------ MODULE MCFilters ------------------------------
(* Small rates, blocks and groups; the block is not a multiple of the rate.  *)
EXTENDS Filters

Word(n) == {i \in 0..15 : (n \div 2^i) % 2 = 1}
Sent(a, b, c, d) == [i \in 0..3 |-> Word(<<a, b, c, d>>[i + 1])]

\* Groups 2A, 0B and 14A; all bursts of up to five bits, some of up to ten.
MCInfos == {Sent(53506, 8192, 16705, 43690), Sent(53506, 3106, 53506, 1), Sent(53506, 57349, 0, 65535)}
MCBursts ==
  {{0} \cup b : b \in SUBSET (1..4)}
    \cup UNION {{{0, n}, 0..n, {0, 2, n}, {0, 1, 4, n}} : n \in 5..9}
=============================================================================
