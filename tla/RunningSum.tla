----------------------------- MODULE RunningSum ------------------------------
(***************************************************************************)
(* RunningSum, the sum of the last max_size values.  A value is a place in *)
(* a stream, a sum the set of the values that it is of; zero contributes   *)
(* nothing.  Kahan's compensation is left out: to the sum it is exact.     *)
(***************************************************************************)
EXTENDS Integers

CONSTANTS SumSize,       \* max_size
          MaxIterations  \* max_iterations_, after which the sum is made anew

ASSUME RunningSumAssumption == SumSize \in Nat \ {0} /\ MaxIterations \in Nat

Zero == -1

\* data_, index_, size_, iterations_, sum_, as init() and clear() leave them.
Cleared == [data |-> [i \in 0..(SumSize - 1) |-> Zero], index |-> 0, size |-> 0,
            iterations |-> 0, sum |-> {}]

Add(s, value) ==
  LET full == s.size = SumSize
      data == [s.data EXCEPT ![s.index] = value]
      anew == s.iterations + 1 > MaxIterations
  IN [data |-> data,
      index |-> (s.index + 1) % SumSize,
      size |-> IF full THEN s.size ELSE s.size + 1,
      iterations |-> IF anew THEN 0 ELSE s.iterations + 1,
      sum |-> IF anew THEN {data[i] : i \in DOMAIN data} \ {Zero}
              ELSE (IF full THEN s.sum \ {s.data[s.index]} ELSE s.sum) \cup {value}]
=============================================================================
