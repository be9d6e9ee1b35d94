-------------------------------- MODULE Lists --------------------------------
(* What the code does with lists and mappings, by recursion on numbers.     *)
EXTENDS Integers, FiniteSets, SequencesExt

\* filter: the elements of a sequence that are in a set, in their order.
Only(s, S) ==
  LET kept[i \in 0..Len(s)] ==
        IF i = 0 THEN <<>> ELSE IF s[i] \in S THEN Append(kept[i - 1], s[i]) ELSE kept[i - 1]
  IN kept[Len(s)]

\* A counter that grows by each number of a sequence.
Total(s) ==
  LET sum[i \in 0..Len(s)] == IF i = 0 THEN 0 ELSE sum[i - 1] + s[i]
  IN sum[Len(s)]

\* f with the value y at x, which may be new.
With(f, x, y) == [z \in DOMAIN f \cup {x} |-> IF z = x THEN y ELSE f[z]]
=============================================================================
