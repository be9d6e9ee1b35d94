---------------------------- MODULE MCMapReduce ----------------------------
(* Two nodes and three keys: one round with faults, from outside and from a *)
(* node of the group, one round that deletes its input, and two rounds, with *)
(* the keys on one node or on both.                                         *)
EXTENDS MapReduce, TLC
CONSTANTS a, b, outside, k1, k2, k3

MCHome == k1 :> a @@ k2 :> b @@ k3 :> a
MCEmits == k1 :> {k1, k2} @@ k2 :> {k2, k3} @@ k3 :> {k1}
MCOwner == 0 :> (k1 :> a @@ k2 :> a @@ k3 :> b) @@ 1 :> (k1 :> b @@ k2 :> b @@ k3 :> a)

Once == [rounds |-> 1, deleteInput |-> FALSE, output |-> FALSE, keys |-> Keys, at |-> outside,
         owner |-> [r \in {0} |-> MCOwner[r]], yields |-> [k \in Keys |-> "pair"], faulty |-> FALSE]
Twice == [Once EXCEPT !.rounds = 2, !.owner = MCOwner]
MCPlans == {Once, [Once EXCEPT !.faulty = TRUE], [Once EXCEPT !.faulty = TRUE, !.output = TRUE, !.at = a],
            [Once EXCEPT !.output = TRUE, !.yields = k1 :> "pair" @@ k2 :> "throws" @@ k3 :> "empty"],
            [Once EXCEPT !.output = TRUE, !.faulty = TRUE, !.yields[k1] = "empty"],
            [Once EXCEPT !.keys = {k1, k3}, !.deleteInput = TRUE],
            [Twice EXCEPT !.keys = {k1, k3}, !.yields[k3] = "empty"]}
MCTwoRounds == {Twice}
=============================================================================
