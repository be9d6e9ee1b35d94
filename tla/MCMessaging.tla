---------------------------- MODULE MCMessaging ----------------------------
(* Three nodes.  One plan gathers from all of them with every fault, one    *)
(* looks up terms twice while the index grows, one queries pages of which   *)
(* two share a title, and one for each small graph sends it to a node.      *)
EXTENDS Messaging

CONSTANTS n1, n2, n3, p1, p2, p3, p4, p5

MCOrder == [array |-> <<"0", "1">>, object |-> <<"a", "b">>,
            error |-> <<"name", "message", "cause">>, function |-> <<>>, method |-> <<>>]

\* Terms are sequences of words; "the" is a stopword.
t1 == <<"x">>
t2 == <<"y">>
t3 == <<"x", "y">>
MCTerms == {t1, t2, t3}
MCHome == t1 :> n2 @@ t2 :> n2 @@ t3 :> n1
MCContent ==
  p1 :> [title |-> <<"x", "the", "y">>, lines |-> <<<<"z">>>>] @@
  p2 :> [title |-> <<"w">>, lines |-> <<<<"x", "z", "x">>>>] @@
  p3 :> [title |-> <<"w">>, lines |-> <<<<"y">>>>] @@
  p4 :> [title |-> <<"u">>, lines |-> <<<<"the", "y">>, <<"z", "z", "y">>>>] @@
  p5 :> [title |-> <<"v">>, lines |-> <<<<"y">>>>]
\* In thousandths, for one to five pages: the logarithm of 3 / (1 + n), as if
\* NUM_DOCUMENTS were 2, so that common terms count nothing or against a page.
MCIdf == <<405, 0, -288, -511, -693>>

Text == <<"leaf", "string", "x">>
Refs == {<<"ref", i>> : i \in 1..3}
Arrays == [kind : {"array"}, props : [{"0", "1"} -> Refs \cup {Undefined}]]
Plain == [kind : {"object"}, props : [{"a", "b"} -> Refs \cup {Text}]]
Errors == {[kind |-> "error", props |-> [name |-> Text, message |-> Text, cause |-> v]] :
            v \in Refs \cup {Text, Invalid, Endless}}
Functions == [kind : {"function", "method"}, props : {<<>>}]
Graphs == {[heap |-> <<a, o, e>>, root |-> <<"ref", 1>>] :
            a \in Arrays, o \in Plain \cup Functions, e \in Errors}
Simple == [heap |-> <<>>, root |-> Text]

Gather == [name |-> "gather", kind |-> "gather", service |-> "search", targets |-> Nodes, want |-> <<>>]
Send == [Gather EXCEPT !.name = "send", !.targets = {n2}]
Routed == [Gather EXCEPT !.name = "routed", !.service = "dynamic", !.targets = {n1, n2}]
Lookup == [name |-> "lookup", kind |-> "lookup", service |-> "termLookup", targets |-> {}, want |-> calcTerms(<<"x", "the", "y">>)]
First == [Lookup EXCEPT !.name = "first", !.want = <<t1, t2>>]
Again == [Lookup EXCEPT !.name = "again", !.want = <<t2>>]
Query == [Lookup EXCEPT !.name = "query", !.kind = "query"]

MCPlans ==
  {[ops |-> {Send}, payload |-> g, faulty |-> FALSE, pages |-> {}] : g \in Graphs} \cup
  {[ops |-> ops, payload |-> Simple, faulty |-> TRUE, pages |-> {p1}] : ops \in {{Gather}, {Routed}, {Lookup}}} \cup
  {[ops |-> ops, payload |-> Simple, faulty |-> FALSE, pages |-> {p1}] : ops \in {{Lookup}, {First, Again}}} \cup
  {[ops |-> {Query}, payload |-> Simple, faulty |-> FALSE, pages |-> pages] : pages \in {{p1, p2}, {p2, p3}, {p3, p4, p5}}}
=============================================================================
