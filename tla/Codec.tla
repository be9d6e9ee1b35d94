------------------------------- MODULE Codec -------------------------------
(* util/serialization.js: how a JavaScript value becomes text and back.  A  *)
(* heap maps objects to records of a kind and its properties; a value is a  *)
(* leaf, <<"leaf", type, content>>, or a reference, <<"ref", object>>.  The *)
(* JSON of a value is a tree, kept as a function from the paths to its      *)
(* nodes; an object met before is a node with the path to it.  Decoded      *)
(* objects are named by the path that leads to them.  A function whose text *)
(* is no expression (a shorthand or class method, a bound function) is of   *)
(* the kind "method".                                                       *)
EXTENDS Lists

CONSTANT PropertyOrder   \* the names of the properties of each kind, in order

Kinds == DOMAIN PropertyOrder
Undefined == <<"leaf", "undefined", "">>
Failure == [heap |-> <<>>, root |-> <<"fails">>]

Tags == [undefined |-> "u", null |-> "l", number |-> "n", boolean |-> "b",
         string |-> "s", date |-> "d", native |-> "i"]

\* A kind has its properties once; a function has none that are encoded.
CodecAssumption ==
  /\ Kinds \subseteq {"array", "object", "error", "function", "method"}
  /\ \A k \in Kinds \cap {"function", "method"} : PropertyOrder[k] = <<>>
  /\ \A k \in Kinds : /\ PropertyOrder[k] \in Seq(STRING)
                      /\ \A i, j \in DOMAIN PropertyOrder[k] : PropertyOrder[k][i] = PropertyOrder[k][j] => i = j
ASSUME CodecAssumption

\* A number loses the sign of zero in toString, and an invalid date its value;
\* some native objects, as global, lead back to themselves.
Zero == <<"leaf", "number", "-0">>
Invalid == <<"leaf", "date", "NaN">>
Endless == <<"leaf", "native", "cyclic">>
EncodeLeaf(v) == [tag |-> Tags[v[2]], text |-> IF v = Zero THEN "0" ELSE v[3]]
DecodeLeaf(j) == <<"leaf", CHOOSE t \in DOMAIN Tags : Tags[t] = j.tag, j.text>>

\* The graphs that keep their shape: all but those with a negative zero, an
\* array with holes, or an error whose name is an object or whose message is no
\* string.
IsLeaf(v) == v[1] = "leaf" /\ v[2] \in DOMAIN Tags /\ v = <<"leaf", v[2], v[3]>> /\ v # Zero
IsValue(heap, v) == IsLeaf(v) \/ \E o \in DOMAIN heap : v = <<"ref", o>>
IsObject(heap, o) ==
  /\ o.kind \in Kinds /\ DOMAIN o.props \subseteq ToSet(PropertyOrder[o.kind])
  /\ \A p \in DOMAIN o.props : IsValue(heap, o.props[p])
  /\ o.kind = "array" => \E n \in 0..Len(PropertyOrder["array"]) :
                             DOMAIN o.props = ToSet(SubSeq(PropertyOrder["array"], 1, n))
  /\ o.kind = "error" => /\ DOMAIN o.props = {"name", "message", "cause"}
                         /\ IsLeaf(o.props["name"]) /\ IsLeaf(o.props["message"])
                         /\ o.props["message"][2] = "string"
IsGraph(g) ==
  /\ IsFiniteSet(DOMAIN g.heap) /\ IsValue(g.heap, g.root)
  /\ \A o \in DOMAIN g.heap : IsObject(g.heap, g.heap[o])

\* One call of encode.  The calls that are due, in order, are kept with their
\* paths; those of the properties of an object come before the others.
Encode(heap, s) ==
  LET v == Head(s.due).value
      path == Head(s.due).path
      rest == Tail(s.due)
      o == heap[v[2]]
      names == Only(PropertyOrder[o.kind], DOMAIN o.props)
      properties == [i \in DOMAIN names |-> [value |-> o.props[names[i]], path |-> Append(path, names[i])]]
  IN IF v[1] = "leaf" THEN [s EXCEPT !.due = rest, !.tree = With(@, path, EncodeLeaf(v))]
     ELSE IF v[2] \in DOMAIN s.seen
     THEN [s EXCEPT !.due = rest, !.tree = With(@, path, [tag |-> "r", path |-> s.seen[v[2]]])]
     ELSE [due |-> properties \o rest,
           tree |-> With(s.tree, path, [tag |-> o.kind, props |-> DOMAIN o.props]),
           seen |-> With(s.seen, v[2], path)]

\* Each property of an object that is reached is encoded once.
Properties(heap) == UNION {{o} \X DOMAIN heap[o].props : o \in DOMAIN heap}
Serialize(g) ==
  LET after[n \in 0..Cardinality(Properties(g.heap)) + 1] ==
        IF n = 0 THEN [due |-> <<[value |-> g.root, path |-> <<>>]>>, tree |-> <<>>, seen |-> <<>>]
        ELSE LET s == after[n - 1] IN IF s.due = <<>> THEN s ELSE Encode(g.heap, s)
  IN after[Cardinality(Properties(g.heap)) + 1].tree

\* An error whose name is not a leaf passes the checks of decodeError only
\* when its message and its cause are no leaves either.
Objects(tree) == {s \in DOMAIN tree : tree[s].tag \in Kinds}
BadError(tree, s) ==
  LET inner(p) == tree[Append(s, p)].tag \in Kinds \cup {"r"}
  IN tree[s].tag = "error" /\ inner("name") /\ ~(inner("message") /\ inner("cause"))

\* decode of the node at a path; a reference stays a mark.
Decode(tree, s) ==
  IF s \in Objects(tree) THEN <<"ref", s>>
  ELSE IF tree[s].tag = "r" THEN <<"mark", tree[s].path>> ELSE DecodeLeaf(tree[s])

\* new Error makes a string of its message.
DecodeProperty(tree, s, p) ==
  LET v == Decode(tree, Append(s, p))
  IN IF tree[s].tag = "error" /\ p = "message" /\ v[1] # "leaf"
     THEN <<"leaf", "string", "[object]">> ELSE v
DecodeAll(tree) ==
  [heap |-> [s \in Objects(tree) |->
     [kind |-> tree[s].tag, props |-> [p \in tree[s].props |-> DecodeProperty(tree, s, p)]]],
   root |-> Decode(tree, <<>>)]

\* What throws: an invalid date, the text of a method, the checks of
\* decodeError, and resolveReferences, which goes into the native objects
\* among the properties too and exhausts the stack in an endless one.
Fails(tree) ==
  \/ \E s \in DOMAIN tree : /\ tree[s].tag \notin Kinds \cup {"r"}
                             /\ DecodeLeaf(tree[s]) \in {Invalid} \cup (IF s = <<>> THEN {} ELSE {Endless})
  \/ \E s \in Objects(tree) : tree[s].tag = "method" \/ BadError(tree, s)

\* Where a property, and a path, leads in a graph, or what stands for nowhere.
Get(g, v, p, nothing) ==
  IF v[1] = "ref" /\ p \in DOMAIN g.heap[v[2]].props THEN g.heap[v[2]].props[p] ELSE nothing
Walk(g, path, nothing) ==
  LET at[i \in 0..Len(path)] == IF i = 0 THEN g.root ELSE Get(g, at[i - 1], path[i], nothing)
  IN at[Len(path)]

\* Faulty variant: the path of a reference is followed one step short.
ResolvePathShort(d, path) == Walk(d, SubSeq(path, 1, Len(path) - 1), Undefined)

\* resolvePath and resolveReferences: a mark becomes the object at its path.
ResolvePath(d, path) == Walk(d, path, Undefined)
ResolveReferences(d) ==
  [d EXCEPT !.heap = [o \in DOMAIN d.heap |->
     [d.heap[o] EXCEPT !.props = [p \in DOMAIN @ |->
        IF @[p][1] = "mark" THEN ResolvePath(d, @[p][2]) ELSE @[p]]]]]
Deserialize(tree) == IF Fails(tree) THEN Failure ELSE ResolveReferences(DecodeAll(tree))

\* The reference: two graphs are the same when the same paths lead to the
\* same leaves and kinds, and two paths meet in one exactly if in the other.
Follow(g, path) == Walk(g, path, <<"none">>)
Shape(g, v) ==
  IF v[1] = "ref" THEN <<g.heap[v[2]].kind, DOMAIN g.heap[v[2]].props>> ELSE v
Paths(g, depth) ==
  LET Longer(s) == LET v == Follow(g, s)
                   IN IF v[1] = "ref" THEN {Append(s, p) : p \in DOMAIN g.heap[v[2]].props} ELSE {}
      paths[n \in 0..depth] ==
        IF n = 0 THEN {<<>>} ELSE LET shorter == paths[n - 1] IN shorter \cup UNION {Longer(s) : s \in shorter}
  IN paths[depth]
SameGraph(g, h, depth) ==
  LET paths == Paths(g, depth)
  IN /\ \A s \in paths : Shape(g, Follow(g, s)) = Shape(h, Follow(h, s))
     /\ \A s, t \in paths :
          Follow(g, s)[1] = "ref" /\ Follow(g, t)[1] = "ref" =>
            (Follow(g, s) = Follow(g, t) <=> Follow(h, s) = Follow(h, t))
=============================================================================
