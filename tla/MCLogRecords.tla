---------------------------- MODULE MCLogRecords ----------------------------
(* An instance of LogRecords for TLC.                                       *)
EXTENDS LogRecords

\* Two plain names, and one with a dot that reads as the two of them.
MCNames == {<<"a">>, <<"b">>, <<"a", "b">>}
MCIndex == <<<<"0">>, <<"1">>, <<"2">>>>

\* The document of a kind with the documents of f as its members or items.
Tree(kind, f) ==
    [names \in {<<>>} \cup UNION {{<<n>> \o m : m \in DOMAIN f[n]} : n \in DOMAIN f} |->
        IF names = <<>> THEN kind ELSE f[Head(names)][Tail(names)]]

Scalars == [{<<>>} -> {"text", "number", "null"}]

\* Bounds: objects of at most two members, arrays of at most three items, and
\* two levels, the second below one member or the only item.
Sets == {S \in SUBSET Names : Cardinality(S) <= 2}
Items(longest) == {{Index[i] : i \in 1 .. n} : n \in 0 .. longest}
Flat ==
    Scalars \cup {Tree("object", f) : f \in UNION {[S -> Scalars] : S \in Sets}}
    \cup {Tree("array", f) : f \in UNION {[S -> Scalars] : S \in Items(3)}}
MCDocuments ==
    Flat \cup {Tree("array", f) : f \in UNION {[S -> Flat] : S \in Items(1)}}
    \cup {Tree("object", [g EXCEPT ![n] = v]) : <<g, n, v>> \in
            UNION {[S -> Scalars] \X S \X Flat : S \in Sets}}

\* {"a": {"b": "text"}, "a.b": "text"}: two attributes of one key, in either
\* order; and a body that is one attribute.
Collision ==
    [names \in {<<>>, <<<<"a">>>>, <<<<"a">>, <<"b">>>>, <<<<"a", "b">>>>} |->
        IF names \in {<<>>, <<<<"a">>>>} THEN "object" ELSE "text"]

MCFollowed == {[format |-> "json", doc |-> Collision], [format |-> "text"]}
=============================================================================
