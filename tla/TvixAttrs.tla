------------------------------ MODULE TvixAttrs ------------------------------
(***************************************************************************)
(* Attribute sets of tvix (src/tvix/eval/src/value/attrs.rs).  A set has   *)
(* one of three representations: none for the empty set, the pair KV for   *)
(* { name = ..; value = ..; }, and a map for everything else; a map may    *)
(* also hold what one of the other two could.                              *)
(***************************************************************************)
EXTENDS Naturals, Sequences, FiniteSets

EmptyRep == [rep |-> "Empty"]
KVRep(name, value) == [rep |-> "KV", name |-> name, value |-> value]
MapRep(map) == [rep |-> "Map", map |-> map]

\* AttrsRep::map_mut, and what an iterator over the set yields.
ToMap(set) ==
    CASE set.rep = "Empty" -> [x \in {} |-> 0]
      [] set.rep = "KV" -> [x \in {"name", "value"} |-> IF x = "name" THEN set.name ELSE set.value]
      [] set.rep = "Map" -> set.map

ContainsKey(set, x) ==
    \/ set.rep = "KV" /\ x \in {"name", "value"}
    \/ set.rep = "Map" /\ x \in DOMAIN set.map

Selected(set, x) ==
    IF set.rep = "Map" THEN set.map[x]
    ELSE IF x = "name" THEN set.name ELSE set.value

\* The map that has what either has, and of the two values the upper's.
Overlaid(upper, lower) ==
    [x \in DOMAIN upper \cup DOMAIN lower |-> IF x \in DOMAIN upper THEN upper[x] ELSE lower[x]]

\* left // right
Update(left, right) ==
    IF left.rep = "Empty" THEN right
    ELSE IF right.rep = "Empty" THEN left
    ELSE IF left.rep = "KV" /\ right.rep = "KV" THEN right
    ELSE MapRep(Overlaid(ToMap(right), ToMap(left)))

\* The set of n pairs <<key, value>>, of which the last is looked at first:
\* keys are strings and different; a null key is left out.
InvalidKeys(pairs) ==
    {i \in DOMAIN pairs : DOMAIN pairs[i][1] \cap {"str", "null"} = {}}

DuplicateKeys(pairs) ==
    {i \in DOMAIN pairs :
        /\ "str" \in DOMAIN pairs[i][1]
        /\ \E j \in (i + 1)..Len(pairs) : pairs[j][1] = pairs[i][1]}

IsKV(pairs) ==
    Len(pairs) = 2 /\ {pairs[1][1], pairs[2][1]} = {[str |-> "name"], [str |-> "value"]}

Construct(pairs) ==
    LET bad == InvalidKeys(pairs) \cup DuplicateKeys(pairs)
        first == CHOOSE i \in bad : \A j \in bad : j <= i
        named == {i \in DOMAIN pairs : "str" \in DOMAIN pairs[i][1]}
        value(x) == pairs[CHOOSE i \in named : pairs[i][1].str = x][2]
    IN  IF pairs = <<>> THEN EmptyRep
        ELSE IF IsKV(pairs) THEN KVRep(value("name"), value("value"))
        ELSE IF bad = {} THEN MapRep([x \in {pairs[i][1].str : i \in named} |-> value(x)])
        ELSE [err |-> IF first \in InvalidKeys(pairs) THEN "attrName" ELSE "duplicate"]
=============================================================================
