------------------------------- MODULE Mappings -------------------------------
(***************************************************************************)
(* The import mappings.  Staff map the prefix of an id at the source to a  *)
(* row of the database; an import builds a lookup table of them when one   *)
(* of its parts starts, and takes the longest prefix an id starts with.    *)
(***************************************************************************)
EXTENDS Integers

CONSTANTS
    Prefixes,   \* the prefixes of the mappings
    Length,     \* their lengths
    Starts      \* the ids that start with them

\* Any two prefixes of one id are of different length, or the same prefix; of all of them one
\* is the longest, as none is longer than the id.
ASSUME PrefixAssumption ==
    /\ Length \in [Prefixes -> Nat]
    /\ DOMAIN Starts = Prefixes
    /\ \A p, q \in Prefixes :
         Starts[p] \cap Starts[q] # {} =>
            /\ Length[p] = Length[q] => p = q
            /\ Length[p] < Length[q] => Starts[q] \subseteq Starts[p]
    /\ \A p \in Prefixes : \A i \in Starts[p] :
         \E q \in Prefixes :
            i \in Starts[q] /\ \A r \in Prefixes : i \in Starts[r] => Length[r] <= Length[q]

\* What an import does without a mapping: it updates the row it finds.
NoMapping == [update |-> TRUE]
IsMapped(m) == "target" \in DOMAIN m

\* The table keeps one mapping of each prefix, the last of an unordered query, and only
\* those whose target exists.
Tables(mappings, existing) ==
    LET live == {m \in mappings : m.target \in existing}
        prefixes == {m.prefix : m \in live}
    IN  {t \in [prefixes -> live] : \A p \in prefixes : t[p].prefix = p}

Matching(table, id) == {p \in DOMAIN table : id \in Starts[p]}
Match(table, id) ==
    LET found == Matching(table, id)
    IN  IF found = {} THEN NoMapping
        ELSE table[CHOOSE p \in found : \A q \in found : Length[q] <= Length[p]]

\* The mappings of a kind of dataset that are switched on; a longest match that is switched
\* off maps to nothing, it does not give way to a shorter prefix.
MatchEnabled(table, id, use) ==
    LET m == Match(table, id) IN IF IsMapped(m) /\ use \notin m.enabled THEN NoMapping ELSE m
===============================================================================
