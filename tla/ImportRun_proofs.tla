---------------------------- MODULE ImportRun_proofs ----------------------------
(***************************************************************************)
(* What the proofs about the imports have in common: tables of rows that   *)
(* remember ids, and the lookup in the mappings.                           *)
(***************************************************************************)
EXTENDS ImportRun, WellFoundedInduction, TLAPS

\* A table of rows that remember ids.
Rows(table) == \A k \in DOMAIN table : "ids" \in DOMAIN table[k]

\* Rows that go or lose ids share none they did not share before.
LEMMA FewerIds ==
  ASSUME NEW old, NEW new, OneHolder(old), DOMAIN new \subseteq DOMAIN old,
         \A k \in DOMAIN new : new[k].ids \subseteq old[k].ids
  PROVE  /\ OneHolder(new)
         /\ \A i : Holders(old, i) = {} => Holders(new, i) = {}
  BY DEF OneHolder, Holders

LEMMA RemovedId ==
  ASSUME NEW table, NEW i, OneHolder(table), Rows(table)
  PROVE  /\ OneHolder(RemoveSourceId(table, i)) /\ Rows(RemoveSourceId(table, i))
         /\ Holders(RemoveSourceId(table, i), i) = {}
         /\ DOMAIN RemoveSourceId(table, i) = DOMAIN table
         /\ \A j : Holders(table, j) = {} => Holders(RemoveSourceId(table, i), j) = {}
  <1> DEFINE new == RemoveSourceId(table, i)
  <1>1. /\ DOMAIN new = DOMAIN table
        /\ \A k \in DOMAIN table : /\ "ids" \in DOMAIN new[k]
                                   /\ new[k].ids = table[k].ids \ {i}
    <2>1. /\ DOMAIN new = DOMAIN table
          /\ \A k \in DOMAIN table : new[k] = [table[k] EXCEPT !.ids = @ \ {i}]
      BY DEF RemoveSourceId
    <2> HIDE DEF new
    <2>2. ASSUME NEW k \in DOMAIN table
          PROVE  "ids" \in DOMAIN new[k] /\ new[k].ids = table[k].ids \ {i}
      <3>1. "ids" \in DOMAIN table[k] /\ new[k] = [table[k] EXCEPT !.ids = @ \ {i}]
        BY <2>1 DEF Rows
      <3>2. QED
        BY <3>1
    <2>3. QED
      BY <2>1, <2>2
  <1> HIDE DEF new
  <1>2. OneHolder(new) /\ \A j : Holders(table, j) = {} => Holders(new, j) = {}
    <2>1. \A k \in DOMAIN new : new[k].ids \subseteq table[k].ids
      BY <1>1
    <2>2. QED
      BY <1>1, <2>1, FewerIds
  <1>3. Rows(new) /\ Holders(new, i) = {}
    BY <1>1 DEF Rows, Holders
  <1>4. QED
    BY <1>1, <1>2, <1>3 DEF new

LEMMA WithoutRows ==
  ASSUME NEW table, NEW keys, OneHolder(table), Rows(table)
  PROVE  OneHolder(Without(table, keys)) /\ Rows(Without(table, keys))
  <1> DEFINE new == Without(table, keys)
  <1>1. DOMAIN new \subseteq DOMAIN table /\ \A k \in DOMAIN new : new[k] = table[k]
    BY DEF Without
  <1> HIDE DEF new
  <1>2. \A k \in DOMAIN new : new[k].ids \subseteq table[k].ids
    BY <1>1
  <1>3. OneHolder(new)
    BY <1>1, <1>2, FewerIds
  <1>4. Rows(new)
    BY <1>1 DEF Rows
  <1>5. QED
    BY <1>3, <1>4 DEF new

\* A row may take an id that no row has.
LEMMA PutRow ==
  ASSUME NEW table, NEW key, NEW row, NEW i, OneHolder(table), Rows(table),
         "ids" \in DOMAIN row, Holders(table, i) = {},
         row.ids \subseteq {i} \cup (IF key \in DOMAIN table THEN table[key].ids ELSE {})
  PROVE  OneHolder(Put(table, key, row)) /\ Rows(Put(table, key, row))
  <1> DEFINE new == Put(table, key, row)
  <1>1. /\ DOMAIN new = DOMAIN table \cup {key} /\ new[key] = row
        /\ \A k \in DOMAIN table \ {key} : new[k] = table[k]
    BY DEF Put
  <1> HIDE DEF new
  <1>2. Rows(new)
    BY <1>1 DEF Rows
  <1>3. ASSUME NEW k \in DOMAIN new, NEW l \in DOMAIN new, NEW j \in new[k].ids \cap new[l].ids
        PROVE  k = l
    BY <1>1, <1>3 DEF OneHolder, Holders
  <1>4. QED
    BY <1>2, <1>3 DEF OneHolder, new

\* A row that keeps its ids.
LEMMA PutSameIds ==
  ASSUME NEW table, NEW key \in DOMAIN table, NEW row, OneHolder(table), Rows(table),
         "ids" \in DOMAIN row, row.ids = table[key].ids
  PROVE  /\ OneHolder(Put(table, key, row)) /\ Rows(Put(table, key, row))
         /\ \A i : Holders(table, i) = {} => Holders(Put(table, key, row), i) = {}
  <1> DEFINE new == Put(table, key, row)
  <1>1. /\ DOMAIN new = DOMAIN table /\ new[key] = row
        /\ \A k \in DOMAIN table \ {key} : new[k] = table[k]
    BY DEF Put
  <1> HIDE DEF new
  <1>2. OneHolder(new) /\ \A i : Holders(table, i) = {} => Holders(new, i) = {}
    <2>1. \A k \in DOMAIN new : new[k].ids \subseteq table[k].ids
      BY <1>1
    <2>2. QED
      BY <1>1, <2>1, FewerIds
  <1>3. Rows(new)
    BY <1>1 DEF Rows
  <1>4. QED
    BY <1>2, <1>3 DEF new

\* A row that is given an id, and the texts of the record.
LEMMA GivenId ==
  ASSUME NEW row, "ids" \in DOMAIN row, NEW m, NEW i
  PROVE  /\ "ids" \in DOMAIN AddSourceId(Harvested(row, m), i)
         /\ AddSourceId(Harvested(row, m), i).ids = row.ids \cup {i}
         /\ "ids" \in DOMAIN AddSourceId(row, i)
         /\ AddSourceId(row, i).ids = row.ids \cup {i}
         /\ "ids" \in DOMAIN Harvested(AddSourceId(row, i), m)
         /\ Harvested(AddSourceId(row, i), m).ids = row.ids \cup {i}
  <1>1. ASSUME NEW r, "ids" \in DOMAIN r
        PROVE  /\ "ids" \in DOMAIN AddSourceId(r, i) /\ AddSourceId(r, i).ids = r.ids \cup {i}
               /\ "ids" \in DOMAIN Harvested(r, m) /\ Harvested(r, m).ids = r.ids
    BY <1>1 DEF AddSourceId, Harvested
  <1>2. "ids" \in DOMAIN Harvested(row, m) /\ Harvested(row, m).ids = row.ids
    BY <1>1
  <1>3. "ids" \in DOMAIN AddSourceId(row, i) /\ AddSourceId(row, i).ids = row.ids \cup {i}
    BY <1>1
  <1> DEFINE texts == Harvested(row, m)
             given == AddSourceId(row, i)
  <1> HIDE DEF texts, given
  <1>4. "ids" \in DOMAIN AddSourceId(texts, i) /\ AddSourceId(texts, i).ids = texts.ids \cup {i}
    BY <1>1, <1>2 DEF texts
  <1>5. "ids" \in DOMAIN Harvested(given, m) /\ Harvested(given, m).ids = given.ids
    BY <1>1, <1>3 DEF given
  <1>6. QED
    BY <1>2, <1>3, <1>4, <1>5 DEF texts, given

-----------------------------------------------------------------------------
(***************************************************************************)
(* A mapping that is found leads to a row that existed when the lookup     *)
(* table was built.                                                        *)
(***************************************************************************)
Targets(table, existing) ==
    /\ DOMAIN table \subseteq Prefixes
    /\ \A p \in DOMAIN table : table[p].target \in existing

LEMMA LeastNumber ==
  ASSUME NEW T, T \subseteq Nat, T # {}
  PROVE  \E x \in T : \A y \in T : x <= y
  <1> DEFINE R == {ss \in Nat \X Nat : ss[1] < ss[2]}
  <1>1. IsWellFoundedOn(R, Nat)
    BY NatLessThanWellFounded DEF OpToRel
  <1> HIDE DEF R
  <1>2. PICK x \in T : \A y \in T : <<y, x>> \notin R
    BY <1>1, WFMin
  <1>3. ASSUME NEW y \in T
        PROVE  x <= y
    <2>1. x \in Nat /\ y \in Nat /\ <<y, x>> \notin R
      BY <1>2
    <2>2. QED
      BY <2>1 DEF R
  <1>4. QED
    BY <1>3

\* Among prefixes of an id there is one that is the longest.
LEMMA LongestPrefix ==
  ASSUME NEW T, T \subseteq Prefixes, T # {}, NEW i, \A p \in T : i \in Starts[p]
  PROVE  \E p \in T : \A q \in T : Length[q] <= Length[p]
  <1>1. PICK r \in Prefixes : \A p \in T : Length[p] <= Length[r]
    BY PrefixAssumption
  <1>2. \A p \in T : Length[p] \in Nat /\ Length[r] - Length[p] \in Nat
    BY <1>1, PrefixAssumption
  <1>3. PICK x \in {Length[r] - Length[p] : p \in T} :
          \A y \in {Length[r] - Length[p] : p \in T} : x <= y
    BY <1>2, LeastNumber
  <1>4. PICK p \in T : x = Length[r] - Length[p]
    BY <1>3
  <1>5. ASSUME NEW q \in T
        PROVE  Length[q] <= Length[p]
    <2>1. x <= Length[r] - Length[q]
      BY <1>3
    <2>2. Length[r] \in Nat /\ Length[p] \in Nat /\ Length[q] \in Nat
      BY PrefixAssumption
    <2>3. QED
      BY <1>4, <2>1, <2>2
  <1>6. QED
    BY <1>5

LEMMA MatchTarget ==
  ASSUME NEW table, NEW existing, NEW id, Targets(table, existing), IsMapped(Match(table, id))
  PROVE  Match(table, id).target \in existing
  <1> DEFINE found == Matching(table, id)
  <1>1. found # {}
    BY DEF Match, NoMapping, IsMapped
  <1>2. found \subseteq DOMAIN table /\ \A p \in found : id \in Starts[p]
    BY DEF Matching
  <1>3. found \subseteq Prefixes
    BY <1>2 DEF Targets
  <1>4. Match(table, id) = table[CHOOSE p \in found : \A q \in found : Length[q] <= Length[p]]
    BY <1>1 DEF Match
  <1> HIDE DEF found
  <1>5. \E p \in found : \A q \in found : Length[q] <= Length[p]
    BY <1>1, <1>2, <1>3, LongestPrefix
  <1>6. (CHOOSE p \in found : \A q \in found : Length[q] <= Length[p]) \in found
    BY <1>5
  <1>7. QED
    BY <1>2, <1>4, <1>6 DEF Targets

LEMMA TablesTarget ==
  ASSUME NEW rows, NEW existing, NEW table \in Tables(rows, existing),
         \A m \in rows : m.prefix \in Prefixes
  PROVE  Targets(table, existing)
  <1> DEFINE live == {m \in rows : m.target \in existing}
  <1>1. table \in [{m.prefix : m \in live} -> live]
    BY DEF Tables
  <1>2. QED
    BY <1>1 DEF Targets
=================================================================================
