------------------------------ MODULE SourceIds ------------------------------
(***************************************************************************)
(* The rows that are harvested.  Each remembers the data source it comes   *)
(* from and the ids its records have there (data_source_ids).  A table is  *)
(* a function from the keys of its rows to the rows.                       *)
(***************************************************************************)
LOCAL INSTANCE Integers

\* Inserting or saving a row, deleting rows.
Put(table, key, row) ==
    [k \in DOMAIN table \cup {key} |-> IF k = key THEN row ELSE table[k]]
Without(table, keys) == [k \in DOMAIN table \ keys |-> table[k]]

Holders(table, i) == {k \in DOMAIN table : i \in table[k].ids}

\* All rows of the class, whatever their data source, in one UPDATE.
RemoveSourceId(table, i) ==
    [k \in DOMAIN table |-> [table[k] EXCEPT !.ids = @ \ {i}]]

RowsOf(table, source) == {k \in DOMAIN table : table[k].source = source}
ExistingSourceIds(table, source) == UNION {table[k].ids : k \in RowsOf(table, source)}
AddSourceId(row, i) == [row EXCEPT !.ids = @ \cup {i}]

\* Slip: rows of other data sources are cleaned up too.
ObsoleteRowsOfAny(table, source) == {k \in DOMAIN table : table[k].ids = {}}

\* The rows a cleanup looks for: made by an import, and without a record at the source.
ObsoleteRows(table, source) == {k \in RowsOf(table, source) : table[k].ids = {}}

(* Each record of the source is behind at most one row. *)
OneHolder(table) ==
    \A k, l \in DOMAIN table : table[k].ids \cap table[l].ids # {} => k = l
==============================================================================
