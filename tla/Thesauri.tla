------------------------------- MODULE Thesauri -------------------------------
(***************************************************************************)
(* The export of the eCH-0166 thesaurus to a bucket: a file of JSON for    *)
(* each language and one of SKOS, one after the other, each made of what   *)
(* the database holds by then.                                             *)
(***************************************************************************)
EXTENDS FiniteSets, Vocabulary

CONSTANT Files      \* the names of the files, in the order they are put

VARIABLES
    shelf,          \* the files in the bucket
    upload          \* the export: the files still to put

Skos == "skos"
Root == <<Ech0166, "root">>
Children(cs) == {c \in DOMAIN concept : concept[c] \in cs}

\* The custom JSON is a tree below the root.
Tree ==
    LET upTo[n \in 0..Cardinality(DOMAIN concept)] ==
          IF n = 0 THEN {Root} ELSE LET above == upTo[n - 1] IN above \cup Children(above)
    IN  upTo[Cardinality(DOMAIN concept)] \ {Root}
\* SKOS is a list of all concepts but the root; without a parent they are top concepts.
Scheme == {c \in DOMAIN concept : c[1] = Ech0166} \ {Root}
TopConcepts == {c \in Scheme : concept[c] \in {None, Root}}
ContentOf(file) == IF file = Skos THEN [concepts |-> Scheme, tops |-> TopConcepts]
                   ELSE [concepts |-> Tree, tops |-> Children({Root})]

StartUpload == upload = <<>> /\ upload' = Files /\ UNCHANGED shelf
PutFile ==
    /\ upload # <<>> /\ upload' = Tail(upload)
    /\ shelf' = Put(shelf, Head(upload), ContentOf(Head(upload)))
===============================================================================
