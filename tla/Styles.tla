------------------------------- MODULE Styles --------------------------------
(***************************************************************************)
(* The export of styles: the map viewer reads the style of a distribution  *)
(* from a bucket, where the export puts one object after the other and     *)
(* never deletes one; a command of its own empties the bucket.             *)
(***************************************************************************)
EXTENDS HarvestLayers

VARIABLES
    bucket,         \* the objects: what was put under each key
    export          \* the command: what it still has to do

Quiet == [phase |-> "none"]
Exporting == export # Quiet
Phases == <<"wmts", "wms", "geojson">>

\* What a kind of distributions puts: those with an opacity or a gutter, and the style files of
\* the GeoJSON layers, which are named after other layers at times.
StyleOf(x) ==
    IF x[2] = "geojson" THEN [key |-> distribution[x].paint, content |-> distribution[x].paint]
    ELSE [key |-> x, content |-> distribution[x].paint]
Styled == {x \in DOMAIN distribution : x[2] \in {"wms", "wmts", "geojson"}
                                         /\ distribution[x].paint \notin {None, Plain}}

\* Slip: the styles of GeoJSON layers are not put.
StylesOfTiles(kind) == {StyleOf(x) : x \in {y \in Styled : y[2] = kind /\ kind # "geojson"}}

StylesOf(kind) == {StyleOf(x) : x \in {y \in Styled : y[2] = kind}}

StartExport ==
    /\ ~Exporting
    /\ export' = [phase |-> "export", ahead |-> Phases, kind |-> None, puts |-> {}]
    /\ UNCHANGED bucket

\* The distributions of a kind are read before the first of them is put.
ReadKind ==
    /\ export.phase = "export" /\ export.puts = {} /\ export.ahead # <<>>
    /\ export' = [export EXCEPT !.ahead = Tail(@), !.kind = Head(export.ahead),
                                !.puts = StylesOf(Head(export.ahead))]
    /\ UNCHANGED bucket

\* A file that is no longer deployed is an error, and ends the export.
PutObject ==
    /\ export.phase = "export"
    /\ \E s \in export.puts :
         IF export.kind = "geojson" /\ s.key \notin {files[n] : n \in DOMAIN files}
         THEN export' = Quiet /\ UNCHANGED bucket
         ELSE /\ export' = [export EXCEPT !.puts = @ \ {s}]
              /\ bucket' = [k \in DOMAIN bucket \cup {s.key} |->
                              IF k = s.key THEN s.content ELSE bucket[k]]
EndExport ==
    /\ export.phase = "export" /\ export.puts = {} /\ export.ahead = <<>>
    /\ export' = Quiet /\ UNCHANGED bucket

\* The command clean lists a page and deletes it; after the last page it ends.
StartClean ==
    /\ ~Exporting /\ UNCHANGED bucket
    /\ export' = [phase |-> "list", seen |-> {}]
ListPage ==
    /\ export.phase = "list" /\ UNCHANGED bucket
    /\ LET left == DOMAIN bucket \ export.seen
       IN  \/ left = {} /\ export' = Quiet
           \/ \E page \in SUBSET left :
                /\ page # {}
                /\ export' = [phase |-> "delete", page |-> page, last |-> page = left,
                              seen |-> export.seen \cup page]
DeletePage ==
    /\ export.phase = "delete"
    /\ bucket' = [k \in DOMAIN bucket \ export.page |-> bucket[k]]
    /\ export' = IF export.last THEN Quiet ELSE [phase |-> "list", seen |-> export.seen]

StyleStep == ReadKind \/ PutObject \/ EndExport \/ ListPage \/ DeletePage
==============================================================================
