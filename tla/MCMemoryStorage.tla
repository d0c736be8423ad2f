--------------------------- MODULE MCMemoryStorage ---------------------------
(* MemoryStorage on small sets of ids, lanes and values. *)
EXTENDS MemoryStorage

SomeLanes == {"main", "side"}

\* Branching, moving, labelling and forking, with operations opened and
\* closed on both lanes.
EveryWrite ==
    CreateLanes \cup MoveLanes \cup AppendEntries \cup SetNames
        \cup SetLabels \cup AppendRecords
=============================================================================
