--------------------------- MODULE MCJsonlStorage ---------------------------
(* JsonlStorage with writes that build on and conflict with each other. *)
EXTENDS JsonlStorage

SomeLanes == {"main", "side"}

\* Writes of two callers to one lane, and the operations they open.
LaneWrites ==
    {r \in AppendEntries : r.lane = "main" /\ r.type = "message"}
        \cup {r \in AppendRecords : r.lane = "main" /\ r.runId = None
                                     /\ r.type = "operation_started"}
\* And the lane sent back to the root, which makes branches.
MixedWrites ==
    LaneWrites
        \cup {r \in MoveLanes : r.lane = "main" /\ r.to = None}

\* The default fork and the fork of the whole tree.
SomeForks == {[scope |-> "tree"],
              [scope |-> "branch", entryId |-> None, position |-> None]}
=============================================================================
