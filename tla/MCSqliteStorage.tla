-------------------------- MODULE MCSqliteStorage --------------------------
(* Two repositories that share a database with a session and its fork. *)
EXTENDS SqliteRefinement, TLC

CONSTANTS source, copy, \* the two sessions
          forker,       \* the repository that forks
          run, finished \* ids of records

OnlyMain == {"main"}

\* One kind of write is enough to see who wrote.
NameWrites == [op : {"setName"}, name : Values]

\* Branching by moving main back, labels, and an operation that run starts
\* and finished ends.
EntryIds == Ids \ {run, finished}
BranchingWrites ==
    [op : {"appendEntry"}, id : EntryIds, type : {"message"}, lane : Lanes]
        \cup [op : {"moveLane"}, lane : Lanes, to : EntryIds]
        \cup [op : {"setLabel"}, id : EntryIds, label : Values]
        \cup [op : {"appendRecord"}, id : {run}, lane : Lanes,
              type : {"operation_started"}, runId : {None}]
        \cup [op : {"appendRecord"}, id : {finished}, lane : Lanes,
              type : {"operation_finished"}, runId : {run}]

ForkedAs(options) == [by |-> forker, source |-> source, target |-> copy,
                      options |-> options]
SomeForks ==
    {ForkedAs([scope |-> "tree"]),
     ForkedAs([scope |-> "branch", entryId |-> None, position |-> None])}
NoForks == {}

Processes == Permutations(Repositories)
AnyIds == Permutations(EntryIds)
=============================================================================
