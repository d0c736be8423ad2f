---------------------------- MODULE JsonlStorage ----------------------------
(***************************************************************************)
(* JsonlSessionStorage (packages/agent/src/harness/session/jsonl): one     *)
(* file per session, one line per mutation.  Writes are queued and run one *)
(* at a time: check, append the line, then apply it in memory.  A process  *)
(* crash may leave any prefix of the line being appended; load replays the *)
(* file, drops a torn last line through a temporary file and a rename, and *)
(* terminates a complete last line that lost its newline.  fork loads the  *)
(* file for itself, whether or not a storage has it open, and publishes a  *)
(* new file.                                                               *)
(***************************************************************************)
EXTENDS SessionState

CONSTANTS
    ForkRequests, \* the options fork is called with
    MaxRequests,  \* bound on the writes that are ever submitted
    MaxCrashes,   \* bound on process crashes
    MaxForks,     \* bound on forks
    Faults        \* what the environment may do, besides crashing

(* "append":    an append is rejected before anything is written.          *)
(* "partial":   an append is rejected after part of its line was written.  *)
(* "repair":    a step of load or fork that writes is rejected.            *)
(* "overlap":   a load may run while another one is under way.             *)
(* "torn read": a load may see part of the append that is in flight.       *)
ASSUME JsonlAssumption ==
    /\ MaxRequests \in Nat /\ MaxCrashes \in Nat /\ MaxForks \in Nat
    /\ ForkRequests \subseteq ForkOptions
    /\ Faults \subseteq {"append", "partial", "repair", "overlap", "torn read"}

VARIABLES
    opened,    \* whether a process has the session open
    state,     \* its SessionState
    queue,     \* the operations chained on this.tail, the running one first
    appending, \* the mutation handed to fs.appendFile, or NoMutation
    unwritten, \* the part of its line that is not written yet
    orphaned,  \* its file was renamed away: what is still written is lost
    file,      \* the text of the session file
    temp,      \* the text of its ".tmp" sibling, or Missing
    load,      \* for each caller of load: where it is and what it will do
    forks,     \* the published fork files
    \* Bookkeeping: the mutations whose promise resolved, and counters.
    acknowledged, requests, crashes, forked

appendVars  == <<appending, unwritten, orphaned>>
storageVars == <<opened, state, queue>>
diskVars    == <<file, temp, forks>>
ghostVars   == <<acknowledged, requests, crashes, forked>>
vars == <<storageVars, appendVars, diskVars, load, ghostVars>>

-----------------------------------------------------------------------------
(* Text.  A line is cut in three pieces, so that a write can stop after    *)
(* nothing, in the JSON, after the JSON and after the newline.             *)

NoMutation == [kind |-> "none"]
Newline == [piece |-> "newline"]
Header == <<[piece |-> "header"], Newline>>
Missing == <<[piece |-> "missing"]>>

encodeMutation(m) ==
    <<[piece |-> "first", of |-> m], [piece |-> "second", of |-> m], Newline>>

EncodeAll(mutations) ==
    Header \o FlattenSeq([i \in 1..Len(mutations) |->
                            encodeMutation(mutations[i])])

\* A line parses when it is exactly the two halves of one mutation.
SyntaxError == [kind |-> "syntax"]
parseMutation(line) ==
    IF /\ Len(line) = 2
       /\ line[1].piece = "first" /\ line[2].piece = "second"
       /\ line[1].of = line[2].of
    THEN line[1].of ELSE SyntaxError

\* content.split("\n"), each line parsed; rest is the text after the last
\* newline, and the header line parses to a syntax error of its own.
Cut(acc, piece) ==
    IF piece = Newline
    THEN [lines |-> Append(acc.lines, parseMutation(acc.rest)), rest |-> <<>>]
    ELSE [acc EXCEPT !.rest = Append(@, piece)]
Split(text) ==
    LET upTo[n \in 0..Len(text)] ==
            IF n = 0 THEN [lines |-> <<>>, rest |-> <<>>]
            ELSE Only({Cut(acc, text[n]) : acc \in {upTo[n - 1]}})
    IN  upTo[Len(text)]

\* The parsed lines after the header.
physicalLines(split) ==
    Tail(IF split.rest = <<>> THEN split.lines
         ELSE Append(split.lines, parseMutation(split.rest)))

Unterminated(text) == Split(text).rest # <<>>
isTornTail(text) ==
    LET lines == physicalLines(Split(text))
    IN  lines # <<>> /\ Last(lines) = SyntaxError

\* The mutations load replays, if it gets through them.
ValidPrefix(text) ==
    LET lines == physicalLines(Split(text))
    IN  IF lines # <<>> /\ Last(lines) = SyntaxError THEN Front(lines)
        ELSE lines
HasHeader(text) == text # <<>> /\ Head(text) = Head(Header)
Loads(text) ==
    /\ HasHeader(text)
    /\ \A i \in 1..Len(ValidPrefix(text)) : ValidPrefix(text)[i] # SyntaxError
    /\ Replay(ValidPrefix(text)).ok

-----------------------------------------------------------------------------
(* The operations of the interface: their checks and their mutations.      *)

\* Mutant: an operation may start while another one is open.
AdmittedTwice(r) ==
    CASE r.op \in {"createLane"} -> /\ validateNewLane(state, r.lane)
                                    /\ validateTarget(state, r.at)
      [] r.op = "moveLane" -> requireLane(state, r.lane)
                                /\ validateTarget(state, r.to)
      [] r.op \in {"appendEntry", "appendRecord"} ->
            requireLane(state, r.lane) /\ validateUnusedId(state, r.id)
      [] r.op = "setName"  -> TRUE
      [] r.op = "setLabel" -> validateTarget(state, r.id)
Admitted(r) ==
    CASE r.op = "createLane" -> /\ validateNewLane(state, r.lane)
                                /\ validateTarget(state, r.at)
      [] r.op = "moveLane"   -> /\ requireLane(state, r.lane)
                                /\ validateTarget(state, r.to)
      [] r.op = "appendEntry" -> /\ requireLane(state, r.lane)
                                 /\ validateUnusedId(state, r.id)
      [] r.op = "appendRecord" ->
            /\ requireLane(state, r.lane)
            /\ validateUnusedId(state, r.id)
            /\ r.type = "operation_started" =>
                    findOpenOperations(state, r.lane) = {}
      [] r.op = "setName"  -> TRUE
      [] r.op = "setLabel" -> validateTarget(state, r.id)

MutationOf(r) ==
    LET seq == nextSequence(state)
    IN  CASE r.op = "createLane" -> LaneMutation(seq, r.lane, r.at)
          [] r.op = "moveLane"   -> LaneMutation(seq, r.lane, r.to)
          [] r.op = "appendEntry" ->
                EntryMutation(seq, r.lane, r.id, state.lanes[r.lane], r.type)
          [] r.op = "appendRecord" ->
                RecordMutation(seq, r.lane, r.id, r.type, r.runId)
          [] r.op = "setName"  -> NameMutation(seq, r.name)
          [] r.op = "setLabel" -> LabelMutation(seq, r.id, r.label)

-----------------------------------------------------------------------------
(* The writer.                                                             *)

Loaders == {"open", "fork"}
Idle == [at |-> "idle"]

\* A created session: the file has its header and nothing else.
Init ==
    /\ opened = TRUE /\ state = InitialState /\ queue = <<>>
    /\ appending = NoMutation /\ unwritten = <<>> /\ orphaned = FALSE
    /\ file = Header /\ temp = Missing /\ forks = {}
    /\ load = [l \in Loaders |-> Idle]
    /\ acknowledged = {} /\ requests = 0 /\ crashes = 0 /\ forked = 0

\* A caller writes: the operation is chained on this.tail.
enqueue(r) ==
    /\ opened /\ requests < MaxRequests
    /\ queue' = Append(queue, r)
    /\ requests' = requests + 1
    /\ UNCHANGED <<opened, state, appendVars, diskVars, load,
                   acknowledged, crashes, forked>>

\* The operation at the head runs up to its await of appendFile.
StartAppend ==
    /\ queue # <<>> /\ appending = NoMutation
    /\ Admitted(Head(queue))
    /\ appending' = MutationOf(Head(queue))
    /\ unwritten' = encodeMutation(MutationOf(Head(queue)))
    /\ orphaned' = FALSE
    /\ UNCHANGED <<storageVars, diskVars, load, ghostVars>>

\* Mutant: the failed operation stays at the head of the chain.
RejectSticks ==
    queue # <<>> /\ appending = NoMutation /\ ~Admitted(Head(queue))
        /\ UNCHANGED vars
\* ... or throws; the next one runs all the same.
Reject ==
    /\ queue # <<>> /\ appending = NoMutation
    /\ ~Admitted(Head(queue))
    /\ queue' = Tail(queue)
    /\ UNCHANGED <<opened, state, appendVars, diskVars, load, ghostVars>>

\* The operating system writes the next piece.
WritePiece ==
    /\ unwritten # <<>>
    /\ file' = IF orphaned THEN file ELSE Append(file, Head(unwritten))
    /\ unwritten' = Tail(unwritten)
    /\ UNCHANGED <<storageVars, appending, orphaned, temp, forks, load,
                   ghostVars>>

NothingInFlight ==
    appending' = NoMutation /\ unwritten' = <<>> /\ orphaned' = FALSE

\* appendFile resolves: the mutation is applied, which checks it again, and
\* the caller is told.
Acknowledge ==
    /\ appending # NoMutation /\ unwritten = <<>>
    /\ ValidMutation(state, appending)
    /\ state' = applyMutation(state, appending)
    /\ acknowledged' = acknowledged \cup {appending}
    /\ queue' = Tail(queue) /\ NothingInFlight
    /\ UNCHANGED <<opened, diskVars, load, requests, crashes, forked>>

\* Mutant: the mutation is applied before the append is known to succeed.
AppendFailsApplied ==
    /\ appending # NoMutation
    /\ "append" \in Faults /\ unwritten = encodeMutation(appending)
    /\ state' = applyMutation(state, appending)
    /\ queue' = Tail(queue) /\ NothingInFlight
    /\ UNCHANGED <<opened, diskVars, load, ghostVars>>
\* appendFile rejects: memory is left alone and the caller gets the error.
AppendFails ==
    /\ appending # NoMutation
    /\ \/ "append" \in Faults /\ unwritten = encodeMutation(appending)
       \/ /\ "partial" \in Faults
          /\ unwritten \notin {<<>>, encodeMutation(appending)}
    /\ queue' = Tail(queue) /\ NothingInFlight
    /\ UNCHANGED <<opened, state, diskVars, load, ghostVars>>

\* The process dies, wherever the append and the loads are.
Crash ==
    /\ crashes < MaxCrashes
    /\ crashes' = crashes + 1
    /\ opened' = FALSE /\ state' = InitialState /\ queue' = <<>>
    /\ NothingInFlight
    /\ load' = [l \in Loaders |-> Idle]
    /\ UNCHANGED <<diskVars, acknowledged, requests, forked>>

-----------------------------------------------------------------------------
(* load, on behalf of open and of fork.                                    *)

\* load returns to its caller: open has a storage; fork has the mutations of
\* its copy, unless the target is not a message.
Loaded(l, loads, mutations, o) ==
    LET s == Replay(mutations).state
    IN  IF l = "open"
        THEN /\ opened' = TRUE /\ state' = s
             /\ load' = [loads EXCEPT ![l] = Idle]
        ELSE /\ UNCHANGED <<opened, state>>
             /\ load' = [loads EXCEPT ![l] =
                    IF ValidForkTarget(s, o)
                    THEN [at |-> "copy", source |-> s, options |-> o,
                          copied |-> <<>>]
                    ELSE Idle]

\* Only open and fork read the file; fork reads it whether or not a storage
\* has it open.  A file that does not load is reported and left alone.
MayLoad(l) ==
    /\ load[l] = Idle
    /\ l = "open" => ~opened
    /\ l = "fork" => forked < MaxForks
    /\ "overlap" \in Faults \/ \A k \in Loaders : load[k].at \in {"idle", "copy"}
    /\ \/ "torn read" \in Faults
       \/ unwritten \in {<<>>, encodeMutation(appending)}
    /\ Loads(file)

Options(l) == IF l = "fork" THEN ForkRequests ELSE {None}

\* A torn last line is to be dropped, a missing newline to be added.
ReadFile(l, o) ==
    /\ MayLoad(l)
    /\ IF isTornTail(file) \/ Unterminated(file)
       THEN /\ load' = [load EXCEPT ![l] =
                [at |-> IF isTornTail(file) THEN "stage" ELSE "terminate",
                 prefix |-> ValidPrefix(file), options |-> o,
                 handle |-> "none"]]
            /\ UNCHANGED <<opened, state>>
       ELSE Loaded(l, load, ValidPrefix(file), o)
    /\ forked' = IF l = "fork" THEN forked + 1 ELSE forked
    /\ UNCHANGED <<queue, appendVars, diskVars, acknowledged, requests,
                   crashes>>

loadRest == <<queue, forks, ghostVars>>

\* writeFile opens the temporary file and truncates it ...
OpenTemp(l) ==
    /\ load[l].at = "stage"
    /\ temp' = <<>>
    /\ load' = [load EXCEPT ![l].at = "staging", ![l].handle = "temp"]
    /\ UNCHANGED <<opened, state, appendVars, file, loadRest>>

\* ... and writes the valid prefix, into whatever its handle now names.
Overwrite(text, new) ==
    new \o SubSeq(text, Len(new) + 1, Len(text))
WriteTemp(l) ==
    /\ load[l].at = "staging"
    /\ LET new == EncodeAll(load[l].prefix)
       IN  /\ temp' = IF load[l].handle = "temp" THEN new ELSE temp
           /\ file' = IF load[l].handle = "file" THEN Overwrite(file, new)
                      ELSE file
    /\ load' = [load EXCEPT ![l].at = "publish"]
    /\ UNCHANGED <<opened, state, appendVars, loadRest>>

\* Handles on the temporary file follow its rename or removal.
Renamed(l, name) ==
    [k \in Loaders |->
        IF k # l /\ load[k].at = "staging" /\ load[k].handle = "temp"
        THEN [load[k] EXCEPT !.handle = name] ELSE load[k]]

\* The rename commits; an append that has begun writes to the old file.
Publish(l) ==
    /\ load[l].at = "publish" /\ temp # Missing
    /\ file' = temp /\ temp' = Missing
    /\ orphaned' = (/\ appending # NoMutation
                    /\ orphaned \/ unwritten # encodeMutation(appending))
    /\ Loaded(l, Renamed(l, "file"), load[l].prefix, load[l].options)
    /\ UNCHANGED <<appending, unwritten, loadRest>>

\* Mutant: the unterminated line is left as it is.
TerminateNot(l) ==
    /\ load[l].at = "terminate"
    /\ Loaded(l, load, load[l].prefix, load[l].options)
    /\ UNCHANGED <<appendVars, file, temp, loadRest>>
\* The missing newline is appended.
Terminate(l) ==
    /\ load[l].at = "terminate"
    /\ file' = Append(file, Newline)
    /\ Loaded(l, load, load[l].prefix, load[l].options)
    /\ UNCHANGED <<appendVars, temp, loadRest>>

\* A write or the rename fails, the rename also when the temporary file is
\* gone: the file is left alone, the temporary file removed.
RepairFails(l) ==
    /\ load[l].at \in {"stage", "staging", "publish", "terminate"}
    /\ "repair" \in Faults \/ (load[l].at = "publish" /\ temp = Missing)
    /\ IF load[l].at = "terminate"
       THEN UNCHANGED temp /\ load' = [load EXCEPT ![l] = Idle]
       ELSE /\ temp' = Missing
            /\ load' = [Renamed(l, "removed") EXCEPT ![l] = Idle]
    /\ UNCHANGED <<opened, state, appendVars, file, loadRest>>

\* fork appends its copy, one mutation after another, to a temporary file of
\* its own, which a crash leaves behind and nothing reads (it is the "copied"
\* of the load).  Only the rename makes it a session; the record keeps what
\* the copy was made from.
ForkFile(mutations) ==
    [mutations |-> mutations, source |-> load["fork"].source,
     options |-> load["fork"].options]
ForkCopy == createForkMutations(load["fork"].source, load["fork"].options)

\* The temporary file with the next mutation.
Copying ==
    Append(load["fork"].copied, ForkCopy[Len(load["fork"].copied) + 1])

\* Mutant: the copy is appended to the destination itself.
AppendCopyInPlace ==
    /\ load["fork"].at = "copy" /\ Len(load["fork"].copied) < Len(ForkCopy)
    /\ forks' = (forks \ {ForkFile(load["fork"].copied)}) \cup {ForkFile(Copying)}
    /\ load' = [load EXCEPT !["fork"].copied = Copying]
    /\ UNCHANGED <<storageVars, appendVars, file, temp, ghostVars>>
AppendCopy ==
    /\ load["fork"].at = "copy" /\ Len(load["fork"].copied) < Len(ForkCopy)
    /\ load' = [load EXCEPT !["fork"].copied = Copying]
    /\ UNCHANGED <<storageVars, appendVars, diskVars, ghostVars>>

\* Creating, appending or renaming fails: the temporary file is removed.
ForkFails ==
    /\ load["fork"].at = "copy" /\ "repair" \in Faults
    /\ load' = [load EXCEPT !["fork"] = Idle]
    /\ UNCHANGED <<storageVars, appendVars, diskVars, ghostVars>>

\* The complete copy is renamed to its destination.
PublishFork ==
    /\ load["fork"].at = "copy" /\ Len(load["fork"].copied) = Len(ForkCopy)
    /\ forks' = forks \cup {ForkFile(load["fork"].copied)}
    /\ load' = [load EXCEPT !["fork"] = Idle]
    /\ UNCHANGED <<storageVars, appendVars, file, temp, ghostVars>>

-----------------------------------------------------------------------------
Write == StartAppend \/ Reject \/ WritePiece \/ Acknowledge \/ AppendFails
Load(l) ==
    \/ \E o \in Options(l) : ReadFile(l, o)
    \/ OpenTemp(l) \/ WriteTemp(l) \/ Publish(l) \/ Terminate(l)
    \/ RepairFails(l)

Next ==
    \/ \E r \in Requests : enqueue(r)
    \/ Write \/ Crash
    \/ \E l \in Loaders : Load(l)
    \/ AppendCopy \/ ForkFails \/ PublishFork

Spec == Init /\ [][Next]_vars

\* The promise chain and the file system keep going; a crash, a failure and
\* the callers are not obliged to.
Fairness == /\ WF_vars(StartAppend \/ Reject)
            /\ WF_vars(WritePiece)
            /\ WF_vars(Acknowledge)
FairSpec == Spec /\ Fairness

-----------------------------------------------------------------------------
(* Properties.                                                             *)

\* A write whose promise resolved is durable: at every moment, whatever
\* crashes, failed appends and repairs came before, the file loads and
\* replays every acknowledged mutation ("Writes. Resolve on durable
\* acceptance", types.ts).
AcknowledgedIsDurable ==
    Loads(file) /\ acknowledged \subseteq Range(ValidPrefix(file))

\* While nothing is being appended, a storage's memory is what another load
\* of its file would give.
MemoryMatchesFile ==
    opened /\ appending = NoMutation =>
        state = Replay(ValidPrefix(file)).state

\* A fork file is complete from the moment it exists: it loads, it has the
\* entries and lanes asked for, and they are entries the source still has
\* with the same parents, whatever happened to the source since.
ForksAreComplete ==
    \A f \in forks :
        LET fork   == Replay(f.mutations)
            copied == fork.state.entriesById
            source == Replay(ValidPrefix(file)).state.entriesById
        IN  /\ fork.ok
            /\ DOMAIN copied = Range(CopiedEntries(f.source, f.options))
            /\ \A l \in DOMAIN ForkLanes(f.source, f.options) :
                    fork.state.lanes[l] = ForkLanes(f.source, f.options)[l]
            /\ \A id \in DOMAIN copied :
                /\ id \in DOMAIN source
                /\ copied[id].parentId = source[id].parentId

\* The session as a caller would find it: in memory, or by opening the file.
Recovered == IF opened THEN state ELSE Replay(ValidPrefix(file)).state

Abstract == INSTANCE MemoryStorage WITH
    state <- Recovered, MaxSequence <- MaxRequests

\* Through crashes, failures and repairs the durable session only changes the
\* way the in-memory one does: by whole writes that it would accept, one at a
\* time.
ImplementsMemoryStorage == Abstract!Spec

\* Every queued write settles, or the process dies: a rejected or failed
\* operation does not block the ones behind it.
WritesSettle == [](queue # <<>> => <>(queue = <<>>))
=============================================================================
