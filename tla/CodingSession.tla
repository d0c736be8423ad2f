----------------------------- MODULE CodingSession -----------------------------
(***************************************************************************)
(* AgentSession (packages/coding-agent/src/core/agent-session.ts): the     *)
(* coding agent's session around one Agent.  It starts runs, persists what *)
(* the agent says, retries failed responses, compacts the context, defers  *)
(* the messages of extensions and shell commands while a run is active and *)
(* lets callers wait until the session is idle.                            *)
(*                                                                         *)
(* The session file is reduced to the branch that ends at its leaf, a      *)
(* sequence of entries; the agent's messages are indices into it.  The     *)
(* agent loop (module AgentLoop) is reduced to turns: a response, at most  *)
(* one tool call with its result, the end of the turn.  Each await of a    *)
(* handler ends an action.                                                 *)
(*                                                                         *)
(* Sizes are left out: whether the context has passed the threshold and    *)
(* how much of it compaction keeps are choices.  Retry and compaction are  *)
(* enabled and the model does not change within a run.                     *)
(***************************************************************************)
EXTENDS Integers, Sequences, FiniteSets, SequencesExt

CONSTANTS
    Prompts,        \* one per caller of prompt() or of a custom message that triggers a turn
    MaxRetries,     \* settings.retry.maxRetries
    MaxPrompts,     \* bound on calls that start a run
    MaxToolCalls,   \* bound on responses with a tool call
    MaxTrouble,     \* bound on failed responses and on contexts that pass the threshold
    MaxInputs,      \* bound on all other calls
    MaxTotal,       \* bound on runs, troubles and other calls together
    Inputs,         \* which of those are made, see Input below
    Overlap         \* callers start prompts while one is in preflight

ASSUME BoundsAssumption ==
    /\ \A n \in {MaxRetries, MaxPrompts, MaxToolCalls, MaxTrouble, MaxInputs, MaxTotal} : n \in Nat
    /\ Overlap \in BOOLEAN

VARIABLES
    branch,         \* sessionManager.getBranch(): entries from the root to the leaf
    messages,       \* agent.state.messages, as indices into branch
    agent,          \* agent.activeRun: its phase, whose run it is, its abort signal
    steering, followUp,  \* the agent's two queues
    pending,        \* _pendingCustomMessages, _pendingBashMessages, _pendingNextTurnMessages
    pc,             \* how far each call is
    local,          \* its local variables
    active,         \* _isAgentRunActive
    lastAssistant,  \* _lastAssistantMessage, as an index, 0 for undefined
    retryAttempt,   \* _retryAttempt
    recovered,      \* _overflowRecoveryAttempted
    ctl,            \* the abort controllers of retry, auto and manual compaction
    waiting,        \* who awaits _idleWaitPromise
    manual,         \* how far compact() is, and its cut point
    nav,            \* navigateTree(): the length of the branch it goes to, or None
    counts,         \* calls and responses made so far, for the bounds
    tries           \* retries and recoveries since a message was delivered or answered
                    \* or a retry aborted, and whether agent.continue() was ever rejected

transcript == <<branch, messages>>
queues == <<steering, followUp>>
calls == <<pc, local>>
vars == <<transcript, agent, queues, pending, calls, active, lastAssistant, retryAttempt,
          recovered, ctl, waiting, manual, nav, counts, tries>>

None == -1
Errors == {"error", "overflow", "fatal"}                          \* stopReason "error"
Truncated == {"length", "limit", "lengthCall", "limitCall"}       \* stopReason "length"
Failed == {"error", "overflow", "length", "lengthCall"}  \* retried, or recovered from by compaction
Unrecoverable == {"fatal", "limit", "limitCall"}
Calling == {"toolUse", "lengthCall", "limitCall"}                 \* with a tool call
Assistant == Failed \cup Unrecoverable \cup {"toolUse", "stop", "aborted"}
Kinds == Assistant \cup {"user", "custom", "bash", "result", "summary", "compaction", "meta"}

Entry(kind) == [kind |-> kind, kept |-> 0]
Repeat(kind, n) == [i \in 1..n |-> kind]
KindAt(i) == branch[i].kind
IsAssistant(i) == KindAt(i) \in Assistant
--------------------------------------------------------------------------------
(* The context of a branch: the latest compaction, what it kept, what follows.  *)

IsCompaction(b, i) == b[i].kind = "compaction"

LatestIn(b, kinds) ==
    LET at == {i \in DOMAIN b : b[i].kind \in kinds}
    IN IF at = {} THEN 0 ELSE Max(at)

LatestCompaction(b) == LatestIn(b, {"compaction"})

\* A set of indices as an increasing sequence: each stands where its rank says.
InOrder(S) == [n \in 1..Cardinality(S) |-> CHOOSE i \in S : Cardinality({j \in S : j <= i}) = n]

\* The context reaches back to what the latest compaction kept.
contextStart(b) ==
    LET c == LatestCompaction(b)
    IN IF c = 0 THEN 1 ELSE IF b[c].kept = 0 THEN c ELSE b[c].kept

\* Entries such as labels and names have no message; a compaction kept by a later
\* one contributes its summary like any other entry.
ContextEntries(b) == {i \in contextStart(b)..Len(b) : b[i].kind # "meta"}

buildSessionContext(b) ==
    LET c == LatestCompaction(b)
    IN IF c = 0 THEN InOrder(ContextEntries(b)) ELSE <<c>> \o InOrder(ContextEntries(b) \ {c})

\* The indices a message sequence gets when it is appended.
Indices(from, to) == [i \in 1..(to - from + 1) |-> from + i - 1]

\* findCutPoint: a message other than a tool result, with the metadata before it.
boundaryStart(b) ==
    LET c == LatestCompaction(b)
    IN IF c = 0 THEN 1 ELSE IF b[c].kept = 0 THEN c + 1 ELSE b[c].kept

findValidCutPoints(b) ==
    {i \in boundaryStart(b)..Len(b) : b[i].kind \notin {"result", "compaction", "meta"}}

IncludeMetadata(b, i) ==
    CHOOSE j \in boundaryStart(b)..i :
        /\ \A k \in j..(i - 1) : b[k].kind = "meta"
        /\ j = boundaryStart(b) \/ b[j - 1].kind # "meta"

\* prepareCompaction: the cut points for which there is something to summarize.
prepareCompaction(b) ==
    IF b # <<>> /\ IsCompaction(b, Len(b)) THEN {}
    ELSE {j \in {IncludeMetadata(b, i) : i \in findValidCutPoints(b)} :
            \E k \in boundaryStart(b)..(j - 1) : b[k].kind \notin {"compaction", "meta"}}
--------------------------------------------------------------------------------
NoLocal == [post |-> FALSE, retry |-> FALSE, cut |-> 0, msg |-> 0, carry |-> 0]
Idle == [phase |-> "idle", run |-> None, aborting |-> FALSE]

Init ==
    /\ branch = <<>> /\ messages = <<>>
    /\ agent = Idle
    /\ steering = <<>> /\ followUp = <<>>
    /\ pending = [custom |-> 0, bash |-> 0, next |-> 0]
    /\ pc = [p \in Prompts |-> "out"]
    /\ local = [p \in Prompts |-> NoLocal]
    /\ active = FALSE
    /\ lastAssistant = 0
    /\ retryAttempt = 0
    /\ recovered = FALSE
    /\ ctl = [retry |-> "none", auto |-> "none", manual |-> "none"]
    /\ waiting = {}
    /\ manual = [at |-> "out", cut |-> 0]
    /\ nav = [to |-> None, summarize |-> FALSE]
    /\ counts = [prompts |-> 0, tools |-> 0, trouble |-> 0, inputs |-> 0]
    /\ tries = [retries |-> 0, recoveries |-> 0, rejected |-> FALSE]

FreshTries == [tries EXCEPT !.retries = 0, !.recoveries = 0]

hasQueuedMessages == steering # <<>> \/ followUp # <<>>

\* Append messages to the agent's state and to the session.
Push(kinds) ==
    /\ branch' = branch \o [i \in DOMAIN kinds |-> Entry(kinds[i])]
    /\ messages' = messages \o Indices(Len(branch) + 1, Len(branch) + Len(kinds))

PendingCustom == Repeat("custom", pending.custom)
PendingMessages == Repeat("bash", pending.bash) \o PendingCustom

Goto(p, where) == pc' = [pc EXCEPT ![p] = where]

InPreflight(p) ==
    \/ pc[p] \in {"input", "auth", "build", "before"}
    \/ pc[p] \in {"compactAuth", "compactSummary", "compactEvent"} /\ ~local[p].post

\* What hosts refrain from, since the session does not check it.
Quiet == ~Overlap => /\ \A p \in Prompts : ~InPreflight(p)
                     /\ nav.to = None
                     /\ manual.at \notin {"idle", "ready"}
--------------------------------------------------------------------------------
(* prompt(): the part before the run.                                            *)

BelowTotal == counts.prompts + counts.trouble + counts.inputs < MaxTotal

CountPrompt == /\ counts.prompts < MaxPrompts /\ BelowTotal
               /\ counts' = [counts EXCEPT !.prompts = @ + 1]

Input(name) ==
    /\ name \in Inputs /\ counts.inputs < MaxInputs /\ BelowTotal
    /\ counts' = [counts EXCEPT !.inputs = @ + 1]

\* prompt() is called; it is refused while a manual compaction is under way.
Prompt(p) ==
    /\ pc[p] = "out" /\ Quiet
    /\ ctl.manual = "none"
    /\ CountPrompt
    /\ Goto(p, "input")
    /\ UNCHANGED <<transcript, agent, queues, pending, local, active, lastAssistant, retryAttempt,
                   recovered, ctl, waiting, manual, nav, tries>>

\* After the input handlers, one of which may have handled the message: while a run is
\* active it is queued, or refused without streamingBehavior; otherwise deferred
\* messages are flushed.
Submit(p) ==
    /\ pc[p] = "input"
    /\ \/ /\ Goto(p, "out")
          /\ UNCHANGED <<transcript, queues, pending>>
       \/ /\ active
          /\ \/ steering' = Append(steering, "user") /\ UNCHANGED followUp
             \/ followUp' = Append(followUp, "user") /\ UNCHANGED steering
          /\ Goto(p, "out")
          /\ UNCHANGED <<transcript, pending>>
       \/ /\ ~active
          /\ Push(PendingMessages)
          /\ pending' = [pending EXCEPT !.custom = 0, !.bash = 0]
          /\ Goto(p, "auth")
          /\ UNCHANGED queues
    /\ UNCHANGED <<agent, local, active, lastAssistant, retryAttempt, recovered, ctl, waiting,
                   manual, nav, counts, tries>>

--------------------------------------------------------------------------------
(* _checkCompaction, reached before a prompt and after a run.                    *)

FromBeforeCompaction(i) == i <= LatestCompaction(branch)

\* The estimate for a failed response rests on the last response that has a usage.
UsageIsStale(i) ==
    LET HasUsage(j) == KindAt(j) \in Truncated \cup {"toolUse", "stop"}
    IN /\ KindAt(i) \in Errors
       /\ \E j \in ToSet(messages) :
            /\ HasUsage(j) /\ FromBeforeCompaction(j)
            /\ \A k \in ToSet(messages) : HasUsage(k) => k <= j

RemoveLastAssistant ==
    messages' = IF messages # <<>> /\ IsAssistant(Last(messages)) THEN Front(messages) ELSE messages

\* The check is over: go on with the prompt, or with the run if there is a reason to.
CheckReturns(p, post, again) ==
    Goto(p, IF ~post THEN "build" ELSE IF again \/ hasQueuedMessages THEN "resume" ELSE "finally")

CheckCompaction(p, i, post) ==
    LET skipped == (post /\ KindAt(i) = "aborted") \/ FromBeforeCompaction(i)
        overflow == KindAt(i) \in Failed \ {"error"}
    IN \/ /\ skipped \/ ~overflow \/ recovered
          /\ CheckReturns(p, post, FALSE)
          /\ UNCHANGED <<messages, local, recovered, counts, tries>>
       \/ /\ ~skipped /\ overflow /\ ~recovered
          /\ recovered' = TRUE
          /\ RemoveLastAssistant
          /\ tries' = [tries EXCEPT !.recoveries = @ + 1]
          /\ local' = [local EXCEPT ![p].post = post, ![p].retry = TRUE]
          /\ Goto(p, "compactAuth")
          /\ UNCHANGED counts
       \/ /\ ~skipped /\ ~overflow /\ ~UsageIsStale(i)
          /\ counts.trouble < MaxTrouble /\ BelowTotal
          /\ counts' = [counts EXCEPT !.trouble = @ + 1]
          /\ local' = [local EXCEPT ![p].post = post, ![p].retry = FALSE]
          /\ Goto(p, "compactAuth")
          /\ UNCHANGED <<messages, recovered, tries>>

\* The model's credentials were checked: without them the prompt is refused.
Authorize(p) ==
    /\ pc[p] = "auth"
    /\ LET responses == {i \in ToSet(messages) : IsAssistant(i)}
       IN \/ Goto(p, "out") /\ UNCHANGED <<messages, local, recovered, counts, tries>>
          \/ /\ responses = {}
             /\ Goto(p, "build")
             /\ UNCHANGED <<messages, local, recovered, counts, tries>>
          \/ /\ responses # {}
             /\ CheckCompaction(p, Max(responses), FALSE)
    /\ UNCHANGED <<branch, agent, queues, pending, active, lastAssistant, retryAttempt, ctl,
                   waiting, manual, nav>>

--------------------------------------------------------------------------------
(* _runAutoCompaction, between its awaits.                                       *)

CompactionReturns(p, again) ==
    /\ CheckReturns(p, local[p].post, again)
    /\ ctl' = [ctl EXCEPT !.auto = "none"]
    /\ local' = [local EXCEPT ![p] = NoLocal]

\* Credentials are there or not; the branch is read and a cut point chosen.
CompactAuth(p) ==
    /\ pc[p] = "compactAuth"
    /\ \/ CompactionReturns(p, FALSE)
       \/ \E cut \in prepareCompaction(branch) :
            /\ local' = [local EXCEPT ![p].cut = cut]
            /\ ctl' = [ctl EXCEPT !.auto = "live"]
            /\ Goto(p, "compactSummary")
    /\ UNCHANGED <<transcript, agent, queues, pending, active, lastAssistant, retryAttempt,
                   recovered, waiting, manual, nav, counts, tries>>

\* Mutant of Publish: the agent keeps the messages it had.
PublishOnly(cut) ==
    branch' = Append(branch, [kind |-> "compaction", kept |-> cut]) /\ UNCHANGED messages

\* appendCompaction, and the agent's messages rebuilt from the session.
Publish(cut) ==
    /\ branch' = Append(branch, [kind |-> "compaction", kept |-> cut])
    /\ messages' = buildSessionContext(branch')

\* The summary failed or was cancelled, or it is published.
CompactSummary(p) ==
    /\ pc[p] = "compactSummary"
    /\ \/ CompactionReturns(p, FALSE) /\ UNCHANGED transcript
       \/ /\ ctl.auto # "aborted"
          /\ Publish(local[p].cut)
          /\ Goto(p, "compactEvent")
          /\ UNCHANGED <<local, ctl>>
    /\ UNCHANGED <<agent, queues, pending, active, lastAssistant, retryAttempt, recovered,
                   waiting, manual, nav, counts, tries>>

\* After the session_compact handlers: when the turn is to be retried the response
\* that failed is removed again, for the rebuilt messages may end with it.
CompactEvent(p) ==
    /\ pc[p] = "compactEvent"
    /\ messages' = IF local[p].retry /\ messages # <<>> /\ KindAt(Last(messages)) \in Errors \cup Truncated
                   THEN Front(messages) ELSE messages
    /\ CompactionReturns(p, local[p].retry)
    /\ UNCHANGED <<branch, agent, queues, pending, active, lastAssistant, retryAttempt,
                   recovered, waiting, manual, nav, counts, tries>>
--------------------------------------------------------------------------------
(* The run: _runAgentPrompt, the agent's turns, _handlePostAgentRun.             *)

\* The new messages are put together: "nextTurn" messages go with the prompt.
Build(p) ==
    /\ pc[p] = "build"
    /\ local' = [local EXCEPT ![p].carry = pending.next]
    /\ pending' = [pending EXCEPT !.next = 0]
    /\ Goto(p, "before")
    /\ UNCHANGED <<transcript, agent, queues, active, lastAssistant, retryAttempt, recovered, ctl,
                   waiting, manual, nav, counts, tries>>

\* Mutant of StartRun: every run, not only a user message, allows another recovery.
RecoverEveryRun(p, kinds, polled) ==
    /\ agent' = [phase |-> "turn", run |-> p, aborting |-> FALSE]
    /\ Push(kinds \o polled)
    /\ recovered' = FALSE
    /\ tries' = IF kinds \o polled = <<>> THEN tries ELSE FreshTries
    /\ Goto(p, "run")

\* A run of the agent begins with these messages and polls the steering queue, whose
\* messages are taken one at a time.  A user message starts a new attempt to recover.
StartRun(p, kinds, polled) ==
    /\ agent' = [phase |-> "turn", run |-> p, aborting |-> FALSE]
    /\ Push(kinds \o polled)
    /\ recovered' = (recovered /\ "user" \notin ToSet(kinds \o polled))
    /\ tries' = IF kinds \o polled = <<>> THEN tries ELSE FreshTries
    /\ Goto(p, "run")

Poll(queue) == IF queue = <<>> THEN <<>> ELSE <<Head(queue)>>
Polled(queue) == IF queue = <<>> THEN <<>> ELSE Tail(queue)

\* agent.prompt() throws when the agent has a run already.
RunAgentPrompt(p, kinds) ==
    /\ active' = TRUE
    /\ IF agent.phase = "idle"
       THEN /\ StartRun(p, kinds, Poll(steering))
            /\ steering' = Polled(steering)
       ELSE /\ Goto(p, "finally")
            /\ UNCHANGED <<transcript, agent, steering, recovered, tries>>

\* After the before_agent_start handlers, which may add a message.
BeforeAgentStart(p) ==
    /\ pc[p] = "before"
    /\ \E added \in 0..1 :
        /\ IF added = 1 THEN Input("custom") ELSE UNCHANGED counts
        /\ RunAgentPrompt(p, <<"user">> \o Repeat("custom", local[p].carry + added))
    /\ local' = [local EXCEPT ![p] = NoLocal]
    /\ UNCHANGED <<followUp, pending, lastAssistant, retryAttempt, ctl, waiting, manual, nav>>

\* sendCustomMessage with triggerTurn while no run is active.
TriggerTurn(p) ==
    /\ pc[p] = "out" /\ ~active /\ Quiet
    /\ Overlap \/ manual.at = "out"
    /\ CountPrompt
    /\ RunAgentPrompt(p, <<"custom">>)
    /\ UNCHANGED <<followUp, pending, local, lastAssistant, retryAttempt, ctl, waiting, manual, nav>>

\* What the provider may answer, within the bounds; an aborted request ends as such
\* unless it was already answered.
Responses ==
    {kind \in Assistant :
        /\ kind = "aborted" => agent.aborting
        /\ kind \in Calling => counts.tools < MaxToolCalls
        /\ kind \in Errors \cup Truncated => counts.trouble < MaxTrouble /\ BelowTotal}

\* message_end of a response: it is persisted, and a good one resets the counters.  A
\* truncated one leaves the recovery attempted, and with a tool call the run goes on.
Respond(p) ==
    /\ pc[p] = "run" /\ agent.run = p /\ agent.phase = "turn"
    /\ \E kind \in Responses :
        /\ Push(<<kind>>)
        /\ agent' = [agent EXCEPT !.phase = IF kind \in Calling THEN "tools" ELSE "turnEnd"]
        /\ recovered' = (recovered /\ kind \in Errors \cup Truncated)
        /\ retryAttempt' = IF kind \in Errors THEN retryAttempt ELSE 0
        /\ counts' = [counts EXCEPT !.tools = @ + (IF kind \in Calling THEN 1 ELSE 0),
                                    !.trouble = @ + (IF kind \in Errors \cup Truncated THEN 1 ELSE 0)]
        /\ tries' = IF kind \notin Errors \cup Truncated THEN FreshTries
                    ELSE [tries EXCEPT !.retries = IF kind \in Calling THEN 0 ELSE @]
    /\ lastAssistant' = Len(branch')
    /\ UNCHANGED <<queues, pending, calls, active, ctl, waiting, manual, nav>>

\* The call was executed, or failed because its response was truncated.
ToolResult(p) ==
    /\ pc[p] = "run" /\ agent.run = p /\ agent.phase = "tools"
    /\ Push(<<"result">>)
    /\ agent' = [agent EXCEPT !.phase = "turnEnd"]
    /\ UNCHANGED <<queues, pending, calls, active, lastAssistant, retryAttempt, recovered, ctl,
                   waiting, manual, nav, counts, tries>>

\* turn_end: deferred custom messages are flushed; then the queues are polled, and
\* the run goes on after a tool result, unless the tool that was executed asks to
\* terminate, or with a queued message.
EndTurn(p) ==
    /\ pc[p] = "run" /\ agent.run = p /\ agent.phase = "turnEnd"
    /\ \E more \in BOOLEAN :
       LET response == KindAt(LatestIn(branch, Assistant))
           over == response \in Errors \cup {"aborted"}
           steered == IF over THEN <<>> ELSE Poll(steering)
           follow == IF over \/ more \/ steered # <<>> THEN <<>> ELSE Poll(followUp)
           delivered == steered \o follow
       IN /\ more => response \in Calling
          /\ response \in Calling \cap Truncated => more
          /\ Push(PendingCustom \o delivered)
          /\ pending' = [pending EXCEPT !.custom = 0]
          /\ steering' = IF steered = <<>> THEN steering ELSE Polled(steering)
          /\ followUp' = IF follow = <<>> THEN followUp ELSE Polled(followUp)
          /\ recovered' = (recovered /\ "user" \notin ToSet(delivered))
          /\ tries' = IF PendingCustom \o delivered = <<>> THEN tries ELSE FreshTries
          /\ IF more \/ delivered # <<>>
             THEN agent' = [agent EXCEPT !.phase = "turn"] /\ UNCHANGED pc
             ELSE agent' = Idle /\ Goto(p, "post")
    /\ UNCHANGED <<local, active, lastAssistant, retryAttempt, ctl, waiting, manual, nav, counts>>

\* _handlePostAgentRun up to its first await: a retryable error is removed from the
\* agent's messages and the backoff begins, or the context is checked.
HandlePostAgentRun(p) ==
    /\ pc[p] = "post"
    /\ lastAssistant' = 0
    /\ \/ /\ lastAssistant = 0
          /\ Goto(p, "finally")
          /\ UNCHANGED <<messages, local, retryAttempt, recovered, ctl, counts, tries>>
       \/ /\ lastAssistant # 0
          /\ KindAt(lastAssistant) = "error" /\ retryAttempt < MaxRetries
          /\ retryAttempt' = retryAttempt + 1
          /\ RemoveLastAssistant
          /\ tries' = [tries EXCEPT !.retries = @ + 1]
          /\ ctl' = [ctl EXCEPT !.retry = "live"]
          /\ local' = [local EXCEPT ![p].msg = lastAssistant]
          /\ Goto(p, "backoff")
          /\ UNCHANGED <<recovered, counts>>
       \/ /\ lastAssistant # 0
          /\ ~(KindAt(lastAssistant) = "error" /\ retryAttempt < MaxRetries)
          /\ retryAttempt' = IF KindAt(lastAssistant) \in Errors THEN 0 ELSE retryAttempt
          /\ CheckCompaction(p, lastAssistant, TRUE)
          /\ UNCHANGED ctl
    /\ UNCHANGED <<branch, agent, queues, pending, active, waiting, manual, nav>>

\* Mutant of Backoff: the controller is only cleared when the delay was aborted.
KeepController(p) ==
    /\ pc[p] = "backoff"
    /\ IF ctl.retry = "aborted"
       THEN /\ ctl' = [ctl EXCEPT !.retry = "none"]
            /\ retryAttempt' = 0
            /\ CheckCompaction(p, local[p].msg, TRUE)
       ELSE /\ Goto(p, "resume")
            /\ UNCHANGED <<messages, local, retryAttempt, recovered, ctl, counts, tries>>
    /\ UNCHANGED <<branch, agent, queues, pending, active, lastAssistant, waiting, manual, nav>>

\* The delay of _prepareRetry passed, or was aborted.
Backoff(p) ==
    /\ pc[p] = "backoff"
    /\ ctl' = [ctl EXCEPT !.retry = "none"]
    /\ IF ctl.retry = "aborted"
       THEN /\ retryAttempt' = 0
            /\ CheckCompaction(p, local[p].msg, TRUE)
       ELSE /\ Goto(p, "resume")
            /\ UNCHANGED <<messages, local, retryAttempt, recovered, counts, tries>>
    /\ UNCHANGED <<branch, agent, queues, pending, active, lastAssistant, waiting, manual, nav>>

\* agent.continue(): from a response only a queued message leads on.
Continue(p) ==
    /\ pc[p] = "resume"
    /\ LET fromResponse == messages # <<>> /\ IsAssistant(Last(messages))
           kinds == IF ~fromResponse THEN <<>>
                    ELSE IF steering # <<>> THEN Poll(steering) ELSE Poll(followUp)
           polled == IF fromResponse /\ steering # <<>> THEN <<>> ELSE Poll(steering)
           rejected == agent.phase # "idle" \/ messages = <<>> \/ (fromResponse /\ kinds = <<>>)
       IN IF rejected
          THEN /\ tries' = [tries EXCEPT !.rejected = TRUE]
               /\ Goto(p, "finally")
               /\ UNCHANGED <<transcript, agent, queues, recovered>>
          ELSE /\ StartRun(p, kinds, polled)
               /\ steering' = Polled(steering)
               /\ followUp' = IF fromResponse /\ steering = <<>> THEN Polled(followUp) ELSE followUp
    /\ local' = [local EXCEPT ![p] = NoLocal]
    /\ UNCHANGED <<pending, active, lastAssistant, retryAttempt, ctl, waiting, manual, nav, counts>>

\* The finally of _runAgentPrompt: deferred messages are flushed and the session is idle.
Finally(p) ==
    /\ pc[p] = "finally"
    /\ Push(PendingMessages)
    /\ pending' = [pending EXCEPT !.custom = 0, !.bash = 0]
    /\ active' = FALSE
    /\ local' = [local EXCEPT ![p] = NoLocal]
    /\ Goto(p, "settled")
    /\ UNCHANGED <<agent, queues, lastAssistant, retryAttempt, recovered, ctl, waiting, manual, nav,
                   counts, tries>>

\* After the agent_settled handlers: waiters go on unless a new run has begun.
ResolveIdleWaitIfIdle(p) ==
    /\ pc[p] = "settled"
    /\ Goto(p, "out")
    /\ IF active THEN UNCHANGED <<waiting, manual>>
       ELSE /\ waiting' = {}
            /\ manual' = IF manual.at = "idle" THEN [manual EXCEPT !.at = "ready"] ELSE manual
    /\ UNCHANGED <<transcript, agent, queues, pending, local, active, lastAssistant, retryAttempt,
                   recovered, ctl, nav, counts, tries>>
--------------------------------------------------------------------------------
(* Other calls of the host, of extensions and of listeners, at any time.         *)

\* steer(), followUp(), and custom messages sent while a run is active.
Queue ==
    /\ Input("queue")
    /\ \E kind \in IF active THEN {"user", "custom"} ELSE {"user"} :
        \/ steering' = Append(steering, kind) /\ UNCHANGED followUp
        \/ followUp' = Append(followUp, kind) /\ UNCHANGED steering
    /\ UNCHANGED <<transcript, agent, pending, calls, active, lastAssistant, retryAttempt, recovered,
                   ctl, waiting, manual, nav, tries>>

clearQueue ==
    /\ Input("clear") /\ hasQueuedMessages
    /\ steering' = <<>> /\ followUp' = <<>>
    /\ UNCHANGED <<transcript, agent, pending, calls, active, lastAssistant, retryAttempt, recovered,
                   ctl, waiting, manual, nav, tries>>

\* Mutant of sendCustomMessage: nothing is deferred.
AppendAtOnce ==
    /\ Input("custom")
    /\ Push(<<"custom">>)
    /\ UNCHANGED <<agent, queues, pending, calls, active, lastAssistant, retryAttempt, recovered, ctl,
                   waiting, manual, nav, tries>>

\* sendCustomMessage without a turn, and recordBashResult: deferred while a run is active.
sendCustomMessage ==
    /\ Input("custom")
    /\ \/ /\ pending' = [pending EXCEPT !.next = @ + 1]
          /\ UNCHANGED transcript
       \/ IF active
          THEN pending' = [pending EXCEPT !.custom = @ + 1] /\ UNCHANGED transcript
          ELSE Push(<<"custom">>) /\ UNCHANGED pending
    /\ UNCHANGED <<agent, queues, calls, active, lastAssistant, retryAttempt, recovered, ctl,
                   waiting, manual, nav, tries>>

recordBashResult ==
    /\ Input("bash")
    /\ IF active
       THEN pending' = [pending EXCEPT !.bash = @ + 1] /\ UNCHANGED transcript
       ELSE Push(<<"bash">>) /\ UNCHANGED pending
    /\ UNCHANGED <<agent, queues, calls, active, lastAssistant, retryAttempt, recovered, ctl,
                   waiting, manual, nav, tries>>

\* setSessionName and its like: an entry that is no message.
setSessionName ==
    /\ Input("meta")
    /\ branch' = Append(branch, Entry("meta"))
    /\ UNCHANGED <<messages, agent, queues, pending, calls, active, lastAssistant, retryAttempt,
                   recovered, ctl, waiting, manual, nav, tries>>

\* abort() cancels the backoff and the agent's run, then waits like waitForIdle().
AbortRun ==
    /\ ctl' = [ctl EXCEPT !.retry = IF @ = "live" THEN "aborted" ELSE @]
    /\ agent' = [agent EXCEPT !.aborting = agent.phase # "idle"]
    /\ tries' = IF ctl.retry = "live" THEN [tries EXCEPT !.retries = 0] ELSE tries

\* Mutant of WaitForIdle: it waits for the promise even when the session is idle.
WaitAlways(abort) ==
    /\ Input("abort") /\ "host" \notin waiting
    /\ IF abort THEN AbortRun ELSE UNCHANGED <<agent, ctl, tries>>
    /\ waiting' = waiting \cup {"host"}
    /\ UNCHANGED <<transcript, queues, pending, calls, active, lastAssistant, retryAttempt,
                   recovered, manual, nav>>

WaitForIdle(abort) ==
    /\ Input("abort") /\ "host" \notin waiting
    /\ IF abort THEN AbortRun ELSE UNCHANGED <<agent, ctl, tries>>
    /\ waiting' = IF active THEN waiting \cup {"host"} ELSE waiting
    /\ UNCHANGED <<transcript, queues, pending, calls, active, lastAssistant, retryAttempt,
                   recovered, manual, nav>>

abortCompaction ==
    /\ Input("abortCompaction") /\ "live" \in {ctl.auto, ctl.manual}
    /\ ctl' = [ctl EXCEPT !.auto = IF @ = "live" THEN "aborted" ELSE @,
                          !.manual = IF @ = "live" THEN "aborted" ELSE @]
    /\ UNCHANGED <<transcript, agent, queues, pending, calls, active, lastAssistant, retryAttempt,
                   recovered, waiting, manual, nav, tries>>

\* compact() aborts the run and waits until the session is idle.
Compact ==
    /\ Input("compact") /\ manual.at = "out" /\ Quiet
    /\ AbortRun
    /\ waiting' = IF active THEN waiting \cup {"compact"} ELSE waiting
    /\ manual' = [at |-> IF active THEN "idle" ELSE "ready", cut |-> 0]
    /\ UNCHANGED <<transcript, queues, pending, calls, active, lastAssistant, retryAttempt,
                   recovered, nav>>

ManualReady ==
    /\ manual.at = "ready"
    /\ manual' = [manual EXCEPT !.at = "auth"]
    /\ ctl' = [ctl EXCEPT !.manual = "live"]
    /\ UNCHANGED <<transcript, agent, queues, pending, calls, active, lastAssistant, retryAttempt,
                   recovered, waiting, nav, counts, tries>>

ManualOver == manual' = [at |-> "out", cut |-> 0] /\ ctl' = [ctl EXCEPT !.manual = "none"]

ManualAuth ==
    /\ manual.at = "auth"
    /\ \/ ManualOver
       \/ /\ \E cut \in prepareCompaction(branch) : manual' = [at |-> "summary", cut |-> cut]
          /\ UNCHANGED ctl
    /\ UNCHANGED <<transcript, agent, queues, pending, calls, active, lastAssistant, retryAttempt,
                   recovered, waiting, nav, counts, tries>>

ManualSummary ==
    /\ manual.at = "summary"
    /\ \/ ManualOver /\ UNCHANGED transcript
       \/ /\ ctl.manual # "aborted"
          /\ Publish(manual.cut)
          /\ manual' = [manual EXCEPT !.at = "event"]
          /\ UNCHANGED ctl
    /\ UNCHANGED <<agent, queues, pending, calls, active, lastAssistant, retryAttempt, recovered,
                   waiting, nav, counts, tries>>

ManualEvent ==
    /\ manual.at = "event"
    /\ ManualOver
    /\ UNCHANGED <<transcript, agent, queues, pending, calls, active, lastAssistant, retryAttempt,
                   recovered, waiting, nav, counts, tries>>

\* navigateTree() to an entry of the branch; a user or custom message goes back to the
\* editor, so the leaf becomes its parent.  Refused while a run is active.
NavigateTree ==
    /\ Input("navigate") /\ ~active /\ Quiet /\ manual.at = "out"
    /\ \E target \in 1..(Len(branch) - 1), summarize \in BOOLEAN :
        nav' = [to |-> IF KindAt(target) \in {"user", "custom"} THEN target - 1 ELSE target,
                summarize |-> summarize]
    /\ UNCHANGED <<transcript, agent, queues, pending, calls, active, lastAssistant, retryAttempt,
                   recovered, ctl, waiting, manual, tries>>

\* Cancelled, or the leaf moves, with a summary of what is left behind, and the
\* agent's messages are rebuilt.
Navigated ==
    /\ nav.to # None
    /\ \/ UNCHANGED transcript
       \/ /\ branch' = SubSeq(branch, 1, nav.to)
                        \o (IF nav.summarize THEN <<Entry("summary")>> ELSE <<>>)
          /\ messages' = buildSessionContext(branch')
    /\ nav' = [to |-> None, summarize |-> FALSE]
    /\ UNCHANGED <<agent, queues, pending, calls, active, lastAssistant, retryAttempt, recovered,
                   ctl, waiting, manual, counts, tries>>
--------------------------------------------------------------------------------
PromptStep(p) ==
    \/ Submit(p) \/ Authorize(p) \/ CompactAuth(p) \/ CompactSummary(p) \/ CompactEvent(p)
    \/ Build(p) \/ BeforeAgentStart(p) \/ Respond(p) \/ ToolResult(p) \/ EndTurn(p)
    \/ HandlePostAgentRun(p) \/ Backoff(p) \/ Continue(p) \/ Finally(p) \/ ResolveIdleWaitIfIdle(p)

ManualStep == ManualReady \/ ManualAuth \/ ManualSummary \/ ManualEvent

HostCall ==
    \/ Queue \/ clearQueue \/ sendCustomMessage \/ recordBashResult \/ setSessionName
    \/ WaitForIdle(TRUE) \/ WaitForIdle(FALSE) \/ abortCompaction \/ Compact \/ NavigateTree

Next ==
    \/ \E p \in Prompts : Prompt(p) \/ TriggerTurn(p) \/ PromptStep(p)
    \/ ManualStep \/ Navigated \/ HostCall

Spec == Init /\ [][Next]_vars
--------------------------------------------------------------------------------
PromptPhases == {"out", "input", "auth", "compactAuth", "compactSummary", "compactEvent", "build",
                 "before", "run", "post", "backoff", "resume", "finally", "settled"}

\* Every message of the agent is an entry of the branch; a run holds the agent and
\* the session only while its prompt() is in the part that may; waiters wait for one.
SessionTyped ==
    /\ \A i \in DOMAIN branch : KindAt(i) \in Kinds /\ branch[i].kept \in 0..(i - 1)
    /\ ToSet(messages) \subseteq DOMAIN branch
    /\ \A p \in Prompts : pc[p] \in PromptPhases
    /\ agent.phase # "idle" => pc[agent.run] = "run" /\ active
    /\ (ctl.retry # "none") = (\E p \in Prompts : pc[p] = "backoff")
    /\ retryAttempt \in 0..MaxRetries

\* i stands before j in the context of a branch: the latest compaction comes first.
Precedes(b, i, j) == j # LatestCompaction(b) /\ (i = LatestCompaction(b) \/ i < j)

\* The agent's messages are the context of the session's branch, in its order, with
\* nothing missing but responses of a kind that is retried or recovered from: they stay
\* out when the turn is tried again, and when that attempt is aborted.  So a session that
\* is reopened shows the provider what this one does, and such responses besides.
StateMatchesSession ==
    /\ ToSet(messages) \subseteq ContextEntries(branch)
    /\ \A i, j \in DOMAIN messages : i < j => Precedes(branch, messages[i], messages[j])
    /\ \A i \in ContextEntries(branch) \ ToSet(messages) : KindAt(i) \in Failed

\* No message of an extension or of a shell command stands between a tool call and
\* its result, neither in the agent's messages nor in the session's context, and no
\* compaction keeps a result without its call.
Adjacent(seq) ==
    \A i \in DOMAIN seq : KindAt(seq[i]) = "result" => i > 1 /\ KindAt(seq[i - 1]) \in Calling

ToolResultsAdjacent ==
    LET context == buildSessionContext(branch)
    IN Adjacent(messages) /\ Adjacent(context)

\* Between two delivered messages, good responses or aborted retries there is one
\* compaction that tries to recover a turn, and a turn is retried at most MaxRetries
\* times before and after it (a truncated tool call that was answered begins a new one).
AttemptsAreBounded == tries.recoveries <= 1 /\ tries.retries <= 2 * MaxRetries

\* The session never asks the agent to continue from a state agent.continue() rejects.
ContinueAccepted == ~tries.rejected

\* Whoever waits until the session is idle is woken: a run is active or about to
\* resolve the promise they wait for.
WaitersAreWoken ==
    /\ waiting # {} => active \/ \E p \in Prompts : pc[p] = "settled"
    /\ manual.at = "idle" => "compact" \in waiting
================================================================================
