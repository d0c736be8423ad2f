------------------------------ MODULE AgentLoop ------------------------------
(***************************************************************************)
(* The Agent class (packages/agent/src/agent.ts) driving the agent loop    *)
(* (packages/agent/src/agent-loop.ts): one run at a time takes the         *)
(* transcript, asks the provider for an assistant message, executes its    *)
(* tool calls and repeats, while the user steers, queues follow-ups,       *)
(* aborts, and while tools run concurrently and listeners may throw.       *)
(*                                                                         *)
(* JavaScript runs to the next await.  One action is the code between two  *)
(* awaits; an emitted event is reduced into the agent state synchronously, *)
(* so the reduction and the purely local code that follows the listeners   *)
(* are one action, and code that reads state another actor writes (the     *)
(* abort signal, the queues) is an action of its own.                      *)
(***************************************************************************)
EXTENDS Naturals, Sequences, FiniteSets

CONSTANTS
    MaxMessages,  \* bound on the user messages that are ever submitted
    MaxRuns,      \* bound on the runs that are ever started
    MaxBatches,   \* bound on the assistant messages that carry tool calls
    MaxCalls,     \* bound on the tool calls of one assistant message
    ToolModes,    \* the tool execution modes a batch may get
    QueueModes,   \* the modes a queue may be in when it is drained
    Faults        \* what may throw: "listener" and "provider"

ASSUME BoundsAssumption ==
    /\ MaxMessages \in Nat /\ MaxRuns \in Nat
    /\ MaxBatches \in Nat /\ MaxCalls \in Nat
ASSUME ModesAssumption ==
    /\ ToolModes \subseteq {"parallel", "sequential"}
    /\ QueueModes \subseteq {"all", "one-at-a-time"}
    /\ Faults \subseteq {"listener", "provider"}

VARIABLES
    \* The Agent object: MutableAgentState, the queues and the active run.
    activeRun, aborted, messages, steeringQueue, followUpQueue,
    pendingToolCalls, streamingMessage, errorMessage,
    \* The suspended runLoop: where it waits and its local variables.
    pc, prompts, pendingMessages, context, skipInitialSteeringPoll,
    hasMoreToolCalls, addedPartial, message,
    \* The tool batch of the current turn, and every tool call's progress.
    batch, mode, idx, res, tool, terminating,
    \* Bookkeeping: counters, the transcript length the run started from,
    \* whether the run has emitted agent_end, and the messages that a clear,
    \* a reset or a failed run dropped.
    run, submitted, base, ended, discarded

queueVars    == <<steeringQueue, followUpQueue>>
statusVars   == <<activeRun, aborted, errorMessage>>
stateVars    == <<statusVars, messages, pendingToolCalls, streamingMessage>>
flagVars     == <<skipInitialSteeringPoll, hasMoreToolCalls, addedPartial>>
localVars    == <<prompts, pendingMessages, context, flagVars, message>>
loopVars     == <<pc, localVars>>
positionVars == <<batch, mode, idx, res>>
toolVars     == <<positionVars, tool, terminating>>
counterVars  == <<run, submitted, base>>
ghostVars    == <<counterVars, ended, discarded>>
vars == <<queueVars, stateVars, loopVars, toolVars, ghostVars>>

-----------------------------------------------------------------------------
(* Messages.  A user message has its own id and how it was submitted; an   *)
(* assistant message its stop reason, the number of its tool calls and, if *)
(* it has any, its batch number as id; a tool result names batch and call. *)

Roles == {"user", "assistant", "toolResult"}
Tags  == {"prompt", "steer", "followUp", "partial", "ok", "length", "error",
          "aborted", "result"}
Message == [role : Roles, id : Nat, tag : Tags, calls : Nat]

UserMessage(n, via) == [role |-> "user", id |-> n, tag |-> via, calls |-> 0]
AssistantMessage(b, stop, k) ==
    [role |-> "assistant", id |-> b, tag |-> stop, calls |-> k]
createToolResultMessage(b, i) ==
    [role |-> "toolResult", id |-> b, tag |-> "result", calls |-> i]

CallId == (1..MaxBatches) \X (1..MaxCalls)
\* Mutant: the call index is off by one.
CallOffByOne(i) == <<batch, i + 1>>

Call(i) == <<batch, i>>

(* The life of one tool call: not started, prepared but not launched,      *)
(* running, running although an update listener threw, finalized with its  *)
(* tool_execution_end still to be emitted, done, or its promise rejected.  *)
ToolStatus == {"none", "prepared", "running", "updateFailed", "executed",
               "done", "rejected"}

PC == {"idle", "agentStart", "firstTurnStart", "promptStart", "promptEnd",
       "initialPoll", "turnStart", "injectStart", "injectEnd", "request",
       "stream", "assistantStart", "assistantEnd", "toolStart", "prepare",
       "toolEnd", "batchCheck", "awaitTools", "resultStart", "resultEnd",
       "sequentialCheck", "batchDone", "turnEnd", "nextTurn", "steeringPoll",
       "followUpPoll", "errorTurnEnd", "agentEnd", "failure", "failureEnd",
       "failureTurnEnd", "failureAgentEnd", "finish"}

Init ==
    /\ activeRun = FALSE /\ aborted = FALSE
    /\ messages = <<>> /\ steeringQueue = <<>> /\ followUpQueue = <<>>
    /\ pendingToolCalls = {} /\ streamingMessage = FALSE /\ errorMessage = FALSE
    /\ pc = "idle" /\ prompts = <<>> /\ pendingMessages = <<>> /\ context = <<>>
    /\ skipInitialSteeringPoll = FALSE /\ hasMoreToolCalls = FALSE
    /\ addedPartial = FALSE /\ message = AssistantMessage(0, "ok", 0)
    /\ batch = 0 /\ mode = "parallel" /\ idx = 0 /\ res = 0
    /\ tool = [c \in CallId |-> "none"] /\ terminating = {}
    /\ run = 0 /\ submitted = 0 /\ base = 0 /\ ended = FALSE /\ discarded = {}

-----------------------------------------------------------------------------
(* PendingMessageQueue.drain, as the drained messages and the rest.  The   *)
(* mode setters may be called at any time, so a drain meets either mode.   *)

Drained(q, m) == IF m = "all" \/ q = <<>> THEN q ELSE <<Head(q)>>
\* Mutant: one-at-a-time does not take the drained message off the queue.
RemainingKept(q, m) == IF m = "all" THEN <<>> ELSE q

\* Mutant: one-at-a-time empties the queue like "all".
RemainingEmptied(q, m) == <<>>

Remaining(q, m) == IF m = "all" \/ q = <<>> THEN <<>> ELSE Tail(q)

(* Agent.steer, Agent.followUp, the clear methods and Agent.abort may be   *)
(* called at any time, from listeners and tools too.                       *)

steer ==
    /\ submitted < MaxMessages
    /\ submitted' = submitted + 1
    /\ steeringQueue' = Append(steeringQueue, UserMessage(submitted + 1, "steer"))
    /\ UNCHANGED <<followUpQueue, stateVars, loopVars, toolVars, run, base,
                   ended, discarded>>

followUp ==
    /\ submitted < MaxMessages
    /\ submitted' = submitted + 1
    /\ followUpQueue' = Append(followUpQueue, UserMessage(submitted + 1, "followUp"))
    /\ UNCHANGED <<steeringQueue, stateVars, loopVars, toolVars, run, base,
                   ended, discarded>>

Ids(s) == {s[i].id : i \in {j \in DOMAIN s : s[j].role = "user"}}

clearSteeringQueue ==
    /\ steeringQueue # <<>>
    /\ steeringQueue' = <<>>
    /\ discarded' = discarded \cup Ids(steeringQueue)
    /\ UNCHANGED <<followUpQueue, stateVars, loopVars, toolVars,
                   counterVars, ended>>

clearFollowUpQueue ==
    /\ followUpQueue # <<>>
    /\ followUpQueue' = <<>>
    /\ discarded' = discarded \cup Ids(followUpQueue)
    /\ UNCHANGED <<steeringQueue, stateVars, loopVars, toolVars,
                   counterVars, ended>>

abort ==
    /\ activeRun /\ ~aborted
    /\ aborted' = TRUE
    /\ UNCHANGED <<queueVars, activeRun, messages, pendingToolCalls,
                   streamingMessage, errorMessage, loopVars, toolVars,
                   ghostVars>>

reset ==
    /\ ~activeRun
    /\ messages' = <<>> /\ streamingMessage' = FALSE
    /\ pendingToolCalls' = {} /\ errorMessage' = FALSE
    /\ steeringQueue' = <<>> /\ followUpQueue' = <<>>
    /\ discarded' = 1..submitted
    /\ UNCHANGED <<activeRun, aborted, loopVars, toolVars, counterVars, ended>>

-----------------------------------------------------------------------------
(* runWithLifecycle up to the first await of runAgentLoop[Continue]: the   *)
(* context snapshot is copied and the prompts are appended to the copy.    *)

runWithLifecycle(newPrompts, skip) ==
    /\ run < MaxRuns
    /\ run' = run + 1
    /\ activeRun' = TRUE /\ aborted' = FALSE
    /\ streamingMessage' = FALSE /\ errorMessage' = FALSE
    /\ prompts' = newPrompts
    /\ context' = messages \o newPrompts
    /\ skipInitialSteeringPoll' = skip
    /\ base' = Len(messages) /\ ended' = FALSE
    /\ pc' = "agentStart"
    /\ UNCHANGED <<messages, pendingToolCalls, pendingMessages,
                   hasMoreToolCalls, addedPartial, message, toolVars,
                   discarded>>

prompt ==
    /\ ~activeRun
    /\ submitted < MaxMessages
    /\ submitted' = submitted + 1
    /\ runWithLifecycle(<<UserMessage(submitted + 1, "prompt")>>, FALSE)
    /\ UNCHANGED queueVars

(* Agent.continue: after an assistant message only queued messages can go  *)
(* on, steering first; otherwise the transcript is continued as it is.     *)
LastIsAssistant == messages # <<>> /\ messages[Len(messages)].role = "assistant"

continueSteering ==
    /\ ~activeRun /\ LastIsAssistant /\ steeringQueue # <<>>
    /\ \E m \in QueueModes :
          /\ runWithLifecycle(Drained(steeringQueue, m), TRUE)
          /\ steeringQueue' = Remaining(steeringQueue, m)
    /\ UNCHANGED <<followUpQueue, submitted>>

continueFollowUp ==
    /\ ~activeRun /\ LastIsAssistant /\ steeringQueue = <<>> /\ followUpQueue # <<>>
    /\ \E m \in QueueModes :
          /\ runWithLifecycle(Drained(followUpQueue, m), FALSE)
          /\ followUpQueue' = Remaining(followUpQueue, m)
    /\ UNCHANGED <<steeringQueue, submitted>>

runContinuation ==
    /\ ~activeRun /\ messages # <<>> /\ ~LastIsAssistant
    /\ runWithLifecycle(<<>>, FALSE)
    /\ UNCHANGED <<queueVars, submitted>>

-----------------------------------------------------------------------------
(* processEvents awaits the listeners of an event: the loop goes on at     *)
(* next, or a listener throws and the run fails.  Each emit action also    *)
(* makes the event's change to the agent state.                            *)

Emit(next) ==
    pc' \in {next} \cup (IF "listener" \in Faults THEN {"failure"} ELSE {})

(* Where the loop goes once the pending messages are known.                *)
InjectOrRequest(pending) == IF pending # <<>> THEN "injectStart" ELSE "request"

EmitAgentStart ==
    /\ pc = "agentStart" /\ Emit("firstTurnStart")
    /\ UNCHANGED <<queueVars, stateVars, localVars, toolVars, ghostVars>>

EmitFirstTurnStart ==
    /\ pc = "firstTurnStart"
    /\ Emit(IF prompts # <<>> THEN "promptStart" ELSE "initialPoll")
    /\ UNCHANGED <<queueVars, stateVars, localVars, toolVars, ghostVars>>

(* message_start shows the message as streaming; message_end appends it.   *)
EmitMessageStart(here, next) ==
    /\ pc = here /\ Emit(next)
    /\ streamingMessage' = TRUE
    /\ UNCHANGED <<queueVars, statusVars, messages, pendingToolCalls,
                   localVars, toolVars, ghostVars>>

MessageEnd(m) ==
    /\ streamingMessage' = FALSE
    /\ messages' = Append(messages, m)
    /\ UNCHANGED <<statusVars, pendingToolCalls>>

EmitPromptStart == EmitMessageStart("promptStart", "promptEnd")

EmitPromptEnd ==
    /\ pc = "promptEnd"
    /\ MessageEnd(Head(prompts))
    /\ prompts' = Tail(prompts)
    /\ Emit(IF Len(prompts) > 1 THEN "promptStart" ELSE "initialPoll")
    /\ UNCHANGED <<queueVars, pendingMessages, context, flagVars, message,
                   toolVars, ghostVars>>

(* The first poll of the steering queue; continueSteering skips it.        *)
InitialSteeringPoll ==
    /\ pc = "initialPoll"
    /\ \E m \in QueueModes :
          /\ pendingMessages' = IF skipInitialSteeringPoll THEN <<>>
                                ELSE Drained(steeringQueue, m)
          /\ steeringQueue' = IF skipInitialSteeringPoll THEN steeringQueue
                              ELSE Remaining(steeringQueue, m)
    /\ skipInitialSteeringPoll' = FALSE
    /\ pc' = InjectOrRequest(pendingMessages')
    /\ UNCHANGED <<followUpQueue, stateVars, prompts, context,
                   hasMoreToolCalls, addedPartial, message, toolVars,
                   ghostVars>>

EmitTurnStart ==
    /\ pc = "turnStart" /\ Emit(InjectOrRequest(pendingMessages))
    /\ UNCHANGED <<queueVars, stateVars, localVars, toolVars, ghostVars>>

EmitInjectStart == EmitMessageStart("injectStart", "injectEnd")

EmitInjectEnd ==
    /\ pc = "injectEnd"
    /\ MessageEnd(Head(pendingMessages))
    /\ context' = Append(context, Head(pendingMessages))
    /\ pendingMessages' = Tail(pendingMessages)
    /\ Emit(InjectOrRequest(Tail(pendingMessages)))
    /\ UNCHANGED <<queueVars, prompts, flagVars, message, toolVars, ghostVars>>

-----------------------------------------------------------------------------
(* streamAssistantResponse: the request, the provider's events, and the    *)
(* final message, which replaces the partial one in the context.           *)

ProviderThrows ==
    /\ pc \in {"request", "stream"} /\ "provider" \in Faults
    /\ pc' = "failure"
    /\ UNCHANGED <<queueVars, stateVars, localVars, toolVars, ghostVars>>

Request ==
    /\ pc = "request"
    /\ pc' = "stream" /\ addedPartial' = FALSE
    /\ UNCHANGED <<queueVars, stateVars, prompts, pendingMessages, context,
                   skipInitialSteeringPoll, hasMoreToolCalls, message,
                   toolVars, ghostVars>>

EmitStreamStart ==
    /\ pc = "stream" /\ ~addedPartial
    /\ context' = Append(context, AssistantMessage(0, "partial", 0))
    /\ addedPartial' = TRUE /\ streamingMessage' = TRUE
    /\ Emit("stream")
    /\ UNCHANGED <<queueVars, statusVars, messages, pendingToolCalls,
                   prompts, pendingMessages, skipInitialSteeringPoll,
                   hasMoreToolCalls, message, toolVars, ghostVars>>

EmitStreamUpdate ==
    /\ pc = "stream" /\ addedPartial
    /\ streamingMessage' = TRUE
    /\ Emit("stream")
    /\ UNCHANGED <<queueVars, statusVars, messages, pendingToolCalls,
                   localVars, toolVars, ghostVars>>

(* The provider answers with k tool calls; it may report "aborted" only    *)
(* once the signal is, and may also finish normally in spite of it.        *)
StreamFinish ==
    /\ pc = "stream"
    /\ \E stop \in {"ok", "length", "error"} \cup (IF aborted THEN {"aborted"} ELSE {}),
          k \in IF batch < MaxBatches THEN 0..MaxCalls ELSE {0} :
          /\ batch' = IF k > 0 THEN batch + 1 ELSE batch
          /\ message' = AssistantMessage(IF k > 0 THEN batch + 1 ELSE 0, stop, k)
    /\ context' = IF addedPartial THEN [context EXCEPT ![Len(context)] = message']
                  ELSE Append(context, message')
    /\ pc' = IF addedPartial THEN "assistantEnd" ELSE "assistantStart"
    /\ UNCHANGED <<queueVars, stateVars, prompts, pendingMessages, flagVars,
                   mode, idx, res, tool, terminating, ghostVars>>

EmitAssistantStart == EmitMessageStart("assistantStart", "assistantEnd")

(* runLoop after the response: an error or abort ends the run; a message   *)
(* cut off by the token limit gets its tool calls failed, not executed.    *)

\* Mutant: only an abort ends the run early.
AfterResponseIgnoresError(m) ==
    IF m.tag = "aborted" THEN "errorTurnEnd"
    ELSE IF m.calls > 0 THEN "toolStart" ELSE "turnEnd"

AfterResponse(m) ==
    IF m.tag \in {"error", "aborted"} THEN "errorTurnEnd"
    ELSE IF m.calls > 0 THEN "toolStart" ELSE "turnEnd"

\* Mutant: a length stop is executed like any other.
BatchModesIgnoreLength(m) == ToolModes

BatchModes(m) == IF m.tag = "length" THEN {"truncated"} ELSE ToolModes

EmitAssistantEnd ==
    /\ pc = "assistantEnd"
    /\ MessageEnd(message)
    /\ hasMoreToolCalls' = FALSE
    /\ mode' \in BatchModes(message)
    /\ idx' = 1 /\ res' = 1
    /\ Emit(AfterResponse(message))
    /\ UNCHANGED <<queueVars, prompts, pendingMessages, context,
                   skipInitialSteeringPoll, addedPartial, message, batch,
                   tool, terminating, ghostVars>>

-----------------------------------------------------------------------------
(* The tool batch.  idx is the call the loop is at, res the next result    *)
(* message to emit: with sequential and truncated batches both advance     *)
(* together, with a parallel batch the results follow when all are done.   *)

\* Mutant: the loop over the calls stops one early.
LeavesLoopEarly == aborted \/ idx + 1 >= message.calls

LeavesLoop == aborted \/ idx >= message.calls

PendingAfterEnd(c) == pendingToolCalls \ {c}

EmitToolStart ==
    /\ pc = "toolStart"
    /\ pendingToolCalls' = pendingToolCalls \cup {Call(idx)}
    /\ Emit(IF mode = "truncated" THEN "toolEnd" ELSE "prepare")
    /\ UNCHANGED <<queueVars, statusVars, messages, streamingMessage,
                   localVars, toolVars, ghostVars>>

(* prepareToolCall fails at once for an unknown tool, invalid arguments, a *)
(* throwing or blocking hook (which may ask to terminate) or an abort.     *)
PrepareImmediate ==
    /\ pc = "prepare"
    /\ \/ terminating' = terminating
       \/ ~aborted /\ terminating' = terminating \cup {Call(idx)}
    /\ pc' = "toolEnd"
    /\ UNCHANGED <<queueVars, stateVars, localVars, positionVars, tool,
                   ghostVars>>

PreparePrepared ==
    /\ pc = "prepare" /\ ~aborted
    /\ tool' = [tool EXCEPT ![Call(idx)] =
                    IF mode = "parallel" THEN "prepared" ELSE "running"]
    /\ pc' = IF mode = "parallel" THEN "batchCheck" ELSE "awaitTools"
    /\ UNCHANGED <<queueVars, stateVars, localVars, positionVars,
                   terminating, ghostVars>>

EmitImmediateToolEnd ==
    /\ pc = "toolEnd"
    /\ pendingToolCalls' = PendingAfterEnd(Call(idx))
    /\ tool' = [tool EXCEPT ![Call(idx)] = "done"]
    /\ Emit(IF mode = "parallel" THEN "batchCheck" ELSE "resultStart")
    /\ UNCHANGED <<queueVars, statusVars, messages, streamingMessage,
                   localVars, positionVars, terminating, ghostVars>>

(* The parallel batch prepares the next call, or, at the last one or after *)
(* an abort, launches every prepared call.                                 *)
ParallelNextCall ==
    /\ pc = "batchCheck" /\ ~LeavesLoop
    /\ idx' = idx + 1 /\ pc' = "toolStart"
    /\ UNCHANGED <<queueVars, stateVars, localVars, batch, mode, res, tool,
                   terminating, ghostVars>>

\* Mutant: an abort breaks out of the batch and leaves its calls prepared.
LaunchedUnlessAborted ==
    [c \in CallId |-> IF c[1] = batch /\ tool[c] = "prepared" /\ ~aborted
                      THEN "running" ELSE tool[c]]

Launched ==
    [c \in CallId |-> IF c[1] = batch /\ tool[c] = "prepared"
                      THEN "running" ELSE tool[c]]

LaunchTools ==
    /\ pc = "batchCheck" /\ LeavesLoop
    /\ tool' = Launched
    /\ pc' = "awaitTools"
    /\ UNCHANGED <<queueVars, stateVars, localVars, positionVars,
                   terminating, ghostVars>>

(* Promise.all over the entries: all of them, or the first rejection.      *)
Entries == {Call(i) : i \in 1..idx}

\* Mutant: the batch goes on with its first finished call.
AllSettledRace == \E c \in Entries : tool[c] = "done"

AllSettled == \A c \in Entries : tool[c] = "done"

ToolsDone ==
    /\ pc = "awaitTools"
    /\ AllSettled
    /\ pc' = "resultStart"
    /\ UNCHANGED <<queueVars, stateVars, localVars, toolVars, ghostVars>>

ToolsRejected ==
    /\ pc = "awaitTools"
    /\ \E c \in Entries : tool[c] = "rejected"
    /\ pc' = "failure"
    /\ UNCHANGED <<queueVars, stateVars, localVars, toolVars, ghostVars>>

EmitResultStart == EmitMessageStart("resultStart", "resultEnd")

EmitResultEnd ==
    /\ pc = "resultEnd"
    /\ MessageEnd(createToolResultMessage(batch, res))
    /\ res' = res + 1
    /\ idx' = IF mode = "truncated" /\ idx < message.calls THEN idx + 1 ELSE idx
    /\ Emit(CASE mode = "parallel"   -> IF res < idx THEN "resultStart" ELSE "batchDone"
              [] mode = "sequential" -> "sequentialCheck"
              [] mode = "truncated"  -> IF idx < message.calls THEN "toolStart" ELSE "batchDone")
    /\ UNCHANGED <<queueVars, localVars, batch, mode, tool, terminating,
                   ghostVars>>

SequentialCheck ==
    /\ pc = "sequentialCheck"
    /\ IF LeavesLoop
       THEN pc' = "batchDone" /\ idx' = idx
       ELSE pc' = "toolStart" /\ idx' = idx + 1
    /\ UNCHANGED <<queueVars, stateVars, localVars, batch, mode, res, tool,
                   terminating, ghostVars>>

(* The results of the batch enter the loop's context together, and the     *)
(* batch ends the automatic turns if every result asks to terminate.       *)
\* Mutant: the last result does not reach the context.
ResultsButLast(b, n) == [i \in 1..(n - 1) |-> createToolResultMessage(b, i)]

Results(b, n) == [i \in 1..n |-> createToolResultMessage(b, i)]

shouldTerminateToolBatch == mode # "truncated" /\ Entries \subseteq terminating

BatchDone ==
    /\ pc = "batchDone"
    /\ context' = context \o Results(batch, res - 1)
    /\ hasMoreToolCalls' = ~shouldTerminateToolBatch
    /\ pc' = "turnEnd"
    /\ UNCHANGED <<queueVars, stateVars, prompts, pendingMessages,
                   skipInitialSteeringPoll, addedPartial, message, toolVars,
                   ghostVars>>

-----------------------------------------------------------------------------
(* A tool call's own promise, which outlives a run that failed: then its   *)
(* events reach processEvents with no active run, or with the next one.    *)

EmitThrows == ~activeRun \/ "listener" \in Faults

EmitToolUpdate(c) ==
    /\ tool[c] = "running"
    /\ EmitThrows
    /\ tool' = [tool EXCEPT ![c] = "updateFailed"]
    /\ UNCHANGED <<queueVars, stateVars, loopVars, positionVars,
                   terminating, ghostVars>>

ExecutedTool(c) ==
    /\ tool[c] \in {"running", "updateFailed"}
    /\ \/ /\ tool[c] = "running"
          /\ tool' = [tool EXCEPT ![c] = "executed"]
          /\ terminating' \in {terminating, terminating \cup {c}}
       \/ /\ tool[c] = "updateFailed"
          /\ tool' = [tool EXCEPT ![c] = "rejected"]
          /\ terminating' = terminating
    /\ UNCHANGED <<queueVars, stateVars, loopVars, positionVars, ghostVars>>

EmitToolEnd(c) ==
    /\ tool[c] = "executed"
    /\ pendingToolCalls' = PendingAfterEnd(c)
    /\ \/ activeRun /\ tool' = [tool EXCEPT ![c] = "done"]
       \/ EmitThrows /\ tool' = [tool EXCEPT ![c] = "rejected"]
    /\ UNCHANGED <<queueVars, statusVars, messages, streamingMessage,
                   loopVars, positionVars, terminating, ghostVars>>

-----------------------------------------------------------------------------
(* The end of a turn and of a run.                                         *)

EmitTurnEnd ==
    /\ pc = "turnEnd" /\ Emit("nextTurn")
    /\ UNCHANGED <<queueVars, stateVars, localVars, toolVars, ghostVars>>

(* prepareNextTurn (which keeps the messages) and shouldStopAfterTurn,     *)
(* which ends the run before the queues are polled.                        *)
ShouldStopAfterTurn ==
    /\ pc = "nextTurn"
    /\ pc' \in {"agentEnd", "steeringPoll"}
    /\ UNCHANGED <<queueVars, stateVars, localVars, toolVars, ghostVars>>

SteeringPoll ==
    /\ pc = "steeringPoll"
    /\ \E m \in QueueModes :
          /\ pendingMessages' = Drained(steeringQueue, m)
          /\ steeringQueue' = Remaining(steeringQueue, m)
    /\ pc' = IF hasMoreToolCalls \/ pendingMessages' # <<>> THEN "turnStart"
             ELSE "followUpPoll"
    /\ UNCHANGED <<followUpQueue, stateVars, prompts, context, flagVars,
                   message, toolVars, ghostVars>>

FollowUpPoll ==
    /\ pc = "followUpPoll"
    /\ \E m \in QueueModes :
          /\ pendingMessages' = Drained(followUpQueue, m)
          /\ followUpQueue' = Remaining(followUpQueue, m)
    /\ pc' = IF pendingMessages' # <<>> THEN "turnStart" ELSE "agentEnd"
    /\ UNCHANGED <<steeringQueue, stateVars, prompts, context, flagVars,
                   message, toolVars, ghostVars>>

ErrorAfterTurnEnd(m) == m.tag \in {"error", "aborted"} \/ errorMessage

EmitErrorTurnEnd ==
    /\ pc = "errorTurnEnd" /\ Emit("agentEnd")
    /\ errorMessage' = ErrorAfterTurnEnd(message)
    /\ UNCHANGED <<queueVars, activeRun, aborted, messages,
                   pendingToolCalls, streamingMessage, localVars, toolVars,
                   ghostVars>>

EmitAgentEnd ==
    /\ pc = "agentEnd" /\ Emit("finish")
    /\ streamingMessage' = FALSE
    /\ ended' = TRUE
    /\ UNCHANGED <<queueVars, statusVars, messages, pendingToolCalls,
                   localVars, toolVars, counterVars, discarded>>

(* handleRunFailure: the failure message goes through the same events; a   *)
(* listener that throws again skips the rest.  What the failed run had     *)
(* taken from the queues and not delivered is gone with its locals.        *)
EmitFailure(next) ==
    pc' \in {next} \cup (IF "listener" \in Faults THEN {"finish"} ELSE {})

EmitFailureStart ==
    /\ pc = "failure" /\ EmitFailure("failureEnd")
    /\ message' = AssistantMessage(0, IF aborted THEN "aborted" ELSE "error", 0)
    /\ streamingMessage' = TRUE
    /\ discarded' = discarded \cup Ids(prompts) \cup Ids(pendingMessages)
    /\ prompts' = <<>> /\ pendingMessages' = <<>>
    /\ UNCHANGED <<queueVars, statusVars, messages, pendingToolCalls,
                   context, flagVars, toolVars, counterVars, ended>>

EmitFailureEnd ==
    /\ pc = "failureEnd" /\ EmitFailure("failureTurnEnd")
    /\ MessageEnd(message)
    /\ UNCHANGED <<queueVars, localVars, toolVars, ghostVars>>

EmitFailureTurnEnd ==
    /\ pc = "failureTurnEnd" /\ EmitFailure("failureAgentEnd")
    /\ errorMessage' = ErrorAfterTurnEnd(message)
    /\ UNCHANGED <<queueVars, activeRun, aborted, messages,
                   pendingToolCalls, streamingMessage, localVars, toolVars,
                   ghostVars>>

EmitFailureAgentEnd ==
    /\ pc = "failureAgentEnd" /\ EmitFailure("finish")
    /\ streamingMessage' = FALSE
    /\ ended' = TRUE
    /\ UNCHANGED <<queueVars, statusVars, messages, pendingToolCalls,
                   localVars, toolVars, counterVars, discarded>>

(* finishRun; the locals of the run go out of scope.                       *)
FinishRun ==
    /\ pc = "finish"
    /\ activeRun' = FALSE /\ aborted' = FALSE
    /\ streamingMessage' = FALSE /\ pendingToolCalls' = {}
    /\ prompts' = <<>> /\ pendingMessages' = <<>> /\ context' = <<>>
    /\ skipInitialSteeringPoll' = FALSE /\ hasMoreToolCalls' = FALSE
    /\ addedPartial' = FALSE /\ message' = AssistantMessage(0, "ok", 0)
    /\ mode' = "parallel" /\ idx' = 0 /\ res' = 0 /\ base' = 0
    /\ pc' = "idle"
    /\ UNCHANGED <<queueVars, messages, errorMessage, batch, tool,
                   terminating, run, submitted, ended, discarded>>

-----------------------------------------------------------------------------
UserStep == steer \/ followUp \/ clearSteeringQueue \/ clearFollowUpQueue \/ abort

StartStep == prompt \/ continueSteering \/ continueFollowUp \/ runContinuation

TurnStep ==
    \/ EmitAgentStart \/ EmitFirstTurnStart \/ EmitPromptStart \/ EmitPromptEnd
    \/ InitialSteeringPoll \/ EmitTurnStart \/ EmitInjectStart \/ EmitInjectEnd
    \/ ProviderThrows \/ Request \/ EmitStreamStart \/ EmitStreamUpdate
    \/ StreamFinish \/ EmitAssistantStart \/ EmitAssistantEnd

BatchStep ==
    \/ EmitToolStart \/ PrepareImmediate \/ PreparePrepared \/ EmitImmediateToolEnd
    \/ ParallelNextCall \/ LaunchTools \/ ToolsDone \/ ToolsRejected
    \/ EmitResultStart \/ EmitResultEnd \/ SequentialCheck \/ BatchDone

EndStep ==
    \/ EmitTurnEnd \/ ShouldStopAfterTurn \/ SteeringPoll \/ FollowUpPoll
    \/ EmitErrorTurnEnd \/ EmitAgentEnd \/ EmitFailureStart \/ EmitFailureEnd
    \/ EmitFailureTurnEnd \/ EmitFailureAgentEnd \/ FinishRun

LoopStep == TurnStep \/ BatchStep \/ EndStep

ToolStep(c) == ExecutedTool(c) \/ EmitToolEnd(c)

Next == UserStep \/ reset \/ StartStep \/ LoopStep
            \/ \E c \in CallId : ToolStep(c) \/ EmitToolUpdate(c)

Spec == Init /\ [][Next]_vars

(* The event loop resumes every continuation, and the provider and the     *)
(* tools eventually answer: nothing else is assumed.                       *)
Fairness ==
    /\ WF_vars(LoopStep)
    /\ \A c \in CallId : WF_vars(ToolStep(c))

FairSpec == Spec /\ Fairness

-----------------------------------------------------------------------------
(* Properties.                                                             *)

StateType ==
    /\ activeRun \in BOOLEAN /\ aborted \in BOOLEAN
    /\ errorMessage \in BOOLEAN /\ streamingMessage \in BOOLEAN
    /\ messages \in Seq(Message)
    /\ steeringQueue \in Seq(Message) /\ followUpQueue \in Seq(Message)
    /\ pendingToolCalls \subseteq CallId

LoopType ==
    /\ pc \in PC /\ message \in Message /\ context \in Seq(Message)
    /\ prompts \in Seq(Message) /\ pendingMessages \in Seq(Message)
    /\ skipInitialSteeringPoll \in BOOLEAN /\ hasMoreToolCalls \in BOOLEAN
    /\ addedPartial \in BOOLEAN

BatchType ==
    /\ batch \in 0..MaxBatches /\ mode \in {"parallel", "sequential", "truncated"}
    /\ idx \in Nat /\ res \in Nat
    /\ tool \in [CallId -> ToolStatus] /\ terminating \subseteq CallId

GhostType ==
    /\ run \in 0..MaxRuns /\ submitted \in 0..MaxMessages
    /\ base \in Nat /\ ended \in BOOLEAN /\ discarded \subseteq Nat

TypeInvariant == StateType /\ LoopType /\ BatchType /\ GhostType

(* The provider is asked with exactly the transcript the agent shows: the  *)
(* loop's own copy of the context and state.messages, which are filled at  *)
(* different times and in a different order, agree at every request.       *)
RequestSeesTranscript == pc = "request" => context = messages

(* Every steering, follow-up and prompt message is delivered at most once  *)
(* and in the order of submission, whatever the queue modes and failures.  *)
UserTags == {"prompt", "steer", "followUp"}
Ordered(s) ==
    \A i, j \in DOMAIN s :
        i < j /\ s[i].tag = s[j].tag /\ s[i].tag \in UserTags => s[i].id < s[j].id

DeliveredOnceInOrder ==
    Ordered(messages \o prompts \o pendingMessages \o steeringQueue \o followUpQueue)

(* No submitted message disappears: it is in the transcript, on its way,   *)
(* still queued, or was dropped by a clear, a reset or a failed run.       *)
NoMessageLost ==
    1..submitted \subseteq Ids(messages \o prompts \o pendingMessages
                                 \o steeringQueue \o followUpQueue) \cup discarded

(* In the transcript tool results directly follow the assistant message    *)
(* that asked for them, in its order: no steering message and no other     *)
(* result ever lands in between, in whatever order the tools finish.       *)
ToolResultsFollowCalls ==
    \A i \in DOMAIN messages : messages[i].role = "toolResult" =>
        LET r == messages[i] IN
        /\ i > 1
        /\ IF r.calls = 1
           THEN LET a == messages[i - 1] IN
                a.role = "assistant" /\ a.id = r.id /\ a.tag \in {"ok", "length"}
           ELSE messages[i - 1] = createToolResultMessage(r.id, r.calls - 1)

(* Unless the run was aborted, no request leaves a tool call of this run   *)
(* without its result.                                                     *)
RequestHasAllResults ==
    pc = "request" /\ ~aborted =>
        \A i \in (base + 1)..Len(messages) : messages[i].role = "assistant" =>
            \A k \in 1..messages[i].calls :
                /\ i + k <= Len(messages)
                /\ messages[i + k] = createToolResultMessage(messages[i].id, k)

(* The tool calls of a message cut off by the token limit, or of a failed  *)
(* or aborted one, are never executed.                                     *)
TruncatedCallsNeverRun ==
    \A i \in DOMAIN messages :
        messages[i].role = "assistant" /\ messages[i].tag # "ok" =>
            \A k \in 1..messages[i].calls : tool[<<messages[i].id, k>>] \in {"none", "done"}

(* agent_end is the last event of a run (types.ts, AgentEvent).            *)
EventStep ==
    \/ EmitFailureStart \/ EmitFailureEnd \/ EmitFailureTurnEnd
    \/ EmitFailureAgentEnd \/ \E c \in CallId : EmitToolEnd(c)

AgentEndIsLast == [][ended => ~EventStep]_vars

(* Every run settles: waitForIdle and the prompt promise resolve.          *)
RunSettles == activeRun ~> ~activeRun
=============================================================================
