-------------------------- MODULE AgentLoopProofs --------------------------
(***************************************************************************)
(* Proofs about AgentLoop: the agent is type correct, and every request to *)
(* the model is made with exactly the agent's transcript, for every bound  *)
(* on messages, runs, batches and calls.  RequestSeesTranscript is not     *)
(* inductive: the loop's context and the agent's messages are written at   *)
(* different steps, so IndInv says how far apart they are at every step.   *)
(*                                                                         *)
(* Above that, what the transcript holds: user messages are delivered once *)
(* and in order and never lost, and tool results stand behind the calls    *)
(* that asked for them.  The proofs of delivery look only at Line, the     *)
(* messages in the transcript or taken by the run, and the two queues:     *)
(* LineStep says that each of the loop's steps is one of seven moves       *)
(* between them.  The proofs about results follow a batch of tool calls    *)
(* from the assistant message that asks for it to its last result.         *)
(***************************************************************************)
EXTENDS AgentLoop, TLAPS, SequenceTheorems

\* The steps of executeToolCalls between its first and its last result.
BatchPCs == {"toolStart", "prepare", "toolEnd", "batchCheck", "awaitTools",
             "resultStart", "resultEnd", "sequentialCheck", "batchDone"}

\* What the loop's position says of its local variables: the queue it is
\* emptying is not empty, and the indices of a batch are within it.
Positions ==
    /\ activeRun \/ pc = "idle"
    /\ pc \in {"promptStart", "promptEnd"} => prompts # <<>>
    /\ pc \in {"injectStart", "injectEnd"} => pendingMessages # <<>>
    /\ pc = "stream" /\ addedPartial => context # <<>>
    /\ message.calls <= MaxCalls
    /\ pc \in {"assistantStart", "assistantEnd"} /\ message.calls > 0 => batch > 0
    /\ pc \in BatchPCs => batch > 0 /\ 1 <= idx /\ idx <= message.calls /\ 1 <= res

\* The steps at which the prompts are in the context and not yet all in the
\* transcript.
PromptPCs == {"agentStart", "firstTurnStart", "promptStart", "promptEnd"}

\* The steps at which context and transcript are the same.
AgreePCs == {"initialPoll", "turnStart", "injectStart", "injectEnd", "request",
             "turnEnd", "nextTurn", "steeringPoll", "followUpPoll"}

\* How the loop's context (currentContext.messages) differs from the agent's
\* transcript (state.messages) at every step.
ContextAgrees ==
    /\ pc \in PromptPCs => context = messages \o prompts
    /\ pc \in AgreePCs => context = messages
    /\ pc = "stream" => context = IF addedPartial
                                  THEN Append(messages, AssistantMessage(0, "partial", 0))
                                  ELSE messages
    /\ pc \in {"assistantStart", "assistantEnd"} => context = Append(messages, message)
    /\ pc \in BatchPCs => messages = context \o Results(batch, res - 1)

\* A user message is a message.
LEMMA UserMessageType ==
    ASSUME NEW n \in Nat, NEW via \in {"prompt", "steer", "followUp"}
    PROVE  UserMessage(n, via) \in Message
BY DEF UserMessage, Message, Roles, Tags

\* An assistant message is a message, whatever ended it.
LEMMA AssistantMessageType ==
    ASSUME NEW b \in Nat, NEW k \in Nat,
           NEW stop \in {"partial", "ok", "length", "error", "aborted"}
    PROVE  AssistantMessage(b, stop, k) \in Message
BY DEF AssistantMessage, Message, Roles, Tags

\* A tool result is a message.
LEMMA ResultType ==
    ASSUME NEW b \in Nat, NEW i \in Nat
    PROVE  createToolResultMessage(b, i) \in Message
BY DEF createToolResultMessage, Message, Roles, Tags

\* The first n results of a batch are n messages.
LEMMA ResultsType ==
    ASSUME NEW b \in Nat, NEW n \in Nat
    PROVE  Results(b, n) \in Seq(Message) /\ Len(Results(b, n)) = n
BY ResultType DEF Results

\* Draining a queue in either mode yields messages, and some of them unless
\* the queue is empty.
LEMMA DrainType ==
    ASSUME NEW q \in Seq(Message), NEW m
    PROVE  /\ Drained(q, m) \in Seq(Message)
           /\ Remaining(q, m) \in Seq(Message)
           /\ q # <<>> => Drained(q, m) # <<>>
BY DEF Drained, Remaining

\* The ids of messages are numbers.
LEMMA IdsType ==
    ASSUME NEW s \in Seq(Message)
    PROVE  Ids(s) \subseteq Nat
<1>1. ASSUME NEW i \in DOMAIN s PROVE s[i].id \in Nat
  <2>1. s[i] \in Message
    OBVIOUS
  <2>. QED  BY <2>1 DEF Message
<1>. QED  BY <1>1 DEF Ids

\* The empty sequence is a sequence of messages.
LEMMA EmptyType == <<>> \in Seq(Message)
OBVIOUS

\* Appending a message keeps a sequence of messages.
LEMMA AppendType ==
    ASSUME NEW s \in Seq(Message), NEW m \in Message
    PROVE  Append(s, m) \in Seq(Message) /\ <<m>> \in Seq(Message)
OBVIOUS

\* So does concatenation.
LEMMA ConcatType ==
    ASSUME NEW s \in Seq(Message), NEW t \in Seq(Message)
    PROVE  s \o t \in Seq(Message)
OBVIOUS

\* The head and the tail of a sequence of messages.
LEMMA HeadTailType ==
    ASSUME NEW s \in Seq(Message), s # <<>>
    PROVE  Head(s) \in Message /\ Tail(s) \in Seq(Message)
OBVIOUS

\* Inside a batch the current index names a call of that batch.
LEMMA CallType ==
    ASSUME TypeInvariant, Positions, pc \in BatchPCs
    PROVE  Call(idx) \in CallId
<1>1. message.calls \in Nat
  BY DEF TypeInvariant, LoopType, Message
<1>2. batch \in 1..MaxBatches /\ idx \in 1..MaxCalls
  BY <1>1, BoundsAssumption DEF TypeInvariant, BatchType, Positions
<1>. QED  BY <1>2 DEF Call, CallId

\* Starting a run (runWithLifecycle) keeps the types.
LEMMA StartType ==
    ASSUME TypeInvariant, NEW p \in Seq(Message), NEW skip \in BOOLEAN,
           runWithLifecycle(p, skip), submitted' \in 0..MaxMessages,
           steeringQueue' \in Seq(Message), followUpQueue' \in Seq(Message)
    PROVE  TypeInvariant'
<1>. USE DEF TypeInvariant, runWithLifecycle, toolVars, positionVars
<1>1. StateType'
  BY DEF StateType
<1>2. messages \o p \in Seq(Message) /\ Len(messages) \in Nat
  BY ConcatType DEF StateType
<1>3. LoopType'
  BY <1>2 DEF LoopType, PC
<1>4. BatchType'
  BY DEF BatchType
<1>5. run' \in 0..MaxRuns
  BY BoundsAssumption DEF GhostType
<1>6. GhostType'
  BY <1>2, <1>5 DEF GhostType
<1>. QED  BY <1>1, <1>3, <1>4, <1>6

\* A sequence something was appended to is not empty.
LEMMA NonEmpty ==
    ASSUME NEW s \in Seq(Message), NEW m \in Message
    PROVE  Append(s, m) # <<>>
<1>1. Append(s, m) \in Seq(Message) /\ Len(Append(s, m)) = Len(s) + 1 /\ Len(s) \in Nat
  OBVIOUS
<1>. QED  BY <1>1, EmptySeq

\* The tail of a sequence of two or more is not empty.
LEMMA TailNonEmpty ==
    ASSUME NEW s \in Seq(Message), Len(s) > 1
    PROVE  Tail(s) # <<>>
<1>1. Tail(s) \in Seq(Message) /\ Len(Tail(s)) = Len(s) - 1 /\ Len(s) \in Nat
  OBVIOUS
<1>2. Len(<<>>) = 0 /\ Len(Tail(s)) # 0
  BY <1>1, EmptySeq
<1>. QED  BY ONLY <1>2, Zenon

\* Moving the head of a suffix to the end of the prefix changes nothing: a
\* prompt that ends leaves the prompts for the transcript.
LEMMA HeadTailConcat ==
    ASSUME NEW s \in Seq(Message), NEW t \in Seq(Message), t # <<>>
    PROVE  s \o t = Append(s, Head(t)) \o Tail(t)
OBVIOUS

\* No results: nothing is added.
LEMMA NoResults ==
    ASSUME NEW b, NEW s \in Seq(Message)
    PROVE  s \o Results(b, 0) = s
BY DEF Results

\* Appending the n-th result to the first n - 1 gives the first n.
LEMMA OneMoreResult ==
    ASSUME NEW b \in Nat, NEW n \in Nat \ {0}, NEW s \in Seq(Message)
    PROVE  Append(s \o Results(b, n - 1), createToolResultMessage(b, n))
               = s \o Results(b, n)
<1>1. /\ Results(b, n - 1) \in Seq(Message) /\ Len(Results(b, n - 1)) = n - 1
      /\ Results(b, n) \in Seq(Message) /\ Len(Results(b, n)) = n
  BY ResultsType
<1>2. \A i \in 1..n : Results(b, n)[i] = createToolResultMessage(b, i)
  BY DEF Results
<1>3. \A i \in 1..(n - 1) : Results(b, n - 1)[i] = createToolResultMessage(b, i)
  BY DEF Results
<1>. DEFINE l == Append(s \o Results(b, n - 1), createToolResultMessage(b, n))
<1>. DEFINE r == s \o Results(b, n)
<1>4. /\ l \in Seq(Message) /\ Len(l) = Len(s) + n
      /\ r \in Seq(Message) /\ Len(r) = Len(s) + n
  BY <1>1, ResultType
<1>5. ASSUME NEW i \in 1..Len(l)
      PROVE  l[i] = r[i]
  <2>1. CASE i <= Len(s)
    BY <1>1, <1>4, <2>1
  <2>2. CASE i > Len(s) /\ i < Len(s) + n
    <3>1. i - Len(s) \in 1..(n - 1) /\ i - Len(s) \in 1..n
      BY <2>2, <1>4
    <3>2. l[i] = Results(b, n - 1)[i - Len(s)]
      BY <1>1, <1>4, <2>2
    <3>3. r[i] = Results(b, n)[i - Len(s)]
      BY <1>1, <1>4, <2>2
    <3>. QED  BY <1>2, <1>3, <3>1, <3>2, <3>3
  <2>3. CASE i = Len(s) + n
    <3>1. l[i] = createToolResultMessage(b, n)
      BY <1>1, <1>4, <2>3
    <3>2. r[i] = Results(b, n)[n]
      BY <1>1, <1>4, <2>3
    <3>. QED  BY <1>2, <3>1, <3>2
  <2>. QED  BY <1>4, <2>1, <2>2, <2>3
<1>. HIDE DEF l, r
<1>6. l = r
  BY <1>4, <1>5, SeqEqual
<1>. QED  BY <1>6 DEF l, r

\* Every action keeps the types; one step for each action.
LEMMA TypeStep ==
    ASSUME TypeInvariant, Positions, Next
    PROVE  TypeInvariant'
<1>. USE BoundsAssumption, ModesAssumption
     DEF queueVars, statusVars, stateVars, flagVars, localVars, loopVars,
         positionVars, toolVars, counterVars, ghostVars
<1>1. CASE steer
  BY <1>1, UserMessageType DEF steer, TypeInvariant, StateType, LoopType,
     BatchType, GhostType, PC
<1>2. CASE followUp
  BY <1>2, UserMessageType DEF followUp, TypeInvariant, StateType, LoopType,
     BatchType, GhostType, PC
<1>3. CASE clearSteeringQueue
  <2>1. StateType'
    BY <1>3, EmptyType, IdsType DEF clearSteeringQueue, TypeInvariant,
       StateType, LoopType, BatchType, GhostType
  <2>2. GhostType'
    BY <1>3, EmptyType, IdsType DEF clearSteeringQueue, TypeInvariant,
       StateType, LoopType, BatchType, GhostType
  <2>. QED
    BY <1>3, <2>1, <2>2 DEF clearSteeringQueue, TypeInvariant, LoopType,
       BatchType
<1>4. CASE clearFollowUpQueue
  <2>1. StateType'
    BY <1>4, EmptyType, IdsType DEF clearFollowUpQueue, TypeInvariant,
       StateType, LoopType, BatchType, GhostType
  <2>2. GhostType'
    BY <1>4, EmptyType, IdsType DEF clearFollowUpQueue, TypeInvariant,
       StateType, LoopType, BatchType, GhostType
  <2>. QED
    BY <1>4, <2>1, <2>2 DEF clearFollowUpQueue, TypeInvariant, LoopType,
       BatchType
<1>5. CASE abort
  BY <1>5 DEF abort, TypeInvariant, StateType, LoopType, BatchType,
     GhostType, PC
<1>6. CASE reset
  <2>1. StateType'
    BY <1>6, EmptyType DEF reset, TypeInvariant, StateType, LoopType,
       BatchType, GhostType
  <2>2. GhostType'
    BY <1>6, EmptyType DEF reset, TypeInvariant, StateType, LoopType,
       BatchType, GhostType
  <2>. QED
    BY <1>6, <2>1, <2>2 DEF reset, TypeInvariant, LoopType, BatchType
<1>7. CASE prompt
  <2>1. UserMessage(submitted + 1, "prompt") \in Message
    BY UserMessageType DEF TypeInvariant, GhostType
  <2>2. submitted' \in 0..MaxMessages
    BY <1>7 DEF prompt, TypeInvariant, GhostType
  <2>. QED
    BY <1>7, <2>1, <2>2, StartType, AppendType DEF prompt, TypeInvariant, StateType
<1>8. CASE continueSteering
  <2>. QED
    BY <1>8, StartType, DrainType
       DEF continueSteering, TypeInvariant, StateType, GhostType
<1>9. CASE continueFollowUp
  <2>. QED
    BY <1>9, StartType, DrainType
       DEF continueFollowUp, TypeInvariant, StateType, GhostType
<1>10. CASE runContinuation
  BY <1>10, StartType, EmptyType
     DEF runContinuation, TypeInvariant, StateType, GhostType
<1>11. CASE EmitAgentStart
  BY <1>11 DEF EmitAgentStart, Emit, TypeInvariant, StateType, LoopType,
     BatchType, GhostType, PC
<1>12. CASE EmitFirstTurnStart
  BY <1>12 DEF EmitFirstTurnStart, Emit, TypeInvariant, StateType, LoopType,
     BatchType, GhostType, PC
<1>13. CASE EmitPromptStart
  BY <1>13 DEF EmitPromptStart, EmitMessageStart, Emit, TypeInvariant,
     StateType, LoopType, BatchType, GhostType, PC
<1>14. CASE EmitPromptEnd
  <2>1. StateType'
    BY <1>14, AppendType, HeadTailType DEF EmitPromptEnd, MessageEnd,
       Emit, Positions, TypeInvariant, StateType, LoopType, BatchType,
       GhostType
  <2>2. LoopType'
    BY <1>14, AppendType, HeadTailType DEF EmitPromptEnd, MessageEnd,
       Emit, Positions, TypeInvariant, StateType, LoopType, BatchType,
       GhostType, PC
  <2>. QED
    BY <1>14, <2>1, <2>2 DEF EmitPromptEnd, MessageEnd, Emit, Positions,
       TypeInvariant, BatchType, GhostType
<1>15. CASE InitialSteeringPoll
  <2>1. StateType'
    BY <1>15, DrainType, EmptyType DEF InitialSteeringPoll,
       InjectOrRequest, TypeInvariant, StateType, LoopType, BatchType,
       GhostType
  <2>2. LoopType'
    BY <1>15, DrainType, EmptyType DEF InitialSteeringPoll,
       InjectOrRequest, TypeInvariant, StateType, LoopType, BatchType,
       GhostType, PC
  <2>. QED
    BY <1>15, <2>1, <2>2 DEF InitialSteeringPoll, InjectOrRequest,
       TypeInvariant, BatchType, GhostType
<1>16. CASE EmitTurnStart
  BY <1>16 DEF EmitTurnStart, Emit, InjectOrRequest, TypeInvariant,
     StateType, LoopType, BatchType, GhostType, PC
<1>17. CASE EmitInjectStart
  BY <1>17 DEF EmitInjectStart, EmitMessageStart, Emit, TypeInvariant,
     StateType, LoopType, BatchType, GhostType, PC
<1>18. CASE EmitInjectEnd
  <2>1. StateType'
    BY <1>18, AppendType, HeadTailType DEF EmitInjectEnd, MessageEnd,
       Emit, InjectOrRequest, Positions, TypeInvariant, StateType,
       LoopType, BatchType, GhostType
  <2>2. LoopType'
    BY <1>18, AppendType, HeadTailType DEF EmitInjectEnd, MessageEnd,
       Emit, InjectOrRequest, Positions, TypeInvariant, StateType,
       LoopType, BatchType, GhostType, PC
  <2>. QED
    BY <1>18, <2>1, <2>2 DEF EmitInjectEnd, MessageEnd, Emit,
       InjectOrRequest, Positions, TypeInvariant, BatchType, GhostType
<1>19. CASE ProviderThrows
  BY <1>19 DEF ProviderThrows, TypeInvariant, StateType, LoopType,
     BatchType, GhostType, PC
<1>20. CASE Request
  BY <1>20 DEF Request, TypeInvariant, StateType, LoopType, BatchType,
     GhostType, PC
<1>21. CASE EmitStreamStart
  BY <1>21, AssistantMessageType DEF EmitStreamStart, Emit, TypeInvariant,
     StateType, LoopType, BatchType, GhostType, PC
<1>22. CASE EmitStreamUpdate
  BY <1>22 DEF EmitStreamUpdate, Emit, TypeInvariant, StateType, LoopType,
     BatchType, GhostType, PC
<1>23. CASE StreamFinish
  BY <1>23, AssistantMessageType DEF StreamFinish, Positions, TypeInvariant,
     StateType, LoopType, BatchType, GhostType, PC
<1>24. CASE EmitAssistantStart
  BY <1>24 DEF EmitAssistantStart, EmitMessageStart, Emit, TypeInvariant,
     StateType, LoopType, BatchType, GhostType, PC
<1>25. CASE EmitAssistantEnd
  <2>1. StateType'
    BY <1>25, AppendType DEF EmitAssistantEnd, MessageEnd, Emit,
       AfterResponse, BatchModes, TypeInvariant, StateType, LoopType,
       BatchType, GhostType
  <2>2. LoopType'
    BY <1>25, AppendType DEF EmitAssistantEnd, MessageEnd, Emit,
       AfterResponse, BatchModes, TypeInvariant, StateType, LoopType,
       BatchType, GhostType, PC
  <2>3. BatchType'
    BY <1>25, AppendType DEF EmitAssistantEnd, MessageEnd, Emit,
       AfterResponse, BatchModes, TypeInvariant, StateType, LoopType,
       BatchType, GhostType, ToolStatus
  <2>. QED
    BY <1>25, <2>1, <2>2, <2>3 DEF EmitAssistantEnd, MessageEnd, Emit,
       AfterResponse, BatchModes, TypeInvariant, GhostType
<1>26. CASE EmitToolStart
  <2>1. StateType'
    BY <1>26, CallType DEF EmitToolStart, Emit, BatchPCs, TypeInvariant,
       StateType, LoopType, BatchType, GhostType
  <2>2. LoopType'
    BY <1>26, CallType DEF EmitToolStart, Emit, BatchPCs, TypeInvariant,
       StateType, LoopType, BatchType, GhostType, PC
  <2>. QED
    BY <1>26, <2>1, <2>2 DEF EmitToolStart, Emit, BatchPCs, TypeInvariant,
       BatchType, GhostType
<1>27. CASE PrepareImmediate
  <2>1. LoopType'
    BY <1>27, CallType DEF PrepareImmediate, BatchPCs, TypeInvariant,
       StateType, LoopType, BatchType, GhostType, PC
  <2>2. BatchType'
    BY <1>27, CallType DEF PrepareImmediate, BatchPCs, TypeInvariant,
       StateType, LoopType, BatchType, GhostType, ToolStatus
  <2>. QED
    BY <1>27, <2>1, <2>2 DEF PrepareImmediate, BatchPCs, TypeInvariant,
       StateType, GhostType
<1>28. CASE PreparePrepared
  BY <1>28, CallType DEF PreparePrepared, BatchPCs, TypeInvariant,
     StateType, LoopType, BatchType, GhostType, PC, ToolStatus
<1>29. CASE EmitImmediateToolEnd
  <2>1. StateType'
    BY <1>29, CallType DEF EmitImmediateToolEnd, Emit, PendingAfterEnd,
       BatchPCs, TypeInvariant, StateType, LoopType, BatchType, GhostType
  <2>2. LoopType'
    BY <1>29, CallType DEF EmitImmediateToolEnd, Emit, PendingAfterEnd,
       BatchPCs, TypeInvariant, StateType, LoopType, BatchType, GhostType,
       PC
  <2>3. BatchType'
    BY <1>29, CallType DEF EmitImmediateToolEnd, Emit, PendingAfterEnd,
       BatchPCs, TypeInvariant, StateType, LoopType, BatchType, GhostType,
       ToolStatus
  <2>. QED
    BY <1>29, <2>1, <2>2, <2>3 DEF EmitImmediateToolEnd, Emit,
       PendingAfterEnd, BatchPCs, TypeInvariant, GhostType
<1>30. CASE ParallelNextCall
  BY <1>30 DEF ParallelNextCall, LeavesLoop, TypeInvariant, StateType,
     LoopType, BatchType, GhostType, PC
<1>31. CASE LaunchTools
  BY <1>31 DEF LaunchTools, Launched, TypeInvariant, StateType, LoopType,
     BatchType, GhostType, PC, ToolStatus
<1>32. CASE ToolsDone
  BY <1>32 DEF ToolsDone, TypeInvariant, StateType, LoopType, BatchType,
     GhostType, PC
<1>33. CASE ToolsRejected
  BY <1>33 DEF ToolsRejected, TypeInvariant, StateType, LoopType, BatchType,
     GhostType, PC
<1>34. CASE EmitResultStart
  BY <1>34 DEF EmitResultStart, EmitMessageStart, Emit, TypeInvariant,
     StateType, LoopType, BatchType, GhostType, PC
<1>35. CASE EmitResultEnd
  <2>1. createToolResultMessage(batch, res) \in Message
    BY ResultType DEF TypeInvariant, BatchType
  <2>2. StateType'
    BY <1>35, <2>1, AppendType DEF EmitResultEnd, MessageEnd, TypeInvariant, StateType
  <2>3. LoopType'
    BY <1>35 DEF EmitResultEnd, Emit, TypeInvariant, LoopType, BatchType, PC
  <2>4. idx' \in Nat /\ res' \in Nat
    BY <1>35 DEF EmitResultEnd, TypeInvariant, BatchType
  <2>5. BatchType'
    BY <1>35, <2>4 DEF EmitResultEnd, TypeInvariant, BatchType
  <2>6. GhostType'
    BY <1>35 DEF EmitResultEnd, TypeInvariant, GhostType
  <2>. QED  BY <2>2, <2>3, <2>5, <2>6 DEF TypeInvariant
<1>36. CASE SequentialCheck
  BY <1>36 DEF SequentialCheck, LeavesLoop, TypeInvariant, StateType,
     LoopType, BatchType, GhostType, PC
<1>37. CASE BatchDone
  <2>1. res - 1 \in Nat
    BY <1>37 DEF BatchDone, Positions, BatchPCs, TypeInvariant, BatchType
  <2>2. context \o Results(batch, res - 1) \in Seq(Message)
    BY <2>1, ResultsType, ConcatType DEF TypeInvariant, LoopType, BatchType
  <2>3. LoopType'
    BY <1>37, <2>2 DEF BatchDone, TypeInvariant, LoopType, PC
  <2>. QED
    BY <1>37, <2>3 DEF BatchDone, TypeInvariant, StateType, BatchType, GhostType
<1>38. CASE EmitTurnEnd
  BY <1>38 DEF EmitTurnEnd, Emit, TypeInvariant, StateType, LoopType,
     BatchType, GhostType, PC
<1>39. CASE ShouldStopAfterTurn
  BY <1>39 DEF ShouldStopAfterTurn, TypeInvariant, StateType, LoopType,
     BatchType, GhostType, PC
<1>40. CASE SteeringPoll
  BY <1>40, DrainType DEF SteeringPoll, TypeInvariant, StateType, LoopType,
     BatchType, GhostType, PC
<1>41. CASE FollowUpPoll
  BY <1>41, DrainType DEF FollowUpPoll, TypeInvariant, StateType, LoopType,
     BatchType, GhostType, PC
<1>42. CASE EmitErrorTurnEnd
  BY <1>42 DEF EmitErrorTurnEnd, Emit, ErrorAfterTurnEnd, TypeInvariant,
     StateType, LoopType, BatchType, GhostType, PC
<1>43. CASE EmitAgentEnd
  BY <1>43, ZenonT(60) DEF EmitAgentEnd, Emit, TypeInvariant, StateType,
     LoopType, BatchType, GhostType, PC
<1>44. CASE EmitFailureStart
  <2>1. StateType'
    BY <1>44, AssistantMessageType, EmptyType, IdsType DEF
       EmitFailureStart, EmitFailure, TypeInvariant, StateType, LoopType,
       BatchType, GhostType
  <2>2. LoopType'
    BY <1>44, AssistantMessageType, EmptyType, IdsType DEF
       EmitFailureStart, EmitFailure, TypeInvariant, StateType, LoopType,
       BatchType, GhostType, PC
  <2>3. GhostType'
    BY <1>44, AssistantMessageType, EmptyType, IdsType DEF
       EmitFailureStart, EmitFailure, TypeInvariant, StateType, LoopType,
       BatchType, GhostType
  <2>. QED
    BY <1>44, <2>1, <2>2, <2>3 DEF EmitFailureStart, EmitFailure,
       TypeInvariant, BatchType
<1>45. CASE EmitFailureEnd
  <2>1. StateType'
    BY <1>45, AppendType DEF EmitFailureEnd, EmitFailure, MessageEnd,
       TypeInvariant, StateType, LoopType, BatchType, GhostType
  <2>2. LoopType'
    BY <1>45, AppendType DEF EmitFailureEnd, EmitFailure, MessageEnd,
       TypeInvariant, StateType, LoopType, BatchType, GhostType, PC
  <2>. QED
    BY <1>45, <2>1, <2>2 DEF EmitFailureEnd, EmitFailure, MessageEnd,
       TypeInvariant, BatchType, GhostType
<1>46. CASE EmitFailureTurnEnd
  BY <1>46 DEF EmitFailureTurnEnd, EmitFailure, ErrorAfterTurnEnd,
     TypeInvariant, StateType, LoopType, BatchType, GhostType, PC
<1>47. CASE EmitFailureAgentEnd
  BY <1>47, ZenonT(60) DEF EmitFailureAgentEnd, EmitFailure, TypeInvariant,
     StateType, LoopType, BatchType, GhostType, PC
<1>48. CASE FinishRun
  <2>1. StateType'
    BY <1>48, AssistantMessageType, EmptyType DEF FinishRun,
       TypeInvariant, StateType, LoopType, BatchType, GhostType
  <2>2. LoopType'
    BY <1>48, AssistantMessageType, EmptyType DEF FinishRun,
       TypeInvariant, StateType, LoopType, BatchType, GhostType, PC
  <2>3. BatchType'
    BY <1>48, AssistantMessageType, EmptyType DEF FinishRun,
       TypeInvariant, StateType, LoopType, BatchType, GhostType,
       ToolStatus
  <2>4. GhostType'
    BY <1>48, AssistantMessageType, EmptyType DEF FinishRun,
       TypeInvariant, StateType, LoopType, BatchType, GhostType
  <2>. QED
    BY <2>1, <2>2, <2>3, <2>4 DEF TypeInvariant
<1>49. ASSUME NEW c \in CallId, ToolStep(c) \/ EmitToolUpdate(c)
      PROVE  TypeInvariant'
  <2>1. StateType'
    BY <1>49 DEF ToolStep, ExecutedTool, EmitToolEnd, EmitToolUpdate,
       PendingAfterEnd, TypeInvariant, StateType
  <2>2. LoopType' /\ GhostType'
    BY <1>49 DEF ToolStep, ExecutedTool, EmitToolEnd, EmitToolUpdate,
       TypeInvariant, LoopType, GhostType
  <2>3. tool' \in [CallId -> ToolStatus]
    BY <1>49 DEF ToolStep, ExecutedTool, EmitToolEnd, EmitToolUpdate,
       TypeInvariant, BatchType, ToolStatus
  <2>4. BatchType'
    BY <1>49, <2>3 DEF ToolStep, ExecutedTool, EmitToolEnd, EmitToolUpdate,
       TypeInvariant, BatchType
  <2>. QED  BY <2>1, <2>2, <2>4 DEF TypeInvariant
<1>. QED
  BY <1>1, <1>2, <1>3, <1>4, <1>5, <1>6, <1>7, <1>8, <1>9, <1>10, <1>11,
     <1>12, <1>13, <1>14, <1>15, <1>16, <1>17, <1>18, <1>19, <1>20, <1>21,
     <1>22, <1>23, <1>24, <1>25, <1>26, <1>27, <1>28, <1>29, <1>30, <1>31,
     <1>32, <1>33, <1>34, <1>35, <1>36, <1>37, <1>38, <1>39, <1>40, <1>41,
     <1>42, <1>43, <1>44, <1>45, <1>46, <1>47, <1>48, <1>49 DEF Next,
     UserStep, StartStep, LoopStep, TurnStep, BatchStep, EndStep

\* Every action keeps the positions; one step for each action.
LEMMA PositionsStep ==
    ASSUME TypeInvariant, Positions, Next
    PROVE  Positions'
<1>. USE BoundsAssumption, ModesAssumption
     DEF queueVars, statusVars, stateVars, flagVars, localVars, loopVars,
         positionVars, toolVars, counterVars, ghostVars
<1>. USE DEF Positions, BatchPCs
<1>1. CASE steer
  BY <1>1 DEF steer, TypeInvariant, LoopType, BatchType, Message
<1>2. CASE followUp
  BY <1>2 DEF followUp, TypeInvariant, LoopType, BatchType, Message
<1>3. CASE clearSteeringQueue
  BY <1>3 DEF clearSteeringQueue, TypeInvariant, LoopType, BatchType,
     Message
<1>4. CASE clearFollowUpQueue
  BY <1>4 DEF clearFollowUpQueue, TypeInvariant, LoopType, BatchType,
     Message
<1>5. CASE abort
  BY <1>5 DEF abort, TypeInvariant, LoopType, BatchType, Message
<1>6. CASE reset
  BY <1>6 DEF reset, TypeInvariant, LoopType, BatchType, Message
<1>7. CASE prompt
  BY <1>7 DEF prompt, runWithLifecycle, TypeInvariant, LoopType, BatchType,
     Message
<1>8. CASE continueSteering
  BY <1>8 DEF continueSteering, runWithLifecycle, TypeInvariant, LoopType,
     BatchType, Message
<1>9. CASE continueFollowUp
  BY <1>9 DEF continueFollowUp, runWithLifecycle, TypeInvariant, LoopType,
     BatchType, Message
<1>10. CASE runContinuation
  BY <1>10 DEF runContinuation, runWithLifecycle, TypeInvariant, LoopType,
     BatchType, Message
<1>11. CASE EmitAgentStart
  BY <1>11 DEF EmitAgentStart, Emit, TypeInvariant, LoopType, BatchType,
     Message
<1>12. CASE EmitFirstTurnStart
  BY <1>12 DEF EmitFirstTurnStart, Emit, TypeInvariant, LoopType, BatchType,
     Message
<1>13. CASE EmitPromptStart
  BY <1>13 DEF EmitPromptStart, EmitMessageStart, Emit, TypeInvariant,
     LoopType, BatchType, Message
<1>14. CASE EmitPromptEnd
  <2>1. Len(prompts) > 1 => Tail(prompts) # <<>>
    BY TailNonEmpty DEF TypeInvariant, LoopType
  <2>. QED  BY <1>14, <2>1 DEF EmitPromptEnd, MessageEnd, Emit
<1>15. CASE InitialSteeringPoll
  BY <1>15 DEF InitialSteeringPoll, InjectOrRequest, TypeInvariant,
     LoopType, BatchType, Message
<1>16. CASE EmitTurnStart
  BY <1>16 DEF EmitTurnStart, Emit, InjectOrRequest, TypeInvariant,
     LoopType, BatchType, Message
<1>17. CASE EmitInjectStart
  BY <1>17 DEF EmitInjectStart, EmitMessageStart, Emit, TypeInvariant,
     LoopType, BatchType, Message
<1>18. CASE EmitInjectEnd
  BY <1>18 DEF EmitInjectEnd, MessageEnd, Emit, InjectOrRequest,
     TypeInvariant, LoopType, BatchType, Message
<1>19. CASE ProviderThrows
  BY <1>19 DEF ProviderThrows, TypeInvariant, LoopType, BatchType, Message
<1>20. CASE Request
  BY <1>20 DEF Request, TypeInvariant, LoopType, BatchType, Message
<1>21. CASE EmitStreamStart
  <2>1. Append(context, AssistantMessage(0, "partial", 0)) # <<>>
    BY AssistantMessageType, NonEmpty DEF TypeInvariant, LoopType
  <2>. QED  BY <1>21, <2>1 DEF EmitStreamStart, Emit
<1>22. CASE EmitStreamUpdate
  BY <1>22 DEF EmitStreamUpdate, Emit, TypeInvariant, LoopType, BatchType,
     Message
<1>23. CASE StreamFinish
  <2>1. message'.calls <= MaxCalls
    BY <1>23 DEF StreamFinish, AssistantMessage
  <2>2. message'.calls > 0 => batch' > 0
    BY <1>23 DEF StreamFinish, AssistantMessage, TypeInvariant, BatchType
  <2>. QED  BY <1>23, <2>1, <2>2 DEF StreamFinish
<1>24. CASE EmitAssistantStart
  BY <1>24 DEF EmitAssistantStart, EmitMessageStart, Emit, TypeInvariant,
     LoopType, BatchType, Message
<1>25. CASE EmitAssistantEnd
  <2>1. pc' \in BatchPCs => message.calls > 0
    BY <1>25 DEF EmitAssistantEnd, Emit, AfterResponse
  <2>2. message.calls \in Nat
    BY DEF TypeInvariant, LoopType, Message
  <2>3. pc' \in {"errorTurnEnd", "toolStart", "turnEnd", "failure"}
    BY <1>25 DEF EmitAssistantEnd, Emit, AfterResponse
  <2>. QED  BY <1>25, <2>1, <2>2, <2>3 DEF EmitAssistantEnd, MessageEnd
<1>26. CASE EmitToolStart
  BY <1>26 DEF EmitToolStart, Emit, TypeInvariant, LoopType, BatchType,
     Message
<1>27. CASE PrepareImmediate
  BY <1>27 DEF PrepareImmediate, TypeInvariant, LoopType, BatchType, Message
<1>28. CASE PreparePrepared
  BY <1>28 DEF PreparePrepared, TypeInvariant, LoopType, BatchType, Message
<1>29. CASE EmitImmediateToolEnd
  BY <1>29 DEF EmitImmediateToolEnd, Emit, PendingAfterEnd, TypeInvariant,
     LoopType, BatchType, Message
<1>30. CASE ParallelNextCall
  BY <1>30 DEF ParallelNextCall, LeavesLoop, TypeInvariant, LoopType,
     BatchType, Message
<1>31. CASE LaunchTools
  BY <1>31 DEF LaunchTools, Launched, TypeInvariant, LoopType, BatchType,
     Message
<1>32. CASE ToolsDone
  BY <1>32 DEF ToolsDone, TypeInvariant, LoopType, BatchType, Message
<1>33. CASE ToolsRejected
  BY <1>33 DEF ToolsRejected, TypeInvariant, LoopType, BatchType, Message
<1>34. CASE EmitResultStart
  BY <1>34 DEF EmitResultStart, EmitMessageStart, Emit, TypeInvariant,
     LoopType, BatchType, Message
<1>35. CASE EmitResultEnd
  <2>1. message.calls \in Nat /\ idx \in Nat /\ res \in Nat
    BY DEF TypeInvariant, LoopType, BatchType, Message
  <2>2. pc' \in {"resultStart", "sequentialCheck", "toolStart", "batchDone", "failure"}
    BY <1>35 DEF EmitResultEnd, Emit, TypeInvariant, BatchType
  <2>3. 1 <= idx' /\ idx' <= message.calls /\ 1 <= res'
    BY <1>35, <2>1 DEF EmitResultEnd
  <2>. QED  BY <1>35, <2>2, <2>3 DEF EmitResultEnd, MessageEnd
<1>36. CASE SequentialCheck
  BY <1>36, SMTT(30) DEF SequentialCheck, LeavesLoop, TypeInvariant, LoopType,
     BatchType, Message
<1>37. CASE BatchDone
  BY <1>37 DEF BatchDone, TypeInvariant, LoopType, BatchType, Message
<1>38. CASE EmitTurnEnd
  BY <1>38 DEF EmitTurnEnd, Emit, TypeInvariant, LoopType, BatchType,
     Message
<1>39. CASE ShouldStopAfterTurn
  BY <1>39 DEF ShouldStopAfterTurn, TypeInvariant, LoopType, BatchType,
     Message
<1>40. CASE SteeringPoll
  BY <1>40 DEF SteeringPoll, TypeInvariant, LoopType, BatchType, Message
<1>41. CASE FollowUpPoll
  BY <1>41 DEF FollowUpPoll, TypeInvariant, LoopType, BatchType, Message
<1>42. CASE EmitErrorTurnEnd
  BY <1>42 DEF EmitErrorTurnEnd, Emit, ErrorAfterTurnEnd, TypeInvariant,
     LoopType, BatchType, Message
<1>43. CASE EmitAgentEnd
  BY <1>43 DEF EmitAgentEnd, Emit, TypeInvariant, LoopType, BatchType,
     Message
<1>44. CASE EmitFailureStart
  <2>1. message'.calls = 0
    BY <1>44 DEF EmitFailureStart, AssistantMessage
  <2>. QED  BY <1>44, <2>1 DEF EmitFailureStart, EmitFailure
<1>45. CASE EmitFailureEnd
  BY <1>45 DEF EmitFailureEnd, EmitFailure, MessageEnd, TypeInvariant,
     LoopType, BatchType, Message
<1>46. CASE EmitFailureTurnEnd
  BY <1>46 DEF EmitFailureTurnEnd, EmitFailure, ErrorAfterTurnEnd,
     TypeInvariant, LoopType, BatchType, Message
<1>47. CASE EmitFailureAgentEnd
  BY <1>47 DEF EmitFailureAgentEnd, EmitFailure, TypeInvariant, LoopType,
     BatchType, Message
<1>48. CASE FinishRun
  <2>1. message'.calls = 0
    BY <1>48 DEF FinishRun, AssistantMessage
  <2>. QED  BY <1>48, <2>1 DEF FinishRun
<1>49. ASSUME NEW c \in CallId, ToolStep(c) \/ EmitToolUpdate(c)
      PROVE  Positions'
  <2>1. UNCHANGED <<loopVars, positionVars, activeRun>>
    BY <1>49 DEF ToolStep, ExecutedTool, EmitToolEnd, EmitToolUpdate
  <2>. QED  BY <2>1
<1>. QED
  BY <1>1, <1>2, <1>3, <1>4, <1>5, <1>6, <1>7, <1>8, <1>9, <1>10, <1>11,
     <1>12, <1>13, <1>14, <1>15, <1>16, <1>17, <1>18, <1>19, <1>20, <1>21,
     <1>22, <1>23, <1>24, <1>25, <1>26, <1>27, <1>28, <1>29, <1>30, <1>31,
     <1>32, <1>33, <1>34, <1>35, <1>36, <1>37, <1>38, <1>39, <1>40, <1>41,
     <1>42, <1>43, <1>44, <1>45, <1>46, <1>47, <1>48, <1>49 DEF Next,
     UserStep, StartStep, LoopStep, TurnStep, BatchStep, EndStep

\* Every action keeps context and transcript as far apart as the position
\* says; one step for each action.
LEMMA ContextStep ==
    ASSUME TypeInvariant, Positions, ContextAgrees, Next
    PROVE  ContextAgrees'
<1>. USE BoundsAssumption, ModesAssumption
     DEF queueVars, statusVars, stateVars, flagVars, localVars, loopVars,
         positionVars, toolVars, counterVars, ghostVars
<1>. USE DEF ContextAgrees, PromptPCs, AgreePCs, BatchPCs
<1>1. CASE steer
  BY <1>1 DEF steer, TypeInvariant, StateType, LoopType, BatchType
<1>2. CASE followUp
  BY <1>2 DEF followUp, TypeInvariant, StateType, LoopType, BatchType
<1>3. CASE clearSteeringQueue
  BY <1>3 DEF clearSteeringQueue, TypeInvariant, StateType, LoopType,
     BatchType
<1>4. CASE clearFollowUpQueue
  BY <1>4 DEF clearFollowUpQueue, TypeInvariant, StateType, LoopType,
     BatchType
<1>5. CASE abort
  BY <1>5 DEF abort, TypeInvariant, StateType, LoopType, BatchType
<1>6. CASE reset
  BY <1>6 DEF reset, Positions
<1>7. CASE prompt
  BY <1>7 DEF prompt, runWithLifecycle, TypeInvariant, StateType, LoopType,
     BatchType
<1>8. CASE continueSteering
  BY <1>8 DEF continueSteering, runWithLifecycle, TypeInvariant, StateType,
     LoopType, BatchType
<1>9. CASE continueFollowUp
  BY <1>9 DEF continueFollowUp, runWithLifecycle, TypeInvariant, StateType,
     LoopType, BatchType
<1>10. CASE runContinuation
  BY <1>10 DEF runContinuation, runWithLifecycle, TypeInvariant, StateType,
     LoopType, BatchType
<1>11. CASE EmitAgentStart
  BY <1>11 DEF EmitAgentStart, Emit, TypeInvariant, StateType, LoopType,
     BatchType
<1>12. CASE EmitFirstTurnStart
  <2>1. messages \o <<>> = messages
    BY DEF TypeInvariant, StateType
  <2>. QED  BY <1>12, <2>1 DEF EmitFirstTurnStart, Emit
<1>13. CASE EmitPromptStart
  BY <1>13 DEF EmitPromptStart, EmitMessageStart, Emit, TypeInvariant,
     StateType, LoopType, BatchType
<1>14. CASE EmitPromptEnd
  <2>1. prompts # <<>>
    BY <1>14 DEF EmitPromptEnd, Positions
  <2>2. messages \o prompts = Append(messages, Head(prompts)) \o Tail(prompts)
    BY <2>1, HeadTailConcat DEF TypeInvariant, StateType, LoopType
  <2>3. context = messages' \o prompts'
    BY <1>14, <2>2 DEF EmitPromptEnd, MessageEnd
  <2>4. ~(Len(prompts) > 1) => Tail(prompts) = <<>>
    BY <2>1 DEF TypeInvariant, LoopType
  <2>5. messages' \in Seq(Message)
    BY <1>14, <2>1, HeadTailType, AppendType
       DEF EmitPromptEnd, MessageEnd, TypeInvariant, StateType, LoopType
  <2>6. ~(Len(prompts) > 1) => context = messages'
    BY <1>14, <2>3, <2>4, <2>5 DEF EmitPromptEnd
  <2>. QED  BY <1>14, <2>3, <2>6 DEF EmitPromptEnd, Emit
<1>15. CASE InitialSteeringPoll
  BY <1>15 DEF InitialSteeringPoll, InjectOrRequest, TypeInvariant,
     StateType, LoopType, BatchType
<1>16. CASE EmitTurnStart
  BY <1>16 DEF EmitTurnStart, Emit, InjectOrRequest, TypeInvariant,
     StateType, LoopType, BatchType
<1>17. CASE EmitInjectStart
  BY <1>17 DEF EmitInjectStart, EmitMessageStart, Emit, TypeInvariant,
     StateType, LoopType, BatchType
<1>18. CASE EmitInjectEnd
  BY <1>18 DEF EmitInjectEnd, MessageEnd, Emit, InjectOrRequest,
     TypeInvariant, StateType, LoopType, BatchType
<1>19. CASE ProviderThrows
  BY <1>19 DEF ProviderThrows, TypeInvariant, StateType, LoopType, BatchType
<1>20. CASE Request
  BY <1>20 DEF Request, TypeInvariant, StateType, LoopType, BatchType
<1>21. CASE EmitStreamStart
  BY <1>21 DEF EmitStreamStart, Emit, TypeInvariant, StateType, LoopType,
     BatchType
<1>22. CASE EmitStreamUpdate
  BY <1>22 DEF EmitStreamUpdate, Emit, TypeInvariant, StateType, LoopType,
     BatchType
<1>23. CASE StreamFinish
  BY <1>23 DEF StreamFinish, TypeInvariant, StateType, LoopType, BatchType
<1>24. CASE EmitAssistantStart
  BY <1>24 DEF EmitAssistantStart, EmitMessageStart, Emit, TypeInvariant,
     StateType, LoopType, BatchType
<1>25. CASE EmitAssistantEnd
  <2>1. context = messages' /\ context' = context
    BY <1>25 DEF EmitAssistantEnd, MessageEnd
  <2>2. context \in Seq(Message)
    BY DEF TypeInvariant, LoopType
  <2>3. res' - 1 = 0 /\ context \o Results(batch', 0) = context
    BY <1>25, <2>2, NoResults DEF EmitAssistantEnd
  <2>4. pc' \in {"errorTurnEnd", "toolStart", "turnEnd", "failure"}
    BY <1>25 DEF EmitAssistantEnd, Emit, AfterResponse
  <2>. QED  BY <2>1, <2>3, <2>4
<1>26. CASE EmitToolStart
  BY <1>26 DEF EmitToolStart, Emit, TypeInvariant, StateType, LoopType,
     BatchType
<1>27. CASE PrepareImmediate
  BY <1>27 DEF PrepareImmediate, TypeInvariant, StateType, LoopType,
     BatchType
<1>28. CASE PreparePrepared
  BY <1>28 DEF PreparePrepared, TypeInvariant, StateType, LoopType,
     BatchType
<1>29. CASE EmitImmediateToolEnd
  BY <1>29 DEF EmitImmediateToolEnd, Emit, PendingAfterEnd, TypeInvariant,
     StateType, LoopType, BatchType
<1>30. CASE ParallelNextCall
  BY <1>30 DEF ParallelNextCall, LeavesLoop, TypeInvariant, StateType,
     LoopType, BatchType
<1>31. CASE LaunchTools
  BY <1>31 DEF LaunchTools, Launched, TypeInvariant, StateType, LoopType,
     BatchType
<1>32. CASE ToolsDone
  BY <1>32 DEF ToolsDone, TypeInvariant, StateType, LoopType, BatchType
<1>33. CASE ToolsRejected
  BY <1>33 DEF ToolsRejected, TypeInvariant, StateType, LoopType, BatchType
<1>34. CASE EmitResultStart
  BY <1>34 DEF EmitResultStart, EmitMessageStart, Emit, TypeInvariant,
     StateType, LoopType, BatchType
<1>35. CASE EmitResultEnd
  <2>1. messages = context \o Results(batch, res - 1)
    BY <1>35 DEF EmitResultEnd
  <2>2. res \in Nat \ {0} /\ batch \in Nat /\ context \in Seq(Message)
    BY <1>35 DEF EmitResultEnd, Positions, TypeInvariant, LoopType, BatchType
  <2>3. messages' = context \o Results(batch, res)
    BY <1>35, <2>1, <2>2, OneMoreResult DEF EmitResultEnd, MessageEnd
  <2>4. pc' \in {"resultStart", "sequentialCheck", "toolStart", "batchDone", "failure"}
    BY <1>35 DEF EmitResultEnd, Emit, TypeInvariant, BatchType
  <2>5. res' - 1 = res /\ batch' = batch /\ context' = context
    BY <1>35, <2>2 DEF EmitResultEnd
  <2>. QED  BY <2>3, <2>4, <2>5
<1>36. CASE SequentialCheck
  BY <1>36 DEF SequentialCheck, LeavesLoop, TypeInvariant, StateType,
     LoopType, BatchType
<1>37. CASE BatchDone
  BY <1>37 DEF BatchDone, TypeInvariant, StateType, LoopType, BatchType,
     Positions
<1>38. CASE EmitTurnEnd
  BY <1>38 DEF EmitTurnEnd, Emit, TypeInvariant, StateType, LoopType,
     BatchType
<1>39. CASE ShouldStopAfterTurn
  BY <1>39 DEF ShouldStopAfterTurn, TypeInvariant, StateType, LoopType,
     BatchType
<1>40. CASE SteeringPoll
  BY <1>40 DEF SteeringPoll, TypeInvariant, StateType, LoopType, BatchType
<1>41. CASE FollowUpPoll
  BY <1>41 DEF FollowUpPoll, TypeInvariant, StateType, LoopType, BatchType
<1>42. CASE EmitErrorTurnEnd
  BY <1>42 DEF EmitErrorTurnEnd, Emit, ErrorAfterTurnEnd, TypeInvariant,
     StateType, LoopType, BatchType
<1>43. CASE EmitAgentEnd
  BY <1>43 DEF EmitAgentEnd, Emit, TypeInvariant, StateType, LoopType,
     BatchType
<1>44. CASE EmitFailureStart
  BY <1>44 DEF EmitFailureStart, EmitFailure, TypeInvariant, StateType,
     LoopType, BatchType
<1>45. CASE EmitFailureEnd
  BY <1>45 DEF EmitFailureEnd, EmitFailure, MessageEnd, TypeInvariant,
     StateType, LoopType, BatchType
<1>46. CASE EmitFailureTurnEnd
  BY <1>46 DEF EmitFailureTurnEnd, EmitFailure, ErrorAfterTurnEnd,
     TypeInvariant, StateType, LoopType, BatchType
<1>47. CASE EmitFailureAgentEnd
  BY <1>47 DEF EmitFailureAgentEnd, EmitFailure, TypeInvariant, StateType,
     LoopType, BatchType
<1>48. CASE FinishRun
  BY <1>48 DEF FinishRun, TypeInvariant, StateType, LoopType, BatchType
<1>49. ASSUME NEW c \in CallId, ToolStep(c) \/ EmitToolUpdate(c)
      PROVE  ContextAgrees'
  <2>1. UNCHANGED <<loopVars, positionVars, messages>>
    BY <1>49 DEF ToolStep, ExecutedTool, EmitToolEnd, EmitToolUpdate
  <2>. QED  BY <2>1
<1>. QED
  BY <1>1, <1>2, <1>3, <1>4, <1>5, <1>6, <1>7, <1>8, <1>9, <1>10, <1>11,
     <1>12, <1>13, <1>14, <1>15, <1>16, <1>17, <1>18, <1>19, <1>20, <1>21,
     <1>22, <1>23, <1>24, <1>25, <1>26, <1>27, <1>28, <1>29, <1>30, <1>31,
     <1>32, <1>33, <1>34, <1>35, <1>36, <1>37, <1>38, <1>39, <1>40, <1>41,
     <1>42, <1>43, <1>44, <1>45, <1>46, <1>47, <1>48, <1>49 DEF Next,
     UserStep, StartStep, LoopStep, TurnStep, BatchStep, EndStep

\* The inductive invariant.
IndInv == TypeInvariant /\ Positions /\ ContextAgrees

\* A new Agent satisfies it.
LEMMA IndInvInit == Init => IndInv
<1>. SUFFICES ASSUME Init PROVE IndInv
  OBVIOUS
<1>. USE BoundsAssumption
<1>1. TypeInvariant
  <2>1. StateType
    BY EmptyType DEF Init, StateType
  <2>2. LoopType
    BY AssistantMessageType, EmptyType DEF Init, LoopType, PC
  <2>3. BatchType
    BY DEF Init, BatchType, ToolStatus
  <2>4. 0 \in 0..MaxRuns /\ 0 \in 0..MaxMessages /\ 0 \in Nat
    OBVIOUS
  <2>5. GhostType
    BY <2>4 DEF Init, GhostType
  <2>. QED  BY <2>1, <2>2, <2>3, <2>5 DEF TypeInvariant
<1>2. Positions
  BY DEF Init, Positions, BatchPCs, AssistantMessage
<1>3. ContextAgrees
  BY DEF Init, ContextAgrees, PromptPCs, AgreePCs, BatchPCs
<1>. QED  BY <1>1, <1>2, <1>3 DEF IndInv

\* Every step of the agent preserves it.
LEMMA IndInvStep == IndInv /\ [Next]_vars => IndInv'
<1>1. CASE Next
  BY <1>1, TypeStep, PositionsStep, ContextStep DEF IndInv
<1>2. CASE UNCHANGED vars
  <2>. USE <1>2 DEF vars, queueVars, statusVars, stateVars, flagVars, localVars,
       loopVars, positionVars, toolVars, counterVars, ghostVars
  <2>1. TypeInvariant => TypeInvariant'
    BY DEF TypeInvariant, StateType, LoopType, BatchType, GhostType
  <2>2. Positions => Positions'
    BY DEF Positions
  <2>3. ContextAgrees => ContextAgrees'
    BY DEF ContextAgrees
  <2>. QED  BY <2>1, <2>2, <2>3 DEF IndInv
<1>. QED  BY <1>1, <1>2

\* It holds in every reachable state.
LEMMA IndInvAlways == Spec => []IndInv
BY IndInvInit, IndInvStep, PTL DEF Spec

(* Type correctness of the agent and its loop, for every bound.            *)
THEOREM TypeCorrect == Spec => []TypeInvariant
<1>1. IndInv => TypeInvariant
  BY DEF IndInv
<1>. QED  BY <1>1, IndInvAlways, PTL

(* Every request is made with exactly the transcript, for every number of  *)
(* messages, runs, batches and calls, and whatever throws or aborts.       *)
THEOREM RequestsSeeTranscript == Spec => []RequestSeesTranscript
<1>1. IndInv => RequestSeesTranscript
  BY DEF IndInv, ContextAgrees, AgreePCs, RequestSeesTranscript
<1>. QED  BY <1>1, IndInvAlways, PTL

-----------------------------------------------------------------------------
(* Delivery: the invariant.                                                *)

\* What is delivered, then what the run has taken and will deliver.
Line == messages \o prompts \o pendingMessages

\* The steps that deliver what a poll took.
InjectPCs == {"turnStart", "injectStart", "injectEnd"}

\* A run holds prompts and pending messages only while it delivers them.
Taken ==
    /\ pc \notin PromptPCs \cup {"failure"} => prompts = <<>>
    /\ pc \notin InjectPCs \cup {"failure"} => pendingMessages = <<>>

\* Everything of s was submitted before everything of t in the same way.
Before(s, t) ==
    \A i \in DOMAIN s, j \in DOMAIN t :
        s[i].tag = t[j].tag /\ s[i].tag \in UserTags => s[i].id < t[j].id

Within(s, n) == \A i \in DOMAIN s : s[i].tag \in UserTags => s[i].id <= n

From(q, vias) == \A i \in DOMAIN q : q[i].role = "user" /\ q[i].tag \in vias

\* The queues hold user messages, the provider and the failure handler make
\* assistant messages.
Sources ==
    /\ From(steeringQueue, {"steer"}) /\ From(followUpQueue, {"followUp"})
    /\ From(prompts, UserTags) /\ From(pendingMessages, UserTags)
    /\ message.role = "assistant" /\ message.tag \in {"ok", "length", "error", "aborted"}

InOrder ==
    /\ Ordered(Line) /\ Ordered(steeringQueue) /\ Ordered(followUpQueue)
    /\ Before(Line, steeringQueue) /\ Before(Line, followUpQueue)
    /\ Within(Line, submitted) /\ Within(steeringQueue, submitted)
    /\ Within(followUpQueue, submitted)

Known == Ids(Line) \cup Ids(steeringQueue) \cup Ids(followUpQueue) \cup discarded

DeliveryInv == Taken /\ Sources /\ InOrder /\ 1..submitted \subseteq Known

-----------------------------------------------------------------------------
(* Sequences of messages.                                                  *)

\* Where an element of a concatenation comes from.
LEMMA ConcatParts ==
    ASSUME NEW s \in Seq(Message), NEW t \in Seq(Message)
    PROVE  /\ s \o t \in Seq(Message) /\ Len(s \o t) = Len(s) + Len(t)
           /\ DOMAIN s = 1..Len(s) /\ DOMAIN t = 1..Len(t)
           /\ DOMAIN (s \o t) = 1..(Len(s) + Len(t))
           /\ Len(s) \in Nat /\ Len(t) \in Nat
           /\ \A i \in DOMAIN s : i \in DOMAIN (s \o t) /\ (s \o t)[i] = s[i]
           /\ \A i \in DOMAIN t : /\ Len(s) + i \in DOMAIN (s \o t)
                                  /\ (s \o t)[Len(s) + i] = t[i]
           /\ \A i \in DOMAIN (s \o t) :
                 \/ i \in DOMAIN s /\ (s \o t)[i] = s[i]
                 \/ /\ i - Len(s) \in DOMAIN t /\ i > Len(s)
                    /\ (s \o t)[i] = t[i - Len(s)]
OBVIOUS

\* The ids of a concatenation.
LEMMA ConcatIds ==
    ASSUME NEW s \in Seq(Message), NEW t \in Seq(Message)
    PROVE  Ids(s \o t) = Ids(s) \cup Ids(t)
<1>. DEFINE u == s \o t
<1>1. /\ \A i \in DOMAIN s : i \in DOMAIN u /\ u[i] = s[i]
      /\ \A i \in DOMAIN t : Len(s) + i \in DOMAIN u /\ u[Len(s) + i] = t[i]
      /\ \A i \in DOMAIN u : \/ i \in DOMAIN s /\ u[i] = s[i]
                             \/ i - Len(s) \in DOMAIN t /\ u[i] = t[i - Len(s)]
  BY ConcatParts
<1>. HIDE DEF u
<1>2. Ids(s) \subseteq Ids(u)
  BY <1>1 DEF Ids
<1>3. Ids(t) \subseteq Ids(u)
  BY <1>1 DEF Ids
<1>4. Ids(u) \subseteq Ids(s) \cup Ids(t)
  <2>. SUFFICES ASSUME NEW i \in DOMAIN u, u[i].role = "user"
                PROVE  u[i].id \in Ids(s) \cup Ids(t)
    BY DEF Ids
  <2>. QED  BY <1>1 DEF Ids
<1>. QED  BY <1>2, <1>3, <1>4 DEF u

\* A concatenation is ordered when its parts are and the one is before the
\* other.
LEMMA ConcatOrdered ==
    ASSUME NEW s \in Seq(Message), NEW t \in Seq(Message)
    PROVE  Ordered(s \o t) <=> Ordered(s) /\ Ordered(t) /\ Before(s, t)
<1>. DEFINE u == s \o t
<1>1. /\ DOMAIN s = 1..Len(s) /\ DOMAIN t = 1..Len(t) /\ Len(s) \in Nat
      /\ \A i \in DOMAIN s : i \in DOMAIN u /\ u[i] = s[i]
      /\ \A i \in DOMAIN t : Len(s) + i \in DOMAIN u /\ u[Len(s) + i] = t[i]
      /\ \A i \in DOMAIN u :
            \/ i \in DOMAIN s /\ u[i] = s[i]
            \/ i - Len(s) \in DOMAIN t /\ i > Len(s) /\ u[i] = t[i - Len(s)]
      /\ DOMAIN u = 1..(Len(s) + Len(t)) /\ Len(t) \in Nat
  BY ConcatParts
<1>. HIDE DEF u
<1>2. ASSUME Ordered(u) PROVE Ordered(s)
  BY <1>1, <1>2 DEF Ordered
<1>3. ASSUME Ordered(u) PROVE Ordered(t)
  <2>. SUFFICES ASSUME NEW i \in DOMAIN t, NEW j \in DOMAIN t, i < j,
                       t[i].tag = t[j].tag, t[i].tag \in UserTags
                PROVE  t[i].id < t[j].id
    BY DEF Ordered
  <2>1. Len(s) + i < Len(s) + j
    BY <1>1
  <2>. QED  BY <1>1, <1>3, <2>1 DEF Ordered
<1>4. ASSUME Ordered(u) PROVE Before(s, t)
  <2>. SUFFICES ASSUME NEW i \in DOMAIN s, NEW j \in DOMAIN t,
                       s[i].tag = t[j].tag, s[i].tag \in UserTags
                PROVE  s[i].id < t[j].id
    BY DEF Before
  <2>1. i < Len(s) + j
    BY <1>1
  <2>. QED  BY <1>1, <1>4, <2>1 DEF Ordered
<1>5. ASSUME Ordered(s), Ordered(t), Before(s, t) PROVE Ordered(u)
  <2>. SUFFICES ASSUME NEW i \in DOMAIN u, NEW j \in DOMAIN u, i < j,
                       u[i].tag = u[j].tag, u[i].tag \in UserTags
                PROVE  u[i].id < u[j].id
    BY DEF Ordered
  <2>1. CASE i \in DOMAIN s /\ u[i] = s[i] /\ j \in DOMAIN s /\ u[j] = s[j]
    BY <1>5, <2>1 DEF Ordered
  <2>2. CASE /\ i \in DOMAIN s /\ u[i] = s[i]
             /\ j - Len(s) \in DOMAIN t /\ u[j] = t[j - Len(s)]
    BY <1>5, <2>2 DEF Before
  <2>3. CASE /\ i - Len(s) \in DOMAIN t /\ u[i] = t[i - Len(s)]
             /\ j - Len(s) \in DOMAIN t /\ u[j] = t[j - Len(s)]
    <3>1. i - Len(s) < j - Len(s)
      BY <1>1
    <3>. QED  BY <1>5, <2>3, <3>1 DEF Ordered
  <2>. QED  BY <1>1, <2>1, <2>2, <2>3
<1>. QED  BY <1>2, <1>3, <1>4, <1>5 DEF u

\* Before, Within and From of a concatenation are those of its parts.
LEMMA ConcatBefore ==
    ASSUME NEW s \in Seq(Message), NEW t \in Seq(Message), NEW r
    PROVE  /\ Before(s \o t, r) <=> Before(s, r) /\ Before(t, r)
           /\ Before(r, s \o t) <=> Before(r, s) /\ Before(r, t)
<1>. DEFINE u == s \o t
<1>1. /\ \A i \in DOMAIN s : i \in DOMAIN u /\ u[i] = s[i]
      /\ \A i \in DOMAIN t : Len(s) + i \in DOMAIN u /\ u[Len(s) + i] = t[i]
      /\ \A i \in DOMAIN u : \/ i \in DOMAIN s /\ u[i] = s[i]
                             \/ i - Len(s) \in DOMAIN t /\ u[i] = t[i - Len(s)]
  BY ConcatParts
<1>. HIDE DEF u
<1>2. Before(u, r) => Before(s, r) /\ Before(t, r)
  BY <1>1 DEF Before
<1>3. ASSUME Before(s, r), Before(t, r) PROVE Before(u, r)
  <2>. SUFFICES ASSUME NEW i \in DOMAIN u, NEW j \in DOMAIN r,
                       u[i].tag = r[j].tag, u[i].tag \in UserTags
                PROVE  u[i].id < r[j].id
    BY DEF Before
  <2>1. CASE i \in DOMAIN s /\ u[i] = s[i]
    BY <1>3, <2>1 DEF Before
  <2>2. CASE i - Len(s) \in DOMAIN t /\ u[i] = t[i - Len(s)]
    BY <1>3, <2>2 DEF Before
  <2>. QED  BY <1>1, <2>1, <2>2
<1>4. Before(r, u) => Before(r, s) /\ Before(r, t)
  BY <1>1, SMTT(30) DEF Before
<1>5. Before(r, s) /\ Before(r, t) => Before(r, u)
  BY <1>1 DEF Before
<1>. QED  BY <1>2, <1>3, <1>4, <1>5 DEF u

\* What bounds the identities of two sequences bounds those of their concatenation.
LEMMA ConcatWithin ==
    ASSUME NEW s \in Seq(Message), NEW t \in Seq(Message), NEW n
    PROVE  Within(s \o t, n) <=> Within(s, n) /\ Within(t, n)
<1>. DEFINE u == s \o t
<1>1. /\ \A i \in DOMAIN s : i \in DOMAIN u /\ u[i] = s[i]
      /\ \A i \in DOMAIN t : Len(s) + i \in DOMAIN u /\ u[Len(s) + i] = t[i]
      /\ \A i \in DOMAIN u : \/ i \in DOMAIN s /\ u[i] = s[i]
                             \/ i - Len(s) \in DOMAIN t /\ u[i] = t[i - Len(s)]
  BY ConcatParts
<1>. HIDE DEF u
<1>2. Within(u, n) => Within(s, n) /\ Within(t, n)
  BY <1>1 DEF Within
<1>3. Within(s, n) /\ Within(t, n) => Within(u, n)
  BY <1>1 DEF Within
<1>. QED  BY <1>2, <1>3 DEF u

\* A concatenation holds messages of some queues only if both its parts do.
LEMMA ConcatFrom ==
    ASSUME NEW s \in Seq(Message), NEW t \in Seq(Message), NEW vias
    PROVE  From(s \o t, vias) <=> From(s, vias) /\ From(t, vias)
<1>. DEFINE u == s \o t
<1>1. /\ \A i \in DOMAIN s : i \in DOMAIN u /\ u[i] = s[i]
      /\ \A i \in DOMAIN t : Len(s) + i \in DOMAIN u /\ u[Len(s) + i] = t[i]
      /\ \A i \in DOMAIN u : \/ i \in DOMAIN s /\ u[i] = s[i]
                             \/ i - Len(s) \in DOMAIN t /\ u[i] = t[i - Len(s)]
  BY ConcatParts
<1>. HIDE DEF u
<1>2. From(u, vias) => From(s, vias) /\ From(t, vias)
  BY <1>1 DEF From
<1>3. From(s, vias) /\ From(t, vias) => From(u, vias)
  BY <1>1 DEF From
<1>. QED  BY <1>2, <1>3 DEF u

\* All of this of the empty sequence.
LEMMA EmptyFacts ==
    ASSUME NEW r, NEW n, NEW vias
    PROVE  /\ Ids(<<>>) = {} /\ Ordered(<<>>) /\ Within(<<>>, n)
           /\ From(<<>>, vias) /\ Before(<<>>, r) /\ Before(r, <<>>)
BY DEF Ids, Ordered, Within, From, Before

\* All of this of a sequence of one message.
LEMMA SingleFacts ==
    ASSUME NEW m \in Message, NEW n, NEW vias
    PROVE  /\ <<m>> \in Seq(Message) /\ Ordered(<<m>>)
           /\ Ids(<<m>>) = IF m.role = "user" THEN {m.id} ELSE {}
           /\ Within(<<m>>, n) <=> (m.tag \in UserTags => m.id <= n)
           /\ From(<<m>>, vias) <=> m.role = "user" /\ m.tag \in vias
<1>1. DOMAIN <<m>> = {1} /\ <<m>>[1] = m /\ <<m>> \in Seq(Message)
  OBVIOUS
<1>2. Ids(<<m>>) = IF m.role = "user" THEN {m.id} ELSE {}
  BY <1>1 DEF Ids
<1>. QED  BY <1>1, <1>2 DEF Ordered, Within, From

\* Only user messages are ordered.
LEMMA SingleBefore ==
    ASSUME NEW m \in Message, m.tag \notin UserTags, NEW r
    PROVE  Before(<<m>>, r) /\ Before(r, <<m>>)
<1>1. DOMAIN <<m>> = {1} /\ <<m>>[1] = m
  OBVIOUS
<1>. QED  BY <1>1 DEF Before

\* Appending is concatenating one message.
LEMMA AppendConcat ==
    ASSUME NEW s \in Seq(Message), NEW m \in Message
    PROVE  Append(s, m) = s \o <<m>>
OBVIOUS

\* What a user message says of itself.
LEMMA UserFacts ==
    ASSUME NEW n \in Nat, NEW via \in UserTags
    PROVE  LET u == UserMessage(n, via) IN
           u \in Message /\ u.id = n /\ u.tag = via /\ u.role = "user"
BY UserMessageType DEF UserMessage, UserTags

\* The elements of a sequence of messages.
LEMMA ElementId ==
    ASSUME NEW s \in Seq(Message), NEW i \in DOMAIN s
    PROVE  s[i] \in Message /\ s[i].id \in Nat /\ s[i].calls \in Nat
<1>1. s[i] \in Message
  OBVIOUS
<1>. QED  BY <1>1 DEF Message

\* Draining splits a queue.
LEMMA DrainSplits ==
    ASSUME NEW q \in Seq(Message), NEW m
    PROVE  Drained(q, m) \o Remaining(q, m) = q
<1>1. CASE m = "all" \/ q = <<>>
  BY <1>1 DEF Drained, Remaining
<1>2. CASE ~(m = "all" \/ q = <<>>)
  <2>1. q = <<Head(q)>> \o Tail(q)
    BY <1>2
  <2>. QED  BY <1>2, <2>1 DEF Drained, Remaining
<1>. QED  BY <1>1, <1>2
-----------------------------------------------------------------------------
(* The moves.                                                              *)

\* Nothing moves.
Stays ==
    Line' = Line /\ UNCHANGED <<steeringQueue, followUpQueue, submitted, discarded>>

\* A user message is submitted: to a queue, or as the prompt of a new run.
Submits ==
    /\ submitted' = submitted + 1 /\ discarded' = discarded
    /\ \/ /\ steeringQueue' = Append(steeringQueue, UserMessage(submitted + 1, "steer"))
          /\ Line' = Line /\ followUpQueue' = followUpQueue
       \/ /\ followUpQueue' = Append(followUpQueue, UserMessage(submitted + 1, "followUp"))
          /\ Line' = Line /\ steeringQueue' = steeringQueue
       \/ /\ Line' = Append(Line, UserMessage(submitted + 1, "prompt"))
          /\ UNCHANGED queueVars

\* The run takes messages from one queue.
Takes ==
    /\ UNCHANGED <<submitted, discarded>>
    /\ \E m \in QueueModes :
        \/ /\ Line' = Line \o Drained(steeringQueue, m)
           /\ steeringQueue' = Remaining(steeringQueue, m)
           /\ followUpQueue' = followUpQueue
        \/ /\ Line' = Line \o Drained(followUpQueue, m)
           /\ followUpQueue' = Remaining(followUpQueue, m)
           /\ steeringQueue' = steeringQueue

\* An assistant message or a tool result joins the transcript.
Says ==
    /\ \E m \in Message : /\ m.role # "user" /\ m.tag \notin UserTags
                         /\ Line' = Append(Line, m)
    /\ UNCHANGED <<steeringQueue, followUpQueue, submitted, discarded>>

\* A queue is cleared.
Clears ==
    /\ Line' = Line /\ submitted' = submitted
    /\ \/ /\ steeringQueue' = <<>> /\ followUpQueue' = followUpQueue
          /\ discarded' = discarded \cup Ids(steeringQueue)
       \/ /\ followUpQueue' = <<>> /\ steeringQueue' = steeringQueue
          /\ discarded' = discarded \cup Ids(followUpQueue)

\* A failed run gives up what it has taken.
GivesUp ==
    /\ Line' = messages
    /\ discarded' = discarded \cup Ids(prompts) \cup Ids(pendingMessages)
    /\ UNCHANGED <<steeringQueue, followUpQueue, submitted>>

Forgets ==
    /\ Line' = <<>> /\ steeringQueue' = <<>> /\ followUpQueue' = <<>>
    /\ discarded' = 1..submitted /\ submitted' = submitted

\* When nothing is taken, the line is the transcript.
LEMMA LineIsTranscript ==
    ASSUME TypeInvariant, prompts = <<>>, pendingMessages = <<>>
    PROVE  Line = messages
BY DEF Line, TypeInvariant, StateType

\* The messages of the line.
LEMMA LineType ==
    ASSUME TypeInvariant
    PROVE  /\ Line \in Seq(Message) /\ messages \o prompts \in Seq(Message)
           /\ messages \in Seq(Message) /\ prompts \in Seq(Message)
           /\ pendingMessages \in Seq(Message)
           /\ steeringQueue \in Seq(Message) /\ followUpQueue \in Seq(Message)
BY ConcatType DEF Line, TypeInvariant, StateType, LoopType

\* Each step of the agent is one of the moves.
LEMMA LineStep ==
    ASSUME IndInv, Taken, Sources, Next
    PROVE  Stays \/ Submits \/ Takes \/ Says \/ Clears \/ GivesUp \/ Forgets
<1>. USE DEF queueVars, statusVars, stateVars, flagVars, localVars, loopVars,
             positionVars, toolVars, counterVars, ghostVars
<1>1. TypeInvariant /\ Positions
  BY DEF IndInv
<1>2. /\ messages \in Seq(Message) /\ prompts \in Seq(Message)
      /\ pendingMessages \in Seq(Message) /\ Line \in Seq(Message)
      /\ messages \o prompts \in Seq(Message)
      /\ steeringQueue \in Seq(Message) /\ followUpQueue \in Seq(Message)
  BY <1>1, LineType
<1>3. ASSUME UNCHANGED <<messages, prompts, pendingMessages, queueVars, submitted,
                         discarded>>
      PROVE  Stays
  BY <1>3 DEF Stays, Line
<1>4. CASE steer \/ followUp
  <2>1. Line' = Line
    BY <1>4 DEF steer, followUp, Line
  <2>. QED  BY <1>4, <2>1 DEF steer, followUp, Submits
<1>5. CASE clearSteeringQueue \/ clearFollowUpQueue
  <2>1. Line' = Line
    BY <1>5 DEF clearSteeringQueue, clearFollowUpQueue, Line
  <2>. QED  BY <1>5, <2>1 DEF clearSteeringQueue, clearFollowUpQueue, Clears
<1>6. CASE reset
  <2>1. prompts = <<>> /\ pendingMessages = <<>>
    BY <1>1, <1>6 DEF reset, Positions, Taken, PromptPCs, InjectPCs
  <2>2. Line' = <<>>
    BY <1>6, <2>1 DEF reset, Line
  <2>. QED  BY <1>6, <2>2 DEF reset, Forgets
<1>7. CASE StartStep
  <2>1. prompts = <<>> /\ pendingMessages = <<>> /\ Line = messages
    BY <1>1, <1>7, LineIsTranscript
       DEF StartStep, prompt, continueSteering, continueFollowUp, runContinuation,
           Positions, Taken, PromptPCs, InjectPCs
  <2>2. ASSUME NEW p \in Seq(Message), NEW skip, runWithLifecycle(p, skip)
        PROVE  Line' = Line \o p /\ discarded' = discarded
    <3>1. messages' = messages /\ prompts' = p /\ pendingMessages' = <<>>
      BY <2>1, <2>2 DEF runWithLifecycle
    <3>2. messages \o p \in Seq(Message) /\ (messages \o p) \o <<>> = messages \o p
      BY <1>2, ConcatType
    <3>. QED  BY <2>1, <2>2, <3>1, <3>2 DEF Line, runWithLifecycle
  <2>3. CASE prompt
    <3>. DEFINE u == UserMessage(submitted + 1, "prompt")
    <3>1. u \in Message /\ <<u>> \in Seq(Message) /\ Line \o <<u>> = Append(Line, u)
      BY <1>1, <1>2, UserMessageType DEF TypeInvariant, GhostType
    <3>. HIDE DEF u
    <3>2. runWithLifecycle(<<u>>, FALSE) /\ UNCHANGED queueVars
          /\ submitted' = submitted + 1
      BY <2>3 DEF prompt, u
    <3>3. Line' = Append(Line, u) /\ discarded' = discarded
      BY <2>2, <3>1, <3>2
    <3>. QED  BY <3>2, <3>3 DEF Submits, u
  <2>4. CASE continueSteering
    <3>1. PICK m \in QueueModes :
             /\ runWithLifecycle(Drained(steeringQueue, m), TRUE)
             /\ steeringQueue' = Remaining(steeringQueue, m)
      BY <2>4 DEF continueSteering
    <3>2. Drained(steeringQueue, m) \in Seq(Message)
      BY <1>2, DrainType
    <3>3. Line' = Line \o Drained(steeringQueue, m) /\ discarded' = discarded
      BY <2>2, <3>1, <3>2
    <3>. QED  BY <2>4, <3>1, <3>3 DEF continueSteering, Takes
  <2>5. CASE continueFollowUp
    <3>1. PICK m \in QueueModes :
             /\ runWithLifecycle(Drained(followUpQueue, m), FALSE)
             /\ followUpQueue' = Remaining(followUpQueue, m)
      BY <2>5 DEF continueFollowUp
    <3>2. Drained(followUpQueue, m) \in Seq(Message)
      BY <1>2, DrainType
    <3>3. Line' = Line \o Drained(followUpQueue, m) /\ discarded' = discarded
      BY <2>2, <3>1, <3>2
    <3>. QED  BY <2>5, <3>1, <3>3 DEF continueFollowUp, Takes
  <2>6. CASE runContinuation
    <3>1. runWithLifecycle(<<>>, FALSE) /\ UNCHANGED <<queueVars, submitted>>
      BY <2>6 DEF runContinuation
    <3>2. Line \o <<>> = Line
      BY <1>2
    <3>3. Line' = Line /\ discarded' = discarded
      BY <2>2, <3>1, <3>2, EmptyType
    <3>. QED  BY <3>1, <3>3 DEF Stays
  <2>. QED  BY <1>7, <2>3, <2>4, <2>5, <2>6 DEF StartStep
<1>8. CASE EmitPromptEnd
  <2>1. prompts # <<>> /\ pendingMessages = <<>>
    BY <1>1, <1>8 DEF EmitPromptEnd, Positions, Taken, InjectPCs
  <2>2. messages \o prompts = Append(messages, Head(prompts)) \o Tail(prompts)
    BY <1>2, <2>1, HeadTailConcat
  <2>3. Line' = Line
    BY <1>8, <2>2 DEF EmitPromptEnd, MessageEnd, Line
  <2>. QED  BY <1>8, <2>3 DEF EmitPromptEnd, Stays
<1>9. CASE EmitInjectEnd
  <2>1. prompts = <<>> /\ pendingMessages # <<>>
    BY <1>1, <1>9 DEF EmitInjectEnd, Positions, Taken, PromptPCs
  <2>2. /\ Head(pendingMessages) \in Message /\ Tail(pendingMessages) \in Seq(Message)
        /\ Append(messages, Head(pendingMessages)) \in Seq(Message)
    BY <1>2, <2>1, HeadTailType, AppendType
  <2>3. /\ messages \o prompts = messages
        /\ Append(messages, Head(pendingMessages)) \o <<>>
                = Append(messages, Head(pendingMessages))
    BY <1>2, <2>1, <2>2
  <2>4. messages \o pendingMessages
            = Append(messages, Head(pendingMessages)) \o Tail(pendingMessages)
    BY <1>2, <2>1, HeadTailConcat
  <2>5. Line' = Line
    BY <1>9, <2>1, <2>3, <2>4 DEF EmitInjectEnd, MessageEnd, Line
  <2>. QED  BY <1>9, <2>5 DEF EmitInjectEnd, Stays
<1>10. CASE InitialSteeringPoll \/ SteeringPoll \/ FollowUpPoll
  <2>1. prompts = <<>> /\ pendingMessages = <<>> /\ Line = messages
    BY <1>1, <1>10, LineIsTranscript DEF InitialSteeringPoll, SteeringPoll,
       FollowUpPoll, Taken, PromptPCs, InjectPCs
  <2>2. messages' = messages /\ prompts' = <<>> /\ messages \o <<>> = messages
    BY <1>2, <1>10, <2>1 DEF InitialSteeringPoll, SteeringPoll, FollowUpPoll
  <2>3. Line' = Line \o pendingMessages'
    BY <2>1, <2>2 DEF Line
  <2>4. UNCHANGED <<submitted, discarded>>
    BY <1>10 DEF InitialSteeringPoll, SteeringPoll, FollowUpPoll
  <2>5. CASE InitialSteeringPoll /\ skipInitialSteeringPoll
    <3>1. pendingMessages' = <<>> /\ UNCHANGED queueVars
      BY <2>5 DEF InitialSteeringPoll
    <3>2. Line' = Line
      BY <1>2, <2>3, <3>1
    <3>. QED  BY <2>4, <3>1, <3>2 DEF Stays
  <2>6. CASE InitialSteeringPoll /\ ~skipInitialSteeringPoll
    <3>1. followUpQueue' = followUpQueue
          /\ \E m \in QueueModes : /\ pendingMessages' = Drained(steeringQueue, m)
                                  /\ steeringQueue' = Remaining(steeringQueue, m)
      BY <2>6 DEF InitialSteeringPoll
    <3>. QED  BY <2>3, <2>4, <3>1 DEF Takes
  <2>7. CASE SteeringPoll
    BY <2>3, <2>4, <2>7 DEF SteeringPoll, Takes
  <2>8. CASE FollowUpPoll
    BY <2>3, <2>4, <2>8 DEF FollowUpPoll, Takes
  <2>. QED  BY <1>10, <2>5, <2>6, <2>7, <2>8
<1>11. CASE EmitAssistantEnd \/ EmitResultEnd \/ EmitFailureEnd
  <2>1. prompts = <<>> /\ pendingMessages = <<>> /\ Line = messages
    BY <1>1, <1>11, LineIsTranscript DEF EmitAssistantEnd, EmitResultEnd,
       EmitFailureEnd, Taken, PromptPCs, InjectPCs
  <2>2. PICK m \in Message : /\ m.role # "user" /\ m.tag \notin UserTags
                            /\ messages' = Append(messages, m)
    <3>1. CASE EmitAssistantEnd \/ EmitFailureEnd
      BY <1>1, <3>1 DEF EmitAssistantEnd, EmitFailureEnd, MessageEnd, Sources,
         TypeInvariant, LoopType, UserTags
    <3>2. CASE EmitResultEnd
      <4>1. createToolResultMessage(batch, res) \in Message
        BY <1>1, ResultType DEF TypeInvariant, BatchType
      <4>. QED
        BY <3>2, <4>1 DEF EmitResultEnd, MessageEnd, createToolResultMessage, UserTags
    <3>. QED  BY <1>11, <3>1, <3>2
  <2>3. /\ prompts' = <<>> /\ pendingMessages' = <<>>
        /\ UNCHANGED <<steeringQueue, followUpQueue, submitted, discarded>>
    BY <1>11, <2>1 DEF EmitAssistantEnd, EmitResultEnd, EmitFailureEnd
  <2>4. Append(messages, m) \in Seq(Message)
    BY <1>2, AppendType
  <2>5. Line' = Append(Line, m)
    BY <2>1, <2>2, <2>3, <2>4 DEF Line
  <2>. QED  BY <2>2, <2>3, <2>5 DEF Says
<1>12. CASE EmitFailureStart
  <2>1. messages' = messages /\ prompts' = <<>> /\ pendingMessages' = <<>>
    BY <1>12 DEF EmitFailureStart
  <2>2. Line' = messages
    BY <1>2, <2>1 DEF Line
  <2>. QED  BY <1>12, <2>2 DEF EmitFailureStart, GivesUp
<1>13. CASE FinishRun
  <2>1. prompts = <<>> /\ pendingMessages = <<>>
    BY <1>13 DEF FinishRun, Taken, PromptPCs, InjectPCs
  <2>. QED  BY <1>3, <1>13, <2>1 DEF FinishRun
<1>14. CASE \/ EmitAgentStart \/ EmitFirstTurnStart \/ EmitPromptStart
            \/ EmitTurnStart \/ EmitInjectStart \/ ProviderThrows \/ Request
            \/ EmitStreamStart \/ EmitStreamUpdate \/ StreamFinish
            \/ EmitAssistantStart \/ abort
  BY <1>3, <1>14 DEF EmitAgentStart, EmitFirstTurnStart, EmitPromptStart,
     EmitTurnStart, EmitInjectStart, ProviderThrows, Request, EmitStreamStart,
     EmitStreamUpdate, StreamFinish, EmitAssistantStart, abort, EmitMessageStart
<1>15. CASE BatchStep /\ ~EmitResultEnd
  BY <1>3, <1>15 DEF BatchStep, EmitToolStart, PrepareImmediate, PreparePrepared,
     EmitImmediateToolEnd, ParallelNextCall, LaunchTools, ToolsDone, ToolsRejected,
     EmitResultStart, SequentialCheck, BatchDone, EmitMessageStart
<1>16. CASE \/ EmitTurnEnd \/ ShouldStopAfterTurn \/ EmitErrorTurnEnd \/ EmitAgentEnd
            \/ EmitFailureTurnEnd \/ EmitFailureAgentEnd
  BY <1>3, <1>16 DEF EmitTurnEnd, ShouldStopAfterTurn, EmitErrorTurnEnd,
     EmitAgentEnd, EmitFailureTurnEnd, EmitFailureAgentEnd
<1>17. CASE \E c \in CallId : ToolStep(c) \/ EmitToolUpdate(c)
  BY <1>3, <1>17 DEF ToolStep, ExecutedTool, EmitToolEnd, EmitToolUpdate
<1>. QED
  BY <1>4, <1>5, <1>6, <1>7, <1>8, <1>9, <1>10, <1>11, <1>12, <1>13, <1>14,
     <1>15, <1>16, <1>17 DEF Next, UserStep, LoopStep, TurnStep, BatchStep, EndStep
-----------------------------------------------------------------------------
(* The delivery invariant is kept.                                         *)

\* A run lets go of what it has taken when it has delivered it, or fails.
LEMMA TakenStep ==
    ASSUME IndInv, Taken, Next
    PROVE  Taken'
<1>. USE DEF queueVars, statusVars, stateVars, flagVars, localVars, loopVars,
             positionVars, toolVars, counterVars, ghostVars
<1>. USE DEF Taken, PromptPCs, InjectPCs
<1>1. TypeInvariant /\ Positions
  BY DEF IndInv
<1>2. CASE UserStep \/ reset
  BY <1>2 DEF UserStep, reset, steer, followUp, clearSteeringQueue,
     clearFollowUpQueue, abort
<1>3. CASE StartStep
  <2>1. pc = "idle"
    BY <1>1, <1>3 DEF StartStep, prompt, continueSteering, continueFollowUp,
       runContinuation, Positions
  <2>2. pc' = "agentStart" /\ pendingMessages' = pendingMessages
    BY <1>3 DEF StartStep, prompt, continueSteering, continueFollowUp,
       runContinuation, runWithLifecycle
  <2>. QED  BY <2>1, <2>2
<1>4. CASE EmitAgentStart \/ EmitFirstTurnStart \/ EmitPromptStart
           \/ EmitTurnStart \/ EmitInjectStart
  BY <1>4 DEF EmitAgentStart, EmitFirstTurnStart, EmitPromptStart, EmitTurnStart,
     EmitInjectStart, EmitMessageStart, Emit, InjectOrRequest
<1>5. CASE EmitPromptEnd
  <2>1. ~(Len(prompts) > 1) => Tail(prompts) = <<>>
    BY <1>1, <1>5 DEF EmitPromptEnd, Positions, TypeInvariant, LoopType
  <2>. QED  BY <1>5, <2>1 DEF EmitPromptEnd, Emit
<1>6. CASE InitialSteeringPoll \/ EmitInjectEnd \/ SteeringPoll \/ FollowUpPoll
  BY <1>6 DEF InitialSteeringPoll, EmitInjectEnd, SteeringPoll, FollowUpPoll, Emit,
     InjectOrRequest
<1>7. CASE ProviderThrows \/ Request \/ EmitStreamStart \/ EmitStreamUpdate
           \/ StreamFinish \/ EmitAssistantStart \/ EmitAssistantEnd
  BY <1>7 DEF ProviderThrows, Request, EmitStreamStart, EmitStreamUpdate,
     StreamFinish, EmitAssistantStart, EmitAssistantEnd, EmitMessageStart, Emit,
     AfterResponse
<1>8. CASE BatchStep
  <2>1. UNCHANGED <<prompts, pendingMessages>> /\ pc \in BatchPCs
    BY <1>8 DEF BatchStep, EmitToolStart, PrepareImmediate, PreparePrepared,
       EmitImmediateToolEnd, ParallelNextCall, LaunchTools, ToolsDone,
       ToolsRejected, EmitResultStart, EmitResultEnd, SequentialCheck, BatchDone,
       EmitMessageStart, BatchPCs
  <2>. QED  BY <2>1 DEF BatchPCs
<1>9. CASE EmitTurnEnd \/ ShouldStopAfterTurn \/ EmitErrorTurnEnd \/ EmitAgentEnd
           \/ EmitFailureStart \/ EmitFailureEnd \/ EmitFailureTurnEnd
           \/ EmitFailureAgentEnd \/ FinishRun
  BY <1>9 DEF EmitTurnEnd, ShouldStopAfterTurn, EmitErrorTurnEnd, EmitAgentEnd,
     EmitFailureStart, EmitFailureEnd, EmitFailureTurnEnd, EmitFailureAgentEnd,
     FinishRun, Emit, EmitFailure
<1>10. CASE \E c \in CallId : ToolStep(c) \/ EmitToolUpdate(c)
  BY <1>10 DEF ToolStep, ExecutedTool, EmitToolEnd, EmitToolUpdate
<1>. QED
  BY <1>2, <1>3, <1>4, <1>5, <1>6, <1>7, <1>8, <1>9, <1>10
     DEF Next, LoopStep, TurnStep, EndStep

\* The head and the tail of a queue come from where the queue comes from.
LEMMA TailFrom ==
    ASSUME NEW q \in Seq(Message), q # <<>>, NEW vias, From(q, vias)
    PROVE  From(Tail(q), vias) /\ Head(q).role = "user"
<1>1. q = <<Head(q)>> \o Tail(q) /\ <<Head(q)>> \in Seq(Message)
      /\ Tail(q) \in Seq(Message) /\ Head(q) = q[1] /\ 1 \in DOMAIN q
  OBVIOUS
<1>2. From(Tail(q), vias)
  BY <1>1, ConcatFrom
<1>. QED  BY <1>1, <1>2 DEF From

\* So do both halves of a drained one.
LEMMA DrainFrom ==
    ASSUME NEW q \in Seq(Message), NEW m, NEW vias, From(q, vias)
    PROVE  From(Drained(q, m), vias) /\ From(Remaining(q, m), vias)
<1>1. Drained(q, m) \in Seq(Message) /\ Remaining(q, m) \in Seq(Message)
  BY DrainType
<1>2. From(Drained(q, m) \o Remaining(q, m), vias)
  BY DrainSplits
<1>. QED  BY <1>1, <1>2, ConcatFrom

\* Who may put a message where.
LEMMA SourcesStep ==
    ASSUME IndInv, Sources, Next
    PROVE  Sources'
<1>. USE DEF queueVars, statusVars, stateVars, flagVars, localVars, loopVars,
             positionVars, toolVars, counterVars, ghostVars
<1>1. TypeInvariant /\ Positions
  BY DEF IndInv
<1>2. /\ prompts \in Seq(Message) /\ pendingMessages \in Seq(Message)
      /\ steeringQueue \in Seq(Message) /\ followUpQueue \in Seq(Message)
      /\ submitted + 1 \in Nat
  BY <1>1 DEF TypeInvariant, StateType, LoopType, GhostType
<1>3. /\ From(steeringQueue, {"steer"}) /\ From(followUpQueue, {"followUp"})
      /\ From(prompts, UserTags) /\ From(pendingMessages, UserTags)
      /\ message.role = "assistant"
      /\ message.tag \in {"ok", "length", "error", "aborted"}
      /\ From(steeringQueue, UserTags) /\ From(followUpQueue, UserTags)
  BY DEF Sources, From, UserTags
<1>4. \A vias : From(<<>>, vias)
  BY EmptyFacts
<1>5. ASSUME NEW q \in Seq(Message), NEW via \in UserTags, From(q, {via})
      PROVE  From(Append(q, UserMessage(submitted + 1, via)), {via})
  <2>. DEFINE u == UserMessage(submitted + 1, via)
  <2>1. u \in Message /\ u.role = "user" /\ u.tag = via
    BY <1>2, UserFacts
  <2>. HIDE DEF u
  <2>2. <<u>> \in Seq(Message) /\ Append(q, u) = q \o <<u>> /\ From(<<u>>, {via})
    <3>1. From(<<u>>, {via}) /\ <<u>> \in Seq(Message)
      BY <2>1, SingleFacts
    <3>. QED  BY <2>1, <3>1, AppendConcat
  <2>3. From(Append(q, u), {via})
    BY <1>5, <2>2, ConcatFrom, ZenonT(60)
  <2>. QED  BY <2>3 DEF u
<1>6. CASE steer
  BY <1>2, <1>3, <1>5, <1>6 DEF steer, Sources, UserTags
<1>7. CASE followUp
  BY <1>2, <1>3, <1>5, <1>7 DEF followUp, Sources, UserTags
<1>8. CASE clearSteeringQueue \/ clearFollowUpQueue \/ abort \/ reset
  BY <1>3, <1>4, <1>8 DEF clearSteeringQueue, clearFollowUpQueue, abort, reset, Sources
<1>9. CASE prompt
  <2>1. /\ UserMessage(submitted + 1, "prompt") \in Message
        /\ UserMessage(submitted + 1, "prompt").role = "user"
        /\ UserMessage(submitted + 1, "prompt").tag \in UserTags
    BY <1>2, UserFacts DEF UserTags
  <2>2. From(<<UserMessage(submitted + 1, "prompt")>>, UserTags)
    BY <2>1, SingleFacts
  <2>. QED  BY <1>3, <1>9, <2>2 DEF prompt, runWithLifecycle, Sources
<1>10. CASE continueSteering \/ continueFollowUp \/ runContinuation
  BY <1>2, <1>3, <1>4, <1>10, DrainFrom DEF continueSteering, continueFollowUp,
     runContinuation, runWithLifecycle, Sources
<1>11. CASE EmitPromptEnd
  <2>1. From(Tail(prompts), UserTags)
    BY <1>1, <1>2, <1>3, <1>11, TailFrom DEF EmitPromptEnd, Positions
  <2>. QED  BY <1>3, <1>11, <2>1 DEF EmitPromptEnd, Sources
<1>12. CASE EmitInjectEnd
  <2>1. From(Tail(pendingMessages), UserTags)
    BY <1>1, <1>2, <1>3, <1>12, TailFrom DEF EmitInjectEnd, Positions
  <2>. QED  BY <1>3, <1>12, <2>1 DEF EmitInjectEnd, Sources
<1>13. CASE InitialSteeringPoll \/ SteeringPoll \/ FollowUpPoll
  BY <1>2, <1>3, <1>4, <1>13, DrainFrom DEF InitialSteeringPoll, SteeringPoll,
     FollowUpPoll, Sources
<1>14. CASE StreamFinish
  <2>1. message'.role = "assistant" /\ message'.tag \in {"ok", "length", "error", "aborted"}
    BY <1>14 DEF StreamFinish, AssistantMessage
  <2>. QED  BY <1>3, <1>14, <2>1 DEF StreamFinish, Sources
<1>15. CASE EmitFailureStart \/ FinishRun
  <2>1. message'.role = "assistant" /\ message'.tag \in {"ok", "length", "error", "aborted"}
    BY <1>15 DEF EmitFailureStart, FinishRun, AssistantMessage
  <2>. QED  BY <1>3, <1>4, <1>15, <2>1 DEF EmitFailureStart, FinishRun, Sources
<1>16. CASE \/ EmitAgentStart \/ EmitFirstTurnStart \/ EmitPromptStart
            \/ EmitTurnStart \/ EmitInjectStart \/ ProviderThrows \/ Request
            \/ EmitStreamStart \/ EmitStreamUpdate
            \/ EmitAssistantStart \/ EmitAssistantEnd
  BY <1>3, <1>16 DEF EmitAgentStart, EmitFirstTurnStart, EmitPromptStart,
     EmitTurnStart, EmitInjectStart, ProviderThrows, Request, EmitStreamStart,
     EmitStreamUpdate, EmitAssistantStart, EmitAssistantEnd, EmitMessageStart, Sources
<1>17. CASE BatchStep
  BY <1>3, <1>17 DEF BatchStep, EmitToolStart, PrepareImmediate, PreparePrepared,
     EmitImmediateToolEnd, ParallelNextCall, LaunchTools, ToolsDone, ToolsRejected,
     EmitResultStart, EmitResultEnd, SequentialCheck, BatchDone, EmitMessageStart,
     Sources
<1>18. CASE \/ EmitTurnEnd \/ ShouldStopAfterTurn \/ EmitErrorTurnEnd \/ EmitAgentEnd
            \/ EmitFailureEnd \/ EmitFailureTurnEnd \/ EmitFailureAgentEnd
  BY <1>3, <1>18 DEF EmitTurnEnd, ShouldStopAfterTurn, EmitErrorTurnEnd,
     EmitAgentEnd, EmitFailureEnd, EmitFailureTurnEnd, EmitFailureAgentEnd, Sources
<1>19. CASE \E c \in CallId : ToolStep(c) \/ EmitToolUpdate(c)
  BY <1>3, <1>19 DEF ToolStep, ExecutedTool, EmitToolEnd, EmitToolUpdate, Sources
<1>. QED
  BY <1>6, <1>7, <1>8, <1>9, <1>10, <1>11, <1>12, <1>13, <1>14, <1>15, <1>16,
     <1>17, <1>18, <1>19 DEF Next, UserStep, StartStep, LoopStep, TurnStep, EndStep

\* A move keeps the order in which messages were submitted.
LEMMA OrderStep ==
    ASSUME TypeInvariant, Sources, InOrder,
           Stays \/ Submits \/ Takes \/ Says \/ Clears \/ GivesUp \/ Forgets
    PROVE  InOrder'
<1>1. /\ Line \in Seq(Message) /\ messages \o prompts \in Seq(Message)
      /\ messages \in Seq(Message) /\ prompts \in Seq(Message)
      /\ pendingMessages \in Seq(Message)
      /\ steeringQueue \in Seq(Message) /\ followUpQueue \in Seq(Message)
      /\ submitted \in Nat
  BY LineType DEF TypeInvariant, GhostType
<1>2. \A r, n : /\ Ordered(<<>>) /\ Within(<<>>, n)
                /\ Before(<<>>, r) /\ Before(r, <<>>)
  BY EmptyFacts
<1>3. CASE Stays
  BY <1>3 DEF Stays, InOrder
<1>4. CASE Submits
  <2>1. ASSUME NEW s \in Seq(Message), Within(s, submitted)
        PROVE  Within(s, submitted + 1)
    <3>. SUFFICES ASSUME NEW i \in DOMAIN s, s[i].tag \in UserTags
                  PROVE  s[i].id <= submitted + 1
      BY DEF Within
    <3>1. s[i].id \in Nat
      BY ElementId
    <3>2. s[i].id <= submitted
      BY <2>1 DEF Within
    <3>. QED  BY <1>1, <3>1, <3>2
  <2>2. /\ Within(Line, submitted + 1) /\ Within(steeringQueue, submitted + 1)
        /\ Within(followUpQueue, submitted + 1)
    BY <1>1, <2>1 DEF InOrder
  <2>3. ASSUME NEW via \in UserTags
        PROVE  LET u == UserMessage(submitted + 1, via) IN
               /\ <<u>> \in Seq(Message) /\ Ordered(<<u>>)
               /\ Within(<<u>>, submitted + 1)
               /\ \A s \in Seq(Message) :
                    /\ Append(s, u) = s \o <<u>>
                    /\ Within(s, submitted) => Before(s, <<u>>)
                    /\ (\A i \in DOMAIN s : s[i].tag # via) => Before(<<u>>, s)
    <3>. DEFINE u == UserMessage(submitted + 1, via)
    <3>1. u \in Message /\ u.id = submitted + 1 /\ u.tag = via
      BY <1>1, UserFacts
    <3>. HIDE DEF u
    <3>2. <<u>> \in Seq(Message) /\ Ordered(<<u>>) /\ Within(<<u>>, submitted + 1)
      <4>1. u.id <= submitted + 1
        BY <1>1, <3>1
      <4>. QED  BY <3>1, <4>1, SingleFacts
    <3>3. DOMAIN <<u>> = {1} /\ <<u>>[1] = u
      OBVIOUS
    <3>4. ASSUME NEW s \in Seq(Message), Within(s, submitted)
          PROVE  Before(s, <<u>>)
      <4>. SUFFICES ASSUME NEW i \in DOMAIN s, s[i].tag \in UserTags
                    PROVE  s[i].id < u.id
        BY <3>3 DEF Before
      <4>1. s[i].id \in Nat
        BY ElementId
      <4>2. s[i].id <= submitted
        BY <3>4 DEF Within
      <4>. QED  BY <1>1, <3>1, <4>1, <4>2
    <3>5. ASSUME NEW s \in Seq(Message), \A i \in DOMAIN s : s[i].tag # via
          PROVE  Before(<<u>>, s)
      BY <3>1, <3>3, <3>5 DEF Before
    <3>6. \A s \in Seq(Message) : Append(s, u) = s \o <<u>>
      BY <3>1, AppendConcat
    <3>. QED  BY <3>2, <3>4, <3>5, <3>6 DEF u
  <2>4. CASE /\ steeringQueue' = Append(steeringQueue, UserMessage(submitted + 1, "steer"))
             /\ Line' = Line /\ followUpQueue' = followUpQueue
    <3>. DEFINE u == UserMessage(submitted + 1, "steer")
    <3>1. /\ <<u>> \in Seq(Message) /\ Ordered(<<u>>) /\ Within(<<u>>, submitted + 1)
          /\ Append(steeringQueue, u) = steeringQueue \o <<u>>
          /\ Before(steeringQueue, <<u>>) /\ Before(Line, <<u>>)
      BY <1>1, <2>3 DEF InOrder, UserTags
    <3>. HIDE DEF u
    <3>2. /\ Ordered(steeringQueue \o <<u>>) /\ Before(Line, steeringQueue \o <<u>>)
          /\ Within(steeringQueue \o <<u>>, submitted + 1)
      BY <1>1, <2>2, <3>1, ConcatOrdered, ConcatBefore, ConcatWithin DEF InOrder
    <3>3. steeringQueue' = steeringQueue \o <<u>>
      BY <2>4, <3>1 DEF u
    <3>. QED  BY <1>4, <2>2, <2>4, <3>2, <3>3 DEF InOrder, Submits
  <2>5. CASE /\ followUpQueue' = Append(followUpQueue, UserMessage(submitted + 1, "followUp"))
             /\ Line' = Line /\ steeringQueue' = steeringQueue
    <3>. DEFINE u == UserMessage(submitted + 1, "followUp")
    <3>1. /\ <<u>> \in Seq(Message) /\ Ordered(<<u>>) /\ Within(<<u>>, submitted + 1)
          /\ Append(followUpQueue, u) = followUpQueue \o <<u>>
          /\ Before(followUpQueue, <<u>>) /\ Before(Line, <<u>>)
      BY <1>1, <2>3 DEF InOrder, UserTags
    <3>. HIDE DEF u
    <3>2. /\ Ordered(followUpQueue \o <<u>>) /\ Before(Line, followUpQueue \o <<u>>)
          /\ Within(followUpQueue \o <<u>>, submitted + 1)
      BY <1>1, <2>2, <3>1, ConcatOrdered, ConcatBefore, ConcatWithin DEF InOrder
    <3>3. followUpQueue' = followUpQueue \o <<u>>
      BY <2>5, <3>1 DEF u
    <3>. QED  BY <1>4, <2>2, <2>5, <3>2, <3>3 DEF InOrder, Submits
  <2>6. CASE /\ Line' = Append(Line, UserMessage(submitted + 1, "prompt"))
             /\ UNCHANGED queueVars
    <3>. DEFINE u == UserMessage(submitted + 1, "prompt")
    <3>1. /\ \A i \in DOMAIN steeringQueue : steeringQueue[i].tag # "prompt"
          /\ \A i \in DOMAIN followUpQueue : followUpQueue[i].tag # "prompt"
      BY DEF Sources, From
    <3>2. /\ <<u>> \in Seq(Message) /\ Ordered(<<u>>) /\ Within(<<u>>, submitted + 1)
          /\ Append(Line, u) = Line \o <<u>> /\ Before(Line, <<u>>)
          /\ Before(<<u>>, steeringQueue) /\ Before(<<u>>, followUpQueue)
      BY <1>1, <2>3, <3>1 DEF InOrder, UserTags
    <3>. HIDE DEF u
    <3>3. /\ Ordered(Line \o <<u>>) /\ Within(Line \o <<u>>, submitted + 1)
          /\ Before(Line \o <<u>>, steeringQueue) /\ Before(Line \o <<u>>, followUpQueue)
      BY <1>1, <2>2, <3>2, ConcatOrdered, ConcatBefore, ConcatWithin DEF InOrder
    <3>4. Line' = Line \o <<u>>
      BY <2>6, <3>2 DEF u
    <3>. QED  BY <1>4, <2>2, <2>6, <3>3, <3>4 DEF InOrder, Submits, queueVars
  <2>. QED  BY <1>4, <2>4, <2>5, <2>6 DEF Submits
<1>5. CASE Takes
  <2>1. ASSUME NEW q \in Seq(Message), NEW p \in Seq(Message), NEW m,
               Before(Line, q), Before(Line, p), Ordered(q), Within(q, submitted),
               \A i \in DOMAIN q, j \in DOMAIN p : q[i].tag # p[j].tag
        PROVE  /\ Ordered(Line \o Drained(q, m)) /\ Ordered(Remaining(q, m))
               /\ Before(Line \o Drained(q, m), Remaining(q, m))
               /\ Before(Line \o Drained(q, m), p)
               /\ Within(Line \o Drained(q, m), submitted)
               /\ Within(Remaining(q, m), submitted)
    <3>. DEFINE d == Drained(q, m)
                r == Remaining(q, m)
    <3>1. d \in Seq(Message) /\ r \in Seq(Message) /\ d \o r = q
      BY <2>1, DrainType, DrainSplits
    <3>. HIDE DEF d, r
    <3>2. Before(q, p)
      BY <2>1 DEF Before
    <3>3. /\ Ordered(d \o r) /\ Before(Line, d \o r)
          /\ Before(d \o r, p) /\ Within(d \o r, submitted)
      BY <2>1, <3>1, <3>2
    <3>4. /\ Ordered(d) /\ Ordered(r) /\ Before(d, r)
          /\ Before(Line, d) /\ Before(Line, r) /\ Before(d, p)
          /\ Within(d, submitted) /\ Within(r, submitted)
      BY <3>1, <3>3, ConcatOrdered, ConcatBefore, ConcatWithin
    <3>5. Ordered(Line \o d) /\ Before(Line \o d, r) /\ Before(Line \o d, p)
          /\ Within(Line \o d, submitted)
      BY <1>1, <2>1, <3>1, <3>4, ConcatOrdered, ConcatBefore, ConcatWithin DEF InOrder
    <3>. QED  BY <3>4, <3>5 DEF d, r
  <2>2. /\ \A i \in DOMAIN steeringQueue : steeringQueue[i].tag = "steer"
        /\ \A i \in DOMAIN followUpQueue : followUpQueue[i].tag = "followUp"
    BY DEF Sources, From
  <2>3. PICK m \in QueueModes :
          \/ /\ Line' = Line \o Drained(steeringQueue, m)
             /\ steeringQueue' = Remaining(steeringQueue, m)
             /\ followUpQueue' = followUpQueue
          \/ /\ Line' = Line \o Drained(followUpQueue, m)
             /\ followUpQueue' = Remaining(followUpQueue, m)
             /\ steeringQueue' = steeringQueue
    BY <1>5 DEF Takes
  <2>4. submitted' = submitted
    BY <1>5 DEF Takes
  <2>5. CASE /\ Line' = Line \o Drained(steeringQueue, m)
             /\ steeringQueue' = Remaining(steeringQueue, m)
             /\ followUpQueue' = followUpQueue
    BY <1>1, <2>1, <2>2, <2>4, <2>5 DEF InOrder
  <2>6. CASE /\ Line' = Line \o Drained(followUpQueue, m)
             /\ followUpQueue' = Remaining(followUpQueue, m)
             /\ steeringQueue' = steeringQueue
    BY <1>1, <2>1, <2>2, <2>4, <2>6 DEF InOrder
  <2>. QED  BY <2>3, <2>5, <2>6
<1>6. CASE Says
  <2>1. PICK m \in Message : m.tag \notin UserTags /\ Line' = Append(Line, m)
    BY <1>6 DEF Says
  <2>2. /\ <<m>> \in Seq(Message) /\ Ordered(<<m>>) /\ Within(<<m>>, submitted)
        /\ Before(Line, <<m>>) /\ Before(<<m>>, steeringQueue)
        /\ Before(<<m>>, followUpQueue) /\ Append(Line, m) = Line \o <<m>>
    BY <1>1, <2>1, SingleFacts, SingleBefore, AppendConcat
  <2>3. /\ Ordered(Line \o <<m>>) /\ Within(Line \o <<m>>, submitted)
        /\ Before(Line \o <<m>>, steeringQueue) /\ Before(Line \o <<m>>, followUpQueue)
    BY <1>1, <2>2, ConcatOrdered, ConcatBefore, ConcatWithin DEF InOrder
  <2>. QED  BY <1>6, <2>1, <2>2, <2>3 DEF Says, InOrder
<1>7. CASE Clears \/ Forgets
  BY <1>2, <1>7 DEF Clears, Forgets, InOrder
<1>8. CASE GivesUp
  <2>1. /\ Ordered(messages) /\ Before(messages, steeringQueue)
        /\ Before(messages, followUpQueue) /\ Within(messages, submitted)
    BY <1>1, ConcatOrdered, ConcatBefore, ConcatWithin DEF Line, InOrder
  <2>. QED  BY <1>8, <2>1 DEF GivesUp, InOrder
<1>. QED  BY <1>3, <1>4, <1>5, <1>6, <1>7, <1>8

\* A move loses no message.
LEMMA KnownStep ==
    ASSUME TypeInvariant, 1..submitted \subseteq Known,
           Stays \/ Submits \/ Takes \/ Says \/ Clears \/ GivesUp \/ Forgets
    PROVE  (1..submitted \subseteq Known)'
<1>1. /\ Line \in Seq(Message) /\ messages \o prompts \in Seq(Message)
      /\ messages \in Seq(Message) /\ prompts \in Seq(Message)
      /\ pendingMessages \in Seq(Message)
      /\ steeringQueue \in Seq(Message) /\ followUpQueue \in Seq(Message)
      /\ submitted \in Nat
  BY LineType DEF TypeInvariant, GhostType
<1>2. Ids(<<>>) = {}
  BY EmptyFacts
<1>3. CASE Stays
  BY <1>3 DEF Stays, Known
<1>4. CASE Submits
  <2>1. ASSUME NEW q \in Seq(Message), NEW via \in UserTags
        PROVE  Ids(Append(q, UserMessage(submitted + 1, via)))
                   = Ids(q) \cup {submitted + 1}
    <3>. DEFINE u == UserMessage(submitted + 1, via)
    <3>1. u \in Message /\ u.id = submitted + 1 /\ u.role = "user"
      BY <1>1, UserFacts
    <3>. HIDE DEF u
    <3>2. /\ <<u>> \in Seq(Message) /\ Append(q, u) = q \o <<u>>
          /\ Ids(<<u>>) = {submitted + 1}
      BY <3>1, SingleFacts, AppendConcat
    <3>3. Ids(Append(q, u)) = Ids(q) \cup {submitted + 1}
      BY <3>2, ConcatIds
    <3>. QED  BY <3>3 DEF u
  <2>2. 1..submitted' \subseteq (1..submitted) \cup {submitted + 1}
    BY <1>1, <1>4 DEF Submits
  <2>3. Known' = Known \cup {submitted + 1}
    <3>1. /\ Ids(Append(steeringQueue, UserMessage(submitted + 1, "steer")))
                = Ids(steeringQueue) \cup {submitted + 1}
          /\ Ids(Append(followUpQueue, UserMessage(submitted + 1, "followUp")))
                = Ids(followUpQueue) \cup {submitted + 1}
          /\ Ids(Append(Line, UserMessage(submitted + 1, "prompt")))
                = Ids(Line) \cup {submitted + 1}
      BY <1>1, <2>1 DEF UserTags
    <3>2. /\ discarded' = discarded
          /\ \/ /\ Ids(Line)' = Ids(Line) \cup {submitted + 1}
                /\ UNCHANGED <<Ids(steeringQueue), Ids(followUpQueue)>>
             \/ /\ Ids(steeringQueue)' = Ids(steeringQueue) \cup {submitted + 1}
                /\ UNCHANGED <<Ids(Line), Ids(followUpQueue)>>
             \/ /\ Ids(followUpQueue)' = Ids(followUpQueue) \cup {submitted + 1}
                /\ UNCHANGED <<Ids(Line), Ids(steeringQueue)>>
      BY <1>4, <3>1 DEF Submits, queueVars
    <3>. QED  BY <3>2 DEF Known
  <2>. QED  BY <2>2, <2>3
<1>5. CASE Takes
  <2>1. ASSUME NEW q \in Seq(Message), NEW m
        PROVE  Ids(Line \o Drained(q, m)) \cup Ids(Remaining(q, m)) = Ids(Line) \cup Ids(q)
    <3>1. /\ Drained(q, m) \in Seq(Message) /\ Remaining(q, m) \in Seq(Message)
          /\ Drained(q, m) \o Remaining(q, m) = q
      BY DrainType, DrainSplits
    <3>2. Ids(Drained(q, m)) \cup Ids(Remaining(q, m)) = Ids(q)
      BY <3>1, ConcatIds
    <3>3. Ids(Line \o Drained(q, m)) = Ids(Line) \cup Ids(Drained(q, m))
      BY <1>1, <3>1, ConcatIds
    <3>. QED  BY <3>2, <3>3
  <2>2. Known' = Known
    <3>1. PICK m \in QueueModes :
            \/ /\ Line' = Line \o Drained(steeringQueue, m)
               /\ steeringQueue' = Remaining(steeringQueue, m)
               /\ followUpQueue' = followUpQueue
            \/ /\ Line' = Line \o Drained(followUpQueue, m)
               /\ followUpQueue' = Remaining(followUpQueue, m)
               /\ steeringQueue' = steeringQueue
      BY <1>5 DEF Takes
    <3>2. discarded' = discarded
      BY <1>5 DEF Takes
    <3>3. \/ /\ Ids(Line)' \cup Ids(steeringQueue)' = Ids(Line) \cup Ids(steeringQueue)
             /\ Ids(followUpQueue)' = Ids(followUpQueue)
          \/ /\ Ids(Line)' \cup Ids(followUpQueue)' = Ids(Line) \cup Ids(followUpQueue)
             /\ Ids(steeringQueue)' = Ids(steeringQueue)
      BY <1>1, <2>1, <3>1
    <3>. QED  BY <3>2, <3>3 DEF Known
  <2>. QED  BY <1>5, <2>2 DEF Takes
<1>6. CASE Says
  <2>1. PICK m \in Message : Line' = Append(Line, m)
    BY <1>6 DEF Says
  <2>2. <<m>> \in Seq(Message) /\ Line' = Line \o <<m>>
    BY <1>1, <2>1
  <2>3. Ids(Line) \subseteq Ids(Line')
    BY <1>1, <2>2, ConcatIds
  <2>4. Known \subseteq Known'
    BY <1>6, <2>3 DEF Says, Known
  <2>. QED  BY <1>6, <2>4 DEF Says
<1>7. CASE Clears
  <2>1. Known \subseteq Known'
    BY <1>2, <1>7 DEF Clears, Known
  <2>. QED  BY <1>7, <2>1 DEF Clears
<1>8. CASE GivesUp
  <2>1. Ids(Line) = Ids(messages) \cup Ids(prompts) \cup Ids(pendingMessages)
    <3>1. Ids(messages \o prompts) = Ids(messages) \cup Ids(prompts)
      BY <1>1, ConcatIds
    <3>2. Ids(Line) = Ids(messages \o prompts) \cup Ids(pendingMessages)
      BY <1>1, ConcatIds DEF Line
    <3>. QED  BY <3>1, <3>2
  <2>2. Known \subseteq Known'
    BY <1>8, <2>1 DEF GivesUp, Known
  <2>. QED  BY <1>8, <2>2 DEF GivesUp
<1>9. CASE Forgets
  BY <1>9 DEF Forgets, Known
<1>. QED  BY <1>3, <1>4, <1>5, <1>6, <1>7, <1>8, <1>9

\* The delivery invariant holds in every reachable state.
LEMMA DeliveryAlways == Spec => []DeliveryInv
<1>1. Init => DeliveryInv
  <2>. SUFFICES ASSUME Init PROVE DeliveryInv
    OBVIOUS
  <2>1. Taken /\ Sources
    BY EmptyFacts DEF Init, Taken, Sources, AssistantMessage
  <2>2. Line = <<>>
    BY DEF Init, Line
  <2>3. InOrder /\ 1..submitted \subseteq Known
    BY <2>2, EmptyFacts DEF Init, InOrder, Known
  <2>. QED  BY <2>1, <2>3 DEF DeliveryInv
<1>2. IndInv /\ DeliveryInv /\ [Next]_vars => DeliveryInv'
  <2>1. ASSUME IndInv, DeliveryInv, Next PROVE DeliveryInv'
    <3>1. Stays \/ Submits \/ Takes \/ Says \/ Clears \/ GivesUp \/ Forgets
      BY <2>1, LineStep DEF DeliveryInv
    <3>2. Taken' /\ Sources'
      BY <2>1, TakenStep, SourcesStep DEF DeliveryInv
    <3>3. InOrder' /\ (1..submitted \subseteq Known)'
      BY <2>1, <3>1, OrderStep, KnownStep DEF DeliveryInv, IndInv
    <3>. QED  BY <3>2, <3>3 DEF DeliveryInv
  <2>2. ASSUME DeliveryInv, UNCHANGED vars PROVE DeliveryInv'
    <3>. USE <2>2 DEF vars, queueVars, statusVars, stateVars, localVars, loopVars,
             counterVars, ghostVars
    <3>1. Line' = Line
      BY DEF Line
    <3>. QED  BY <3>1 DEF DeliveryInv, Taken, Sources, InOrder, Known
  <2>. QED  BY <2>1, <2>2
<1>. QED  BY <1>1, <1>2, IndInvAlways, PTL DEF Spec

(* Every user message is delivered at most once and in the order it was    *)
(* submitted, for any number of messages and runs, whatever the queues'    *)
(* modes, and whatever throws, is cleared or aborted.                      *)
THEOREM DeliveredInOrder == Spec => []DeliveredOnceInOrder
<1>1. ASSUME TypeInvariant, DeliveryInv PROVE DeliveredOnceInOrder
  <2>1. /\ Line \in Seq(Message) /\ steeringQueue \in Seq(Message)
        /\ followUpQueue \in Seq(Message) /\ Line \o steeringQueue \in Seq(Message)
    BY <1>1, LineType, ConcatType
  <2>2. Before(steeringQueue, followUpQueue)
    BY <1>1 DEF DeliveryInv, Sources, From, Before
  <2>3. Ordered((Line \o steeringQueue) \o followUpQueue)
    BY <1>1, <2>1, <2>2, ConcatOrdered, ConcatBefore DEF DeliveryInv, InOrder
  <2>. QED  BY <2>3 DEF DeliveredOnceInOrder, Line
<1>. QED  BY <1>1, IndInvAlways, DeliveryAlways, PTL DEF IndInv

(* No submitted message disappears: it is delivered, on its way or queued, *)
(* or a clear, a reset or a failed run dropped it.                         *)
THEOREM NothingLost == Spec => []NoMessageLost
<1>1. ASSUME TypeInvariant, DeliveryInv PROVE NoMessageLost
  <2>1. /\ Line \in Seq(Message) /\ steeringQueue \in Seq(Message)
        /\ followUpQueue \in Seq(Message) /\ Line \o steeringQueue \in Seq(Message)
    BY <1>1, LineType, ConcatType
  <2>2. Ids((Line \o steeringQueue) \o followUpQueue)
            = Ids(Line) \cup Ids(steeringQueue) \cup Ids(followUpQueue)
    BY <2>1, ConcatIds
  <2>. QED  BY <1>1, <2>2 DEF DeliveryInv, Known, NoMessageLost, Line
<1>. QED  BY <1>1, IndInvAlways, DeliveryAlways, PTL DEF IndInv

-----------------------------------------------------------------------------
(* Tool batches: the invariant.                                            *)

\* The steps between the provider's answer and its message_end.
ResponsePCs == {"assistantStart", "assistantEnd"}

\* The provider has asked for calls that the loop has not looked at.
Fresh == pc \in ResponsePCs /\ message.calls > 0

\* A batch is worked on right behind the assistant message that asks for it,
\* and only a message cut off by the token limit is truncated.
BatchHead ==
    /\ Fresh \/ pc \in BatchPCs => message.id = batch
    /\ pc = "failureEnd" => message.calls = 0
    /\ pc \in BatchPCs =>
        /\ message.tag = IF mode = "truncated" THEN "length" ELSE "ok"
        /\ context # <<>> /\ context[Len(context)] = message
    /\ pc \in {"prepare", "batchCheck", "awaitTools", "sequentialCheck"} =>
        mode # "truncated"

\* Assistant messages with calls have batch numbers of their own.
BatchesDiffer ==
    \A i \in DOMAIN messages :
        messages[i].role = "assistant" /\ messages[i].calls > 0 =>
            /\ messages[i].id \in 1..batch /\ messages[i].calls <= MaxCalls
            /\ Fresh => messages[i].id # batch
            /\ pc \in BatchPCs /\ messages[i].id = batch => messages[i] = message

\* No call was started before its batch.
ToolsFresh ==
    \A c \in CallId : c[1] > batch \/ (Fresh /\ c[1] = batch) => tool[c] = "none"

\* How idx and res go together in the three kinds of batches.
Progress ==
    /\ pc \in BatchPCs /\ mode = "parallel" =>
        /\ pc \in {"toolStart", "prepare", "toolEnd", "batchCheck", "awaitTools"} => res = 1
        /\ pc \in {"resultStart", "resultEnd"} => res <= idx
        /\ pc \in {"awaitTools", "resultStart", "resultEnd", "batchDone"} =>
            aborted \/ idx = message.calls
        /\ pc # "sequentialCheck"
    /\ pc \in BatchPCs /\ mode # "parallel" =>
        /\ pc \notin {"sequentialCheck", "batchDone"} => res = idx
        /\ pc = "batchDone" => aborted \/ idx = message.calls
        /\ pc # "batchCheck"
    /\ pc \in {"sequentialCheck", "batchDone"} => res = idx + 1

\* The calls of the i-th message have their results behind it.
Complete(s, i) ==
    s[i].role = "assistant" =>
        \A k \in 1..s[i].calls :
            /\ i + k <= Len(s)
            /\ s[i + k] = createToolResultMessage(s[i].id, k)

\* The steps at which no batch is open.
WholePCs == PromptPCs \cup AgreePCs \cup {"stream"} \cup ResponsePCs

AllComplete ==
    /\ base <= Len(messages) /\ (pc = "idle" => base = 0)
    /\ ~aborted /\ pc \in WholePCs =>
        \A i \in (base + 1)..Len(messages) : Complete(messages, i)
    /\ ~aborted /\ pc \in BatchPCs =>
        \A i \in (base + 1)..(Len(context) - 1) : Complete(messages, i)

BatchInv ==
    /\ BatchHead /\ BatchesDiffer /\ ToolsFresh /\ Progress /\ AllComplete
    /\ ToolResultsFollowCalls /\ TruncatedCallsNeverRun

-----------------------------------------------------------------------------
(* What a step does to the transcript and to the batch.                    *)

\* The steps that write the transcript.
LEMMA MessagesStep ==
    ASSUME IndInv, Sources, Next
    PROVE  \/ messages' = messages
           \/ reset
           \/ /\ EmitPromptEnd \/ EmitInjectEnd
              /\ \E m \in Message : m.role = "user" /\ messages' = Append(messages, m)
           \/ EmitAssistantEnd
           \/ EmitFailureEnd
           \/ EmitResultEnd
<1>. USE DEF queueVars, statusVars, stateVars, flagVars, localVars, loopVars,
             positionVars, toolVars, counterVars, ghostVars
<1>1. CASE EmitPromptEnd
  <2>1. prompts # <<>> /\ prompts \in Seq(Message) /\ From(prompts, UserTags)
    BY <1>1 DEF EmitPromptEnd, IndInv, Positions, TypeInvariant, LoopType, Sources
  <2>2. Head(prompts) \in Message /\ Head(prompts).role = "user"
    BY <2>1, HeadTailType, TailFrom
  <2>. QED  BY <1>1, <2>2 DEF EmitPromptEnd, MessageEnd
<1>2. CASE EmitInjectEnd
  <2>1. /\ pendingMessages # <<>> /\ pendingMessages \in Seq(Message)
        /\ From(pendingMessages, UserTags)
    BY <1>2 DEF EmitInjectEnd, IndInv, Positions, TypeInvariant, LoopType, Sources
  <2>2. Head(pendingMessages) \in Message /\ Head(pendingMessages).role = "user"
    BY <2>1, HeadTailType, TailFrom
  <2>. QED  BY <1>2, <2>2 DEF EmitInjectEnd, MessageEnd
<1>3. CASE UserStep \/ StartStep
  BY <1>3 DEF UserStep, StartStep, steer, followUp, clearSteeringQueue,
     clearFollowUpQueue, abort, prompt, continueSteering, continueFollowUp,
     runContinuation, runWithLifecycle
<1>4. CASE TurnStep /\ ~EmitPromptEnd /\ ~EmitInjectEnd /\ ~EmitAssistantEnd
  BY <1>4 DEF TurnStep, EmitAgentStart, EmitFirstTurnStart, EmitPromptStart,
     InitialSteeringPoll, EmitTurnStart, EmitInjectStart, ProviderThrows, Request,
     EmitStreamStart, EmitStreamUpdate, StreamFinish, EmitAssistantStart,
     EmitMessageStart
<1>5. CASE BatchStep /\ ~EmitResultEnd
  BY <1>5 DEF BatchStep, EmitToolStart, PrepareImmediate, PreparePrepared,
     EmitImmediateToolEnd, ParallelNextCall, LaunchTools, ToolsDone, ToolsRejected,
     EmitResultStart, SequentialCheck, BatchDone, EmitMessageStart
<1>6. CASE EndStep /\ ~EmitFailureEnd
  BY <1>6 DEF EndStep, EmitTurnEnd, ShouldStopAfterTurn, SteeringPoll, FollowUpPoll,
     EmitErrorTurnEnd, EmitAgentEnd, EmitFailureStart, EmitFailureTurnEnd,
     EmitFailureAgentEnd, FinishRun
<1>7. CASE \E c \in CallId : ToolStep(c) \/ EmitToolUpdate(c)
  BY <1>7 DEF ToolStep, ExecutedTool, EmitToolEnd, EmitToolUpdate
<1>. QED
  BY <1>1, <1>2, <1>3, <1>4, <1>5, <1>6, <1>7 DEF Next, LoopStep

\* Only the provider's answer opens a batch and only its message_end begins
\* the work on it; every other step leaves the batch or goes on with it.
LEMMA PhaseStep ==
    ASSUME IndInv, Next
    PROVE  \/ StreamFinish
           \/ EmitAssistantEnd
           \/ /\ batch' = batch
              /\ pc' \in ResponsePCs => pc \in ResponsePCs /\ message' = message
              /\ pc' \in BatchPCs =>
                    /\ pc \in BatchPCs /\ message' = message
                    /\ mode' = mode /\ context' = context
              /\ pc' \in WholePCs => pc \in WholePCs \/ BatchDone \/ StartStep
<1>. USE DEF queueVars, statusVars, stateVars, flagVars, localVars, loopVars,
             positionVars, toolVars, counterVars, ghostVars
<1>. USE DEF ResponsePCs, BatchPCs, WholePCs, PromptPCs, AgreePCs
<1>1. CASE UserStep \/ reset
  BY <1>1 DEF UserStep, reset, steer, followUp, clearSteeringQueue,
     clearFollowUpQueue, abort
<1>2. CASE StartStep
  <2>1. pc' = "agentStart" /\ batch' = batch
    BY <1>2 DEF StartStep, prompt, continueSteering, continueFollowUp,
       runContinuation, runWithLifecycle
  <2>. QED  BY <1>2, <2>1
<1>3. CASE EmitAgentStart \/ EmitFirstTurnStart \/ EmitPromptStart \/ EmitPromptEnd
           \/ InitialSteeringPoll
  BY <1>3 DEF EmitAgentStart, EmitFirstTurnStart, EmitPromptStart, EmitPromptEnd,
     InitialSteeringPoll, EmitMessageStart, Emit, InjectOrRequest
<1>4. CASE EmitTurnStart \/ EmitInjectStart \/ EmitInjectEnd \/ ProviderThrows
           \/ Request \/ EmitStreamStart \/ EmitStreamUpdate \/ EmitAssistantStart
  BY <1>4 DEF EmitTurnStart, EmitInjectStart, EmitInjectEnd, ProviderThrows, Request,
     EmitStreamStart, EmitStreamUpdate, EmitAssistantStart, EmitMessageStart, Emit,
     InjectOrRequest
<1>5. CASE EmitToolStart \/ PrepareImmediate \/ PreparePrepared
           \/ EmitImmediateToolEnd \/ ParallelNextCall \/ LaunchTools
  BY <1>5 DEF EmitToolStart, PrepareImmediate, PreparePrepared,
     EmitImmediateToolEnd, ParallelNextCall, LaunchTools, Emit
<1>6. CASE ToolsDone \/ ToolsRejected \/ EmitResultStart \/ SequentialCheck
           \/ BatchDone
  BY <1>6 DEF ToolsDone, ToolsRejected, EmitResultStart, SequentialCheck, BatchDone,
     EmitMessageStart, Emit
<1>7. CASE EmitResultEnd
  <2>1. pc' \in {"resultStart", "sequentialCheck", "toolStart", "batchDone", "failure"}
    BY <1>7 DEF EmitResultEnd, Emit, IndInv, TypeInvariant, BatchType
  <2>. QED  BY <1>7, <2>1 DEF EmitResultEnd
<1>8. CASE EndStep
  BY <1>8 DEF EndStep, EmitTurnEnd, ShouldStopAfterTurn, SteeringPoll, FollowUpPoll,
     EmitErrorTurnEnd, EmitAgentEnd, EmitFailureStart, EmitFailureEnd,
     EmitFailureTurnEnd, EmitFailureAgentEnd, FinishRun, Emit, EmitFailure
<1>9. CASE \E c \in CallId : ToolStep(c) \/ EmitToolUpdate(c)
  BY <1>9 DEF ToolStep, ExecutedTool, EmitToolEnd, EmitToolUpdate
<1>. QED
  BY <1>1, <1>2, <1>3, <1>4, <1>5, <1>6, <1>7, <1>8, <1>9
     DEF Next, LoopStep, TurnStep, BatchStep

\* A call that is not running stays so, except for the one being started.
LEMMA ToolsStep ==
    ASSUME IndInv, Next
    PROVE  /\ \A c \in CallId : tool[c] = "none" =>
                 tool'[c] = "none" \/ (pc \in BatchPCs /\ c = Call(idx))
           /\ \A c \in CallId : tool[c] \in {"none", "done"} =>
                 tool'[c] \in {"none", "done"} \/ (pc = "prepare" /\ c = Call(idx))
<1>. USE DEF queueVars, statusVars, stateVars, flagVars, localVars, loopVars,
             positionVars, toolVars, counterVars, ghostVars
<1>0. tool \in [CallId -> ToolStatus]
  BY DEF IndInv, TypeInvariant, BatchType
<1>1. CASE UserStep \/ reset \/ StartStep
  BY <1>1 DEF UserStep, reset, StartStep, steer, followUp, clearSteeringQueue,
     clearFollowUpQueue, abort, prompt, continueSteering, continueFollowUp,
     runContinuation, runWithLifecycle
<1>2. CASE TurnStep
  BY <1>2 DEF TurnStep, EmitAgentStart, EmitFirstTurnStart, EmitPromptStart,
     EmitPromptEnd, InitialSteeringPoll, EmitTurnStart, EmitInjectStart,
     EmitInjectEnd, ProviderThrows, Request, EmitStreamStart, EmitStreamUpdate,
     StreamFinish, EmitAssistantStart, EmitAssistantEnd, EmitMessageStart
<1>3. CASE PreparePrepared \/ EmitImmediateToolEnd
  BY <1>0, <1>3 DEF PreparePrepared, EmitImmediateToolEnd, BatchPCs
<1>4. CASE LaunchTools
  BY <1>0, <1>4 DEF LaunchTools, Launched
<1>5. CASE BatchStep /\ ~PreparePrepared /\ ~EmitImmediateToolEnd /\ ~LaunchTools
  BY <1>5 DEF BatchStep, EmitToolStart, PrepareImmediate, ParallelNextCall, ToolsDone,
     ToolsRejected, EmitResultStart, EmitResultEnd, SequentialCheck, BatchDone,
     EmitMessageStart
<1>6. CASE EndStep
  BY <1>6 DEF EndStep, EmitTurnEnd, ShouldStopAfterTurn, SteeringPoll, FollowUpPoll,
     EmitErrorTurnEnd, EmitAgentEnd, EmitFailureStart, EmitFailureEnd,
     EmitFailureTurnEnd, EmitFailureAgentEnd, FinishRun
<1>7. ASSUME NEW d \in CallId, ToolStep(d) \/ EmitToolUpdate(d)
      PROVE  \A c \in CallId : tool[c] \in {"none", "done"} => tool'[c] = tool[c]
  BY <1>0, <1>7 DEF ToolStep, ExecutedTool, EmitToolEnd, EmitToolUpdate
<1>. QED  BY <1>1, <1>2, <1>3, <1>4, <1>5, <1>6, <1>7 DEF Next, LoopStep

-----------------------------------------------------------------------------
(* The batch invariant is kept.                                            *)

\* How the assistant message, its batch and its mode go together.
LEMMA BatchHeadStep ==
    ASSUME IndInv, Sources, BatchHead, Next
    PROVE  BatchHead'
<1>. USE DEF queueVars, statusVars, stateVars, flagVars, localVars, loopVars,
             positionVars, toolVars, counterVars, ghostVars
<1>1. CASE StreamFinish
  <2>1. pc' \in ResponsePCs /\ (message'.calls > 0 => message'.id = batch')
    BY <1>1 DEF StreamFinish, AssistantMessage, ResponsePCs
  <2>. QED  BY <2>1 DEF BatchHead, Fresh, ResponsePCs, BatchPCs
<1>2. CASE EmitAssistantEnd
  <2>1. /\ pc' \in {"errorTurnEnd", "toolStart", "turnEnd", "failure"}
        /\ message' = message /\ context' = context /\ batch' = batch
        /\ mode' \in BatchModes(message) /\ pc = "assistantEnd"
    BY <1>2 DEF EmitAssistantEnd, Emit, AfterResponse
  <2>2. pc' = "toolStart" => message.tag \notin {"error", "aborted"} /\ message.calls > 0
    BY <1>2 DEF EmitAssistantEnd, Emit, AfterResponse
  <2>3. pc' = "toolStart" => message.id = batch
    BY <2>1, <2>2 DEF BatchHead, Fresh, ResponsePCs
  <2>4. pc' = "toolStart" => message.tag = IF mode' = "truncated" THEN "length" ELSE "ok"
    BY <2>1, <2>2, ModesAssumption DEF BatchModes, Sources
  <2>5. context # <<>> /\ context[Len(context)] = message
    <3>1. context = Append(messages, message) /\ messages \in Seq(Message)
          /\ message \in Message
      BY <2>1 DEF IndInv, ContextAgrees, TypeInvariant, StateType, LoopType
    <3>. QED  BY <3>1, NonEmpty
  <2>. QED  BY <2>1, <2>3, <2>4, <2>5 DEF BatchHead, Fresh, ResponsePCs, BatchPCs
<1>3. CASE ~StreamFinish /\ ~EmitAssistantEnd
  <2>1. /\ batch' = batch
        /\ pc' \in ResponsePCs => pc \in ResponsePCs /\ message' = message
        /\ pc' \in BatchPCs =>
              /\ pc \in BatchPCs /\ message' = message
              /\ mode' = mode /\ context' = context
    BY <1>3, PhaseStep
  <2>2. pc' = "failureEnd" => message'.calls = 0
    <3>1. pc' = "failureEnd" => EmitFailureStart \/ (pc = "failureEnd" /\ message' = message)
      <4>1. CASE UserStep \/ reset
        BY <4>1 DEF UserStep, reset, steer, followUp, clearSteeringQueue,
           clearFollowUpQueue, abort
      <4>2. CASE StartStep
        BY <4>2 DEF StartStep, prompt, continueSteering, continueFollowUp,
           runContinuation, runWithLifecycle
      <4>3. CASE TurnStep
        BY <4>3 DEF TurnStep, EmitAgentStart, EmitFirstTurnStart, EmitPromptStart,
           EmitPromptEnd, InitialSteeringPoll, EmitTurnStart, EmitInjectStart,
           EmitInjectEnd, ProviderThrows, Request, EmitStreamStart,
           EmitStreamUpdate, StreamFinish, EmitAssistantStart, EmitAssistantEnd,
           EmitMessageStart, Emit, InjectOrRequest, AfterResponse
      <4>4. CASE BatchStep /\ ~EmitResultEnd
        BY <4>4 DEF BatchStep, EmitToolStart, PrepareImmediate, PreparePrepared,
           EmitImmediateToolEnd, ParallelNextCall, LaunchTools, ToolsDone,
           ToolsRejected, EmitResultStart, SequentialCheck, BatchDone,
           EmitMessageStart, Emit
      <4>5. CASE EmitResultEnd
        BY <4>5 DEF EmitResultEnd, Emit, IndInv, TypeInvariant, BatchType
      <4>6. CASE EndStep
        BY <4>6 DEF EndStep, EmitTurnEnd, ShouldStopAfterTurn, SteeringPoll,
           FollowUpPoll, EmitErrorTurnEnd, EmitAgentEnd, EmitFailureStart,
           EmitFailureEnd, EmitFailureTurnEnd, EmitFailureAgentEnd, FinishRun, Emit,
           EmitFailure
      <4>7. CASE \E c \in CallId : ToolStep(c) \/ EmitToolUpdate(c)
        BY <4>7 DEF ToolStep, ExecutedTool, EmitToolEnd, EmitToolUpdate
      <4>. QED  BY <4>1, <4>2, <4>3, <4>4, <4>5, <4>6, <4>7 DEF Next, LoopStep
    <3>2. EmitFailureStart => message'.calls = 0
      BY DEF EmitFailureStart, AssistantMessage
    <3>. QED  BY <3>1, <3>2 DEF BatchHead
  <2>3. pc' \in {"prepare", "batchCheck", "awaitTools", "sequentialCheck"} =>
            mode # "truncated"
    <3>1. CASE pc' = pc
      BY <3>1 DEF BatchHead
    <3>2. CASE BatchStep
      BY <3>2 DEF BatchStep, EmitToolStart, PrepareImmediate, PreparePrepared,
         EmitImmediateToolEnd, ParallelNextCall, LaunchTools, ToolsDone,
         ToolsRejected, EmitResultStart, EmitResultEnd, SequentialCheck, BatchDone,
         EmitMessageStart, Emit, BatchHead, IndInv, TypeInvariant, BatchType
    <3>3. CASE pc' \in BatchPCs /\ ~BatchStep
      <4>1. pc \in BatchPCs
        BY <2>1, <3>3
      <4>2. CASE UserStep \/ reset \/ StartStep
        <5>1. ~StartStep
          BY <4>1 DEF StartStep, prompt, continueSteering, continueFollowUp,
             runContinuation, IndInv, Positions, BatchPCs
        <5>. QED  BY <3>1, <4>2, <5>1 DEF UserStep, reset, steer, followUp,
                     clearSteeringQueue, clearFollowUpQueue, abort
      <4>3. CASE TurnStep
        BY <4>1, <4>3 DEF TurnStep, EmitAgentStart, EmitFirstTurnStart,
           EmitPromptStart, EmitPromptEnd, InitialSteeringPoll, EmitTurnStart,
           EmitInjectStart, EmitInjectEnd, ProviderThrows, Request, EmitStreamStart,
           EmitStreamUpdate, StreamFinish, EmitAssistantStart, EmitAssistantEnd,
           EmitMessageStart, BatchPCs
      <4>4. CASE EndStep
        BY <4>1, <4>4 DEF EndStep, EmitTurnEnd, ShouldStopAfterTurn, SteeringPoll,
           FollowUpPoll, EmitErrorTurnEnd, EmitAgentEnd, EmitFailureStart,
           EmitFailureEnd, EmitFailureTurnEnd, EmitFailureAgentEnd, FinishRun,
           BatchPCs
      <4>5. CASE \E c \in CallId : ToolStep(c) \/ EmitToolUpdate(c)
        BY <3>1, <4>5 DEF ToolStep, ExecutedTool, EmitToolEnd, EmitToolUpdate
      <4>. QED  BY <3>3, <4>2, <4>3, <4>4, <4>5 DEF Next, LoopStep
    <3>. QED  BY <3>2, <3>3 DEF BatchPCs
  <2>. QED  BY <2>1, <2>2, <2>3 DEF BatchHead, Fresh, BatchPCs
<1>. QED  BY <1>1, <1>2, <1>3

\* Growing the transcript by one message.
LEMMA AppendElements ==
    ASSUME NEW s \in Seq(Message), NEW m \in Message
    PROVE  /\ Len(Append(s, m)) = Len(s) + 1 /\ Len(s) \in Nat
           /\ DOMAIN s = 1..Len(s) /\ DOMAIN Append(s, m) = 1..(Len(s) + 1)
           /\ Append(s, m)[Len(s) + 1] = m
           /\ \A i \in DOMAIN s : Append(s, m)[i] = s[i]
           /\ \A i \in DOMAIN Append(s, m) : i \in DOMAIN s \/ i = Len(s) + 1
OBVIOUS

\* Each batch has a number of its own.
LEMMA BatchesDifferStep ==
    ASSUME IndInv, Sources, BatchHead, BatchesDiffer, Next
    PROVE  BatchesDiffer'
<1>. USE DEF queueVars, statusVars, stateVars, flagVars, localVars, loopVars,
             positionVars, toolVars, counterVars, ghostVars
<1>1. /\ messages \in Seq(Message) /\ batch \in Nat /\ message \in Message
      /\ message.calls \in Nat /\ res \in Nat
  BY DEF IndInv, TypeInvariant, StateType, LoopType, BatchType, Message
<1>2. \A i \in DOMAIN messages : messages[i].id \in Nat
  BY <1>1, ElementId
<1>3. CASE StreamFinish
  <2>1. /\ messages' = messages /\ pc' \in ResponsePCs
        /\ batch' = batch \/ batch' = batch + 1
        /\ message'.calls > 0 => batch' = batch + 1
    BY <1>3 DEF StreamFinish, AssistantMessage, ResponsePCs
  <2>. QED  BY <1>1, <1>2, <2>1 DEF BatchesDiffer, Fresh, ResponsePCs, BatchPCs
<1>4. CASE EmitAssistantEnd
  <2>1. /\ messages' = Append(messages, message) /\ message' = message
        /\ batch' = batch /\ pc = "assistantEnd"
        /\ pc' \in {"errorTurnEnd", "toolStart", "turnEnd", "failure"}
    BY <1>4 DEF EmitAssistantEnd, MessageEnd, Emit, AfterResponse
  <2>2. /\ message.calls <= MaxCalls
        /\ message.calls > 0 => batch > 0 /\ message.id = batch /\ Fresh
    BY <2>1 DEF IndInv, Positions, BatchHead, Fresh, ResponsePCs
  <2>3. ~Fresh'
    BY <2>1 DEF Fresh, ResponsePCs
  <2>4. pc' \in BatchPCs => message.calls > 0
    BY <1>4 DEF EmitAssistantEnd, Emit, AfterResponse, BatchPCs
  <2>. SUFFICES ASSUME NEW i \in DOMAIN messages',
                       messages'[i].role = "assistant" /\ messages'[i].calls > 0
                PROVE  /\ messages'[i].id \in 1..batch /\ messages'[i].calls <= MaxCalls
                       /\ pc' \in BatchPCs /\ messages'[i].id = batch =>
                            messages'[i] = message
    BY <2>1, <2>3 DEF BatchesDiffer
  <2>5. CASE i \in DOMAIN messages /\ messages'[i] = messages[i]
    BY <2>2, <2>4, <2>5 DEF BatchesDiffer
  <2>6. CASE messages'[i] = message
    BY <1>1, <2>2, <2>6
  <2>. QED  BY <1>1, <2>1, <2>5, <2>6, AppendElements
<1>5. CASE ~StreamFinish /\ ~EmitAssistantEnd
  <2>1. /\ batch' = batch
        /\ Fresh' => Fresh
        /\ pc' \in BatchPCs => pc \in BatchPCs /\ message' = message
    BY <1>5, PhaseStep DEF Fresh
  <2>2. ASSUME NEW m \in Message, ~(m.role = "assistant" /\ m.calls > 0),
               messages' = Append(messages, m)
        PROVE  BatchesDiffer'
    <3>1. \A i \in DOMAIN messages' :
            (i \in DOMAIN messages /\ messages'[i] = messages[i]) \/ messages'[i] = m
      BY <1>1, <2>2, AppendElements
    <3>. QED  BY <2>1, <2>2, <3>1 DEF BatchesDiffer
  <2>3. CASE messages' = messages
    BY <2>1, <2>3 DEF BatchesDiffer
  <2>4. CASE reset
    BY <2>4 DEF reset, BatchesDiffer
  <2>5. CASE \E m \in Message : m.role = "user" /\ messages' = Append(messages, m)
    BY <2>2, <2>5
  <2>6. CASE EmitFailureEnd
    <3>1. messages' = Append(messages, message) /\ message.calls = 0
      BY <2>6 DEF EmitFailureEnd, MessageEnd, BatchHead
    <3>. QED  BY <1>1, <2>2, <3>1
  <2>7. CASE EmitResultEnd
    <3>1. /\ messages' = Append(messages, createToolResultMessage(batch, res))
          /\ createToolResultMessage(batch, res) \in Message
          /\ createToolResultMessage(batch, res).role = "toolResult"
      BY <1>1, <2>7, ResultType DEF EmitResultEnd, MessageEnd, createToolResultMessage
    <3>. QED  BY <2>2, <3>1
  <2>. QED  BY <1>5, <2>3, <2>4, <2>5, <2>6, <2>7, MessagesStep
<1>. QED  BY <1>3, <1>4, <1>5

\* A call is not started before its batch is worked on.
LEMMA ToolsFreshStep ==
    ASSUME IndInv, BatchHead, ToolsFresh, Next
    PROVE  ToolsFresh'
<1>1. batch \in Nat /\ \A c \in CallId : c[1] \in Nat
  BY DEF IndInv, TypeInvariant, BatchType, CallId
<1>2. \A c \in CallId : tool[c] = "none" =>
         tool'[c] = "none" \/ (pc \in BatchPCs /\ c = Call(idx))
  BY ToolsStep
<1>3. /\ batch' = batch \/ batch' = batch + 1
      /\ Fresh' => (Fresh /\ batch' = batch) \/ (pc = "stream" /\ batch' = batch + 1)
  <2>1. CASE StreamFinish
    BY <2>1 DEF StreamFinish, AssistantMessage, Fresh
  <2>2. CASE EmitAssistantEnd
    BY <2>2 DEF EmitAssistantEnd, Emit, AfterResponse, Fresh, ResponsePCs
  <2>. QED  BY <2>1, <2>2, PhaseStep DEF Fresh
<1>4. ~(Fresh /\ pc \in BatchPCs) /\ ~(pc = "stream" /\ pc \in BatchPCs)
  BY DEF Fresh, ResponsePCs, BatchPCs
<1>5. Call(idx)[1] = batch
  BY DEF Call
<1>. QED  BY <1>1, <1>2, <1>3, <1>4, <1>5 DEF ToolsFresh

\* What must not run does not.
LEMMA TruncatedStep ==
    ASSUME IndInv, Sources, BatchHead, BatchesDiffer, ToolsFresh,
           TruncatedCallsNeverRun, Next
    PROVE  TruncatedCallsNeverRun'
<1>1. /\ messages \in Seq(Message) /\ batch \in 0..MaxBatches /\ message \in Message
      /\ message.calls \in Nat /\ res \in Nat /\ batch \in Nat
  BY BoundsAssumption DEF IndInv, TypeInvariant, StateType, LoopType, BatchType, Message
<1>2. \A c \in CallId : tool[c] \in {"none", "done"} =>
         tool'[c] \in {"none", "done"} \/ (pc = "prepare" /\ c = Call(idx))
  BY ToolsStep
<1>3. ASSUME NEW i \in DOMAIN messages, messages[i].role = "assistant",
             messages[i].tag # "ok", NEW k \in 1..messages[i].calls
      PROVE  tool'[<<messages[i].id, k>>] \in {"none", "done"}
  <2>1. messages[i] \in Message /\ messages[i].calls \in Nat
    BY <1>1, ElementId
  <2>2. messages[i].calls > 0 /\ messages[i].id \in 1..batch /\ k \in 1..MaxCalls
    BY <1>3, <2>1, BoundsAssumption DEF BatchesDiffer
  <2>3. <<messages[i].id, k>> \in CallId
    BY <1>1, <2>2, BoundsAssumption DEF CallId
  <2>4. tool[<<messages[i].id, k>>] \in {"none", "done"}
    BY <1>3 DEF TruncatedCallsNeverRun
  <2>5. ~(pc = "prepare" /\ <<messages[i].id, k>> = Call(idx))
    <3>. SUFFICES ASSUME pc = "prepare", <<messages[i].id, k>> = Call(idx) PROVE FALSE
      OBVIOUS
    <3>1. messages[i].id = batch
      BY DEF Call
    <3>2. messages[i] = message
      BY <1>3, <2>2, <3>1 DEF BatchesDiffer, BatchPCs
    <3>. QED  BY <1>3, <3>2 DEF BatchHead, BatchPCs
  <2>. QED  BY <1>2, <2>3, <2>4, <2>5
<1>4. ASSUME NEW m \in Message, messages' = Append(messages, m),
             m.role = "assistant" /\ m.tag # "ok" =>
                \A k \in 1..m.calls : tool'[<<m.id, k>>] \in {"none", "done"}
      PROVE  TruncatedCallsNeverRun'
  <2>1. \A i \in DOMAIN messages' :
          (i \in DOMAIN messages /\ messages'[i] = messages[i]) \/ messages'[i] = m
    BY <1>1, <1>4, AppendElements
  <2>. SUFFICES ASSUME NEW i \in DOMAIN messages', messages'[i].role = "assistant",
                       messages'[i].tag # "ok", NEW k \in 1..messages'[i].calls
                PROVE  tool'[<<messages'[i].id, k>>] \in {"none", "done"}
    BY DEF TruncatedCallsNeverRun
  <2>2. CASE i \in DOMAIN messages /\ messages'[i] = messages[i]
    BY <1>3, <2>2
  <2>3. CASE messages'[i] = m
    BY <1>4, <2>3
  <2>. QED  BY <2>1, <2>2, <2>3
<1>5. CASE messages' = messages
  BY <1>3, <1>5 DEF TruncatedCallsNeverRun
<1>6. CASE reset
  BY <1>6 DEF reset, TruncatedCallsNeverRun
<1>7. CASE \E m \in Message : m.role = "user" /\ messages' = Append(messages, m)
  BY <1>4, <1>7
<1>8. CASE EmitAssistantEnd
  <2>1. pc = "assistantEnd" /\ messages' = Append(messages, message) /\ tool' = tool
    BY <1>8 DEF EmitAssistantEnd, MessageEnd
  <2>2. ASSUME NEW k \in 1..message.calls
        PROVE  tool[<<message.id, k>>] \in {"none", "done"}
    <3>1. Fresh /\ message.id = batch /\ batch \in 1..MaxBatches /\ k \in 1..MaxCalls
      BY <1>1, <2>1, BoundsAssumption DEF Fresh, ResponsePCs, BatchHead, IndInv, Positions
    <3>2. <<message.id, k>> \in CallId
      BY <3>1 DEF CallId
    <3>. QED  BY <3>1, <3>2 DEF ToolsFresh
  <2>. QED  BY <1>1, <1>4, <2>1, <2>2
<1>9. CASE EmitFailureEnd
  <2>1. messages' = Append(messages, message) /\ message.calls = 0
    BY <1>9 DEF EmitFailureEnd, MessageEnd, BatchHead
  <2>. QED  BY <1>1, <1>4, <2>1
<1>10. CASE EmitResultEnd
  <2>1. /\ messages' = Append(messages, createToolResultMessage(batch, res))
        /\ createToolResultMessage(batch, res) \in Message
        /\ createToolResultMessage(batch, res).role = "toolResult"
    BY <1>1, <1>10, ResultType DEF EmitResultEnd, MessageEnd, createToolResultMessage
  <2>. QED  BY <1>4, <2>1
<1>. QED  BY <1>5, <1>6, <1>7, <1>8, <1>9, <1>10, MessagesStep

\* A tool result lands behind the one before it, or behind the call.
LEMMA ResultsFollowStep ==
    ASSUME IndInv, Sources, BatchHead, ToolResultsFollowCalls, Next
    PROVE  ToolResultsFollowCalls'
<1>. DEFINE Follows(t, i) ==
              t[i].role = "toolResult" =>
                  /\ i > 1
                  /\ IF t[i].calls = 1
                     THEN /\ t[i - 1].role = "assistant" /\ t[i - 1].id = t[i].id
                          /\ t[i - 1].tag \in {"ok", "length"}
                     ELSE t[i - 1] = createToolResultMessage(t[i].id, t[i].calls - 1)
<1>1. /\ messages \in Seq(Message) /\ context \in Seq(Message) /\ message \in Message
      /\ batch \in Nat /\ res \in Nat /\ message.calls \in Nat
  BY DEF IndInv, TypeInvariant, StateType, LoopType, BatchType, Message
<1>2. \A i \in DOMAIN messages : Follows(messages, i)
  BY DEF ToolResultsFollowCalls
<1>3. ASSUME NEW m \in Message, messages' = Append(messages, m),
             Follows(Append(messages, m), Len(messages) + 1)
      PROVE  ToolResultsFollowCalls'
  <2>. DEFINE t == Append(messages, m)
  <2>1. /\ DOMAIN messages = 1..Len(messages) /\ Len(messages) \in Nat
        /\ \A i \in DOMAIN messages : t[i] = messages[i]
        /\ \A i \in DOMAIN t : i \in DOMAIN messages \/ i = Len(messages) + 1
    BY <1>1, AppendElements
  <2>2. Follows(t, Len(messages) + 1)
    BY <1>3
  <2>3. messages' = t
    BY <1>3
  <2>. HIDE DEF t
  <2>4. ASSUME NEW i \in DOMAIN messages PROVE Follows(t, i)
    <3>1. Follows(messages, i) /\ t[i] = messages[i]
      BY <1>2, <2>1
    <3>2. i > 1 => t[i - 1] = messages[i - 1]
      BY <2>1
    <3>. QED  BY <3>1, <3>2
  <2>5. \A i \in DOMAIN t : Follows(t, i)
    BY <2>1, <2>2, <2>4
  <2>. QED  BY <2>3, <2>5 DEF ToolResultsFollowCalls
<1>4. ASSUME NEW m \in Message, messages' = Append(messages, m), m.role # "toolResult"
      PROVE  ToolResultsFollowCalls'
  <2>1. Append(messages, m)[Len(messages) + 1] = m
    BY <1>1, AppendElements
  <2>. QED  BY <1>3, <1>4, <2>1
<1>5. CASE messages' = messages
  BY <1>5 DEF ToolResultsFollowCalls
<1>6. CASE reset
  BY <1>6 DEF reset, ToolResultsFollowCalls
<1>7. CASE \E m \in Message : m.role = "user" /\ messages' = Append(messages, m)
  BY <1>4, <1>7
<1>8. CASE EmitAssistantEnd \/ EmitFailureEnd
  <2>1. messages' = Append(messages, message) /\ message.role = "assistant"
    BY <1>8 DEF EmitAssistantEnd, EmitFailureEnd, MessageEnd, Sources
  <2>. QED  BY <1>1, <1>4, <2>1
<1>9. CASE EmitResultEnd
  <2>. DEFINE r == createToolResultMessage(batch, res)
  <2>1. pc = "resultEnd" /\ messages' = Append(messages, r)
    BY <1>9 DEF EmitResultEnd, MessageEnd
  <2>2. r \in Message /\ r.id = batch /\ r.calls = res /\ r.role = "toolResult"
    BY <1>1, ResultType DEF createToolResultMessage
  <2>3. /\ messages = context \o Results(batch, res - 1) /\ res - 1 \in Nat
        /\ context # <<>> /\ context[Len(context)] = message
        /\ message.role = "assistant" /\ message.tag \in {"ok", "length"}
        /\ message.id = batch
    BY <1>1, <2>1 DEF IndInv, ContextAgrees, Positions, BatchHead, BatchPCs, Sources
  <2>4. /\ Results(batch, res - 1) \in Seq(Message)
        /\ Len(Results(batch, res - 1)) = res - 1
        /\ \A k \in 1..(res - 1) :
              Results(batch, res - 1)[k] = createToolResultMessage(batch, k)
    BY <1>1, <2>3, ResultsType DEF Results
  <2>5. Len(context) \in Nat /\ Len(context) > 0
    BY <1>1, <2>3, EmptySeq
  <2>6. Len(messages) = Len(context) + (res - 1) /\ Len(messages) \in Nat
    <3>1. Len(context \o Results(batch, res - 1))
              = Len(context) + Len(Results(batch, res - 1))
      BY <1>1, <2>4, ConcatParts
    <3>2. Len(messages) = Len(context) + Len(Results(batch, res - 1)) /\ res - 1 \in Nat
      BY <2>3, <3>1, Zenon
    <3>3. Len(messages) = Len(context) + (res - 1)
      BY <2>4, <3>2
    <3>. QED  BY <2>5, <3>2, <3>3
  <2>7. res = 1 => messages[Len(messages)] = message
    BY <1>1, <2>3, <2>4, <2>5, <2>6
  <2>8. res # 1 => messages[Len(messages)] = createToolResultMessage(batch, res - 1)
    <3>1. res # 1 => messages[Len(messages)] = Results(batch, res - 1)[res - 1]
      BY <1>1, <2>3, <2>4, <2>5, <2>6
    <3>2. res # 1 => res - 1 \in 1..(res - 1)
      BY <1>1, <2>3
    <3>. QED  BY <2>4, <3>1, <3>2
  <2>. HIDE DEF r
  <2>9. /\ Append(messages, r)[Len(messages) + 1] = r
        /\ Append(messages, r)[Len(messages)] = messages[Len(messages)]
        /\ (Len(messages) + 1) - 1 = Len(messages) /\ Len(messages) + 1 > 1
    BY <1>1, <2>2, <2>3, <2>5, <2>6, AppendElements
  <2>10. Follows(Append(messages, r), Len(messages) + 1)
    BY <2>2, <2>3, <2>7, <2>8, <2>9
  <2>. QED  BY <1>3, <2>1, <2>2, <2>10
<1>. QED  BY <1>5, <1>6, <1>7, <1>8, <1>9, MessagesStep

\* The indices of a batch advance together.
LEMMA ProgressStep ==
    ASSUME IndInv, BatchHead, Progress, Next
    PROVE  Progress'
<1>. USE DEF queueVars, statusVars, stateVars, flagVars, localVars, loopVars,
             positionVars, toolVars, counterVars, ghostVars
<1>1. /\ idx \in Nat /\ res \in Nat /\ message.calls \in Nat
      /\ mode \in {"parallel", "sequential", "truncated"} /\ aborted \in BOOLEAN
      /\ pc \in BatchPCs => 1 <= idx /\ idx <= message.calls
  BY DEF IndInv, TypeInvariant, StateType, LoopType, BatchType, Message, Positions
<1>. USE DEF Progress, BatchPCs
<1>2. CASE pc' \notin BatchPCs
  BY <1>2
<1>3. CASE UserStep \/ reset
  BY <1>3 DEF UserStep, reset, steer, followUp, clearSteeringQueue,
     clearFollowUpQueue, abort
<1>4. CASE StartStep \/ EndStep
  <2>1. pc' \notin BatchPCs
    BY <1>4 DEF StartStep, prompt, continueSteering, continueFollowUp,
       runContinuation, runWithLifecycle, EndStep, EmitTurnEnd, ShouldStopAfterTurn,
       SteeringPoll, FollowUpPoll, EmitErrorTurnEnd, EmitAgentEnd, EmitFailureStart,
       EmitFailureEnd, EmitFailureTurnEnd, EmitFailureAgentEnd, FinishRun, Emit,
       EmitFailure
  <2>. QED  BY <1>2, <2>1
<1>5. CASE TurnStep /\ ~EmitAssistantEnd
  <2>1. pc' \notin BatchPCs
    BY <1>5 DEF TurnStep, EmitAgentStart, EmitFirstTurnStart, EmitPromptStart,
       EmitPromptEnd, InitialSteeringPoll, EmitTurnStart, EmitInjectStart,
       EmitInjectEnd, ProviderThrows, Request, EmitStreamStart, EmitStreamUpdate,
       StreamFinish, EmitAssistantStart, EmitMessageStart, Emit, InjectOrRequest
  <2>. QED  BY <1>2, <2>1
<1>6. CASE EmitAssistantEnd
  BY <1>6 DEF EmitAssistantEnd, Emit, AfterResponse
<1>7. CASE EmitToolStart
  BY <1>1, <1>7 DEF EmitToolStart, Emit
<1>8. CASE PrepareImmediate \/ PreparePrepared
  BY <1>1, <1>8 DEF PrepareImmediate, PreparePrepared, BatchHead
<1>9. CASE EmitImmediateToolEnd
  BY <1>1, <1>9 DEF EmitImmediateToolEnd, Emit
<1>10. CASE ParallelNextCall \/ LaunchTools
  BY <1>1, <1>10 DEF ParallelNextCall, LaunchTools, LeavesLoop
<1>11. CASE ToolsDone \/ ToolsRejected
  BY <1>1, <1>11 DEF ToolsDone, ToolsRejected
<1>12. CASE EmitResultStart
  BY <1>1, <1>12 DEF EmitResultStart, EmitMessageStart, Emit
<1>13. CASE EmitResultEnd
  <2>1. /\ pc = "resultEnd" /\ res' = res + 1 /\ UNCHANGED <<mode, message, aborted>>
        /\ idx' = IF mode = "truncated" /\ idx < message.calls THEN idx + 1 ELSE idx
    BY <1>13 DEF EmitResultEnd, MessageEnd
  <2>2. CASE mode = "parallel"
    <3>1. pc' \in {IF res < idx THEN "resultStart" ELSE "batchDone", "failure"}
      BY <1>13, <2>2 DEF EmitResultEnd, Emit
    <3>. QED  BY <1>1, <2>1, <2>2, <3>1
  <2>3. CASE mode = "sequential"
    <3>1. pc' \in {"sequentialCheck", "failure"}
      BY <1>13, <2>3 DEF EmitResultEnd, Emit
    <3>. QED  BY <1>1, <2>1, <2>3, <3>1
  <2>4. CASE mode = "truncated"
    <3>1. pc' \in {IF idx < message.calls THEN "toolStart" ELSE "batchDone", "failure"}
      BY <1>13, <2>4 DEF EmitResultEnd, Emit
    <3>. QED  BY <1>1, <2>1, <2>4, <3>1
  <2>. QED  BY <1>1, <2>2, <2>3, <2>4
<1>14. CASE SequentialCheck
  BY <1>1, <1>14 DEF SequentialCheck, LeavesLoop
<1>15. CASE BatchDone
  BY <1>15 DEF BatchDone
<1>16. CASE \E c \in CallId : ToolStep(c) \/ EmitToolUpdate(c)
  BY <1>16 DEF ToolStep, ExecutedTool, EmitToolEnd, EmitToolUpdate
<1>. QED
  BY <1>3, <1>4, <1>5, <1>6, <1>7, <1>8, <1>9, <1>10, <1>11, <1>12, <1>13, <1>14,
     <1>15, <1>16 DEF Next, LoopStep, TurnStep, BatchStep

\* A message that has its results keeps them.
LEMMA CompleteAppend ==
    ASSUME NEW s \in Seq(Message), NEW m \in Message, NEW i \in 1..Len(s),
           Complete(s, i)
    PROVE  Complete(Append(s, m), i)
<1>1. /\ Len(Append(s, m)) = Len(s) + 1 /\ Len(s) \in Nat
      /\ \A j \in 1..Len(s) : Append(s, m)[j] = s[j]
  BY AppendElements
<1>2. s[i].calls \in Nat
  BY ElementId
<1>. SUFFICES ASSUME s[i].role = "assistant", NEW k \in 1..s[i].calls
              PROVE  /\ i + k <= Len(Append(s, m))
                     /\ Append(s, m)[i + k] = createToolResultMessage(s[i].id, k)
  BY <1>1 DEF Complete
<1>3. i + k <= Len(s) /\ s[i + k] = createToolResultMessage(s[i].id, k)
  BY DEF Complete
<1>4. i + k \in 1..Len(s)
  BY <1>1, <1>2, <1>3
<1>. QED  BY <1>1, <1>2, <1>3, <1>4

\* The results of a batch complete the message that asked for them.
LEMMA ResultsComplete ==
    ASSUME NEW s \in Seq(Message), s # <<>>, s[Len(s)] \in Message,
           NEW b \in Nat, s[Len(s)].id = b,
           NEW t, t = s \o Results(b, s[Len(s)].calls)
    PROVE  /\ Complete(t, Len(s))
           /\ \A i \in (Len(s) + 1)..Len(t) : Complete(t, i)
<1>. DEFINE n == s[Len(s)].calls
            r == Results(b, n)
<1>1. n \in Nat
  BY DEF Message
<1>. HIDE DEF n
<1>2. /\ r \in Seq(Message) /\ Len(r) = n
      /\ \A k \in 1..n : r[k] = createToolResultMessage(b, k)
  BY <1>1, ResultsType DEF Results
<1>. HIDE DEF r
<1>3. Len(s) \in Nat /\ Len(s) > 0
  BY EmptySeq
<1>4. t = s \o r
  BY DEF n, r
<1>5. /\ Len(t) = Len(s) + n /\ t[Len(s)] = s[Len(s)]
      /\ \A k \in 1..n : t[Len(s) + k] = r[k]
      /\ \A i \in (Len(s) + 1)..Len(t) : i - Len(s) \in 1..n /\ t[i] = r[i - Len(s)]
  <2>. DEFINE u == s \o r
  <2>1. /\ Len(u) = Len(s) + Len(r) /\ DOMAIN s = 1..Len(s) /\ DOMAIN r = 1..Len(r)
        /\ \A i \in DOMAIN s : u[i] = s[i]
        /\ \A i \in DOMAIN r : u[Len(s) + i] = r[i]
    BY <1>2, ConcatParts
  <2>. HIDE DEF u
  <2>2. Len(u) = Len(s) + n /\ \A k \in 1..n : u[Len(s) + k] = r[k]
    BY <1>2, <2>1
  <2>3. u[Len(s)] = s[Len(s)]
    BY <1>3, <2>1
  <2>4. ASSUME NEW i \in (Len(s) + 1)..Len(u)
        PROVE  i - Len(s) \in 1..n /\ u[i] = r[i - Len(s)]
    <3>1. i - Len(s) \in 1..n /\ Len(s) + (i - Len(s)) = i
      BY <1>1, <1>3, <2>2
    <3>. QED  BY <2>2, <3>1
  <2>5. t = u
    BY <1>4 DEF u
  <2>. QED  BY <2>2, <2>3, <2>4, <2>5
<1>6. Complete(t, Len(s))
  <2>. SUFFICES ASSUME NEW k \in 1..n
                PROVE  /\ Len(s) + k <= Len(t)
                       /\ t[Len(s) + k] = createToolResultMessage(b, k)
    BY <1>5 DEF Complete, n
  <2>. QED  BY <1>1, <1>2, <1>3, <1>5
<1>7. ASSUME NEW i \in (Len(s) + 1)..Len(t) PROVE Complete(t, i)
  <2>1. t[i] = createToolResultMessage(b, i - Len(s))
    BY <1>2, <1>5
  <2>2. t[i].role = "toolResult"
    BY <2>1 DEF createToolResultMessage
  <2>. QED  BY <2>2 DEF Complete
<1>. QED  BY <1>6, <1>7

\* In a run that is not aborted every call gets its result.
LEMMA CompleteStep ==
    ASSUME IndInv, Taken, Sources, BatchHead, Progress, AllComplete, Next
    PROVE  AllComplete'
<1>. USE DEF queueVars, statusVars, stateVars, flagVars, localVars, loopVars,
             positionVars, toolVars, counterVars, ghostVars
<1>1. /\ messages \in Seq(Message) /\ context \in Seq(Message) /\ message \in Message
      /\ batch \in Nat /\ res \in Nat /\ idx \in Nat /\ message.calls \in Nat
      /\ base \in Nat /\ Len(messages) \in Nat /\ Len(context) \in Nat
      /\ aborted \in BOOLEAN
  BY DEF IndInv, TypeInvariant, StateType, LoopType, BatchType, GhostType, Message
<1>2. CASE StartStep
  <2>1. messages' = messages /\ base' = Len(messages) /\ pc' = "agentStart"
    BY <1>2 DEF StartStep, prompt, continueSteering, continueFollowUp,
       runContinuation, runWithLifecycle
  <2>2. \A i \in (base' + 1)..Len(messages') : FALSE
    BY <1>1, <2>1
  <2>. QED  BY <1>1, <2>1, <2>2 DEF AllComplete, BatchPCs
<1>3. CASE FinishRun
  BY <1>1, <1>3 DEF FinishRun, AllComplete, WholePCs, PromptPCs, AgreePCs, ResponsePCs,
     BatchPCs
<1>4. CASE reset
  <2>1. pc = "idle" /\ pc' = "idle" /\ base' = base /\ base = 0 /\ messages' = <<>>
    BY <1>4 DEF reset, IndInv, Positions, AllComplete
  <2>. QED  BY <2>1 DEF AllComplete, WholePCs, PromptPCs, AgreePCs, ResponsePCs, BatchPCs
<1>5. CASE ~StartStep /\ ~FinishRun /\ ~reset
  <2>1. base' = base /\ (aborted => aborted') /\ (pc' = "idle" => pc = "idle")
    <3>1. CASE UserStep
      BY <3>1 DEF UserStep, steer, followUp, clearSteeringQueue, clearFollowUpQueue, abort
    <3>2. CASE TurnStep
      BY <3>2 DEF TurnStep, EmitAgentStart, EmitFirstTurnStart, EmitPromptStart,
         EmitPromptEnd, InitialSteeringPoll, EmitTurnStart, EmitInjectStart,
         EmitInjectEnd, ProviderThrows, Request, EmitStreamStart, EmitStreamUpdate,
         StreamFinish, EmitAssistantStart, EmitAssistantEnd, EmitMessageStart, Emit,
         InjectOrRequest, AfterResponse, MessageEnd
    <3>3. CASE BatchStep /\ ~EmitResultEnd
      BY <3>3 DEF BatchStep, EmitToolStart, PrepareImmediate, PreparePrepared,
         EmitImmediateToolEnd, ParallelNextCall, LaunchTools, ToolsDone,
         ToolsRejected, EmitResultStart, SequentialCheck, BatchDone,
         EmitMessageStart, Emit
    <3>4. CASE EmitResultEnd
      BY <3>4 DEF EmitResultEnd, MessageEnd, Emit, IndInv, TypeInvariant, BatchType
    <3>5. CASE EndStep
      BY <1>5, <3>5 DEF EndStep, EmitTurnEnd, ShouldStopAfterTurn, SteeringPoll,
         FollowUpPoll, EmitErrorTurnEnd, EmitAgentEnd, EmitFailureStart,
         EmitFailureEnd, EmitFailureTurnEnd, EmitFailureAgentEnd, Emit, EmitFailure,
         MessageEnd
    <3>6. CASE \E c \in CallId : ToolStep(c) \/ EmitToolUpdate(c)
      BY <3>6 DEF ToolStep, ExecutedTool, EmitToolEnd, EmitToolUpdate
    <3>. QED  BY <1>5, <3>1, <3>2, <3>3, <3>4, <3>5, <3>6 DEF Next, LoopStep
  <2>2. CASE messages' = messages
    <3>1. CASE StreamFinish
      <4>1. pc = "stream" /\ pc' \in ResponsePCs
        BY <3>1 DEF StreamFinish, ResponsePCs
      <4>. QED  BY <2>1, <2>2, <4>1 DEF AllComplete, WholePCs, ResponsePCs, BatchPCs
    <3>2. CASE BatchDone
      <4>1. /\ pc = "batchDone" /\ pc' = "turnEnd" /\ aborted' = aborted
            /\ messages = context \o Results(batch, res - 1)
        BY <3>2 DEF BatchDone, IndInv, ContextAgrees, BatchPCs
      <4>2. /\ context # <<>> /\ context[Len(context)] = message
            /\ message.id = batch /\ res = idx + 1 /\ (aborted \/ idx = message.calls)
        BY <1>1, <4>1 DEF BatchHead, Progress, BatchPCs
      <4>3. CASE ~aborted
        <5>1. messages = context \o Results(batch, context[Len(context)].calls)
          <6>1. res - 1 = context[Len(context)].calls
            BY <1>1, <4>2, <4>3
          <6>. QED  BY <4>1, <6>1
        <5>2. /\ Complete(messages, Len(context))
              /\ \A i \in (Len(context) + 1)..Len(messages) : Complete(messages, i)
          BY <1>1, <4>2, <5>1, ResultsComplete
        <5>3. \A i \in (base + 1)..(Len(context) - 1) : Complete(messages, i)
          BY <4>1, <4>3 DEF AllComplete, BatchPCs
        <5>4. \A i \in (base + 1)..Len(messages) : Complete(messages, i)
          <6>. SUFFICES ASSUME NEW i \in (base + 1)..Len(messages)
                        PROVE  Complete(messages, i)
            OBVIOUS
          <6>1. \/ i \in (base + 1)..(Len(context) - 1) \/ i = Len(context)
                \/ i \in (Len(context) + 1)..Len(messages)
            BY <1>1
          <6>. QED  BY <5>2, <5>3, <6>1
        <5>. QED  BY <2>1, <2>2, <4>1, <5>4 DEF AllComplete, BatchPCs
      <4>4. CASE aborted
        BY <2>1, <2>2, <4>1, <4>4 DEF AllComplete, BatchPCs
      <4>. QED  BY <4>3, <4>4
    <3>3. CASE EmitAssistantEnd
      <4>1. messages' = Append(messages, message)
        BY <3>3 DEF EmitAssistantEnd, MessageEnd
      <4>. QED  BY <1>1, <2>2, <4>1, AppendElements
    <3>4. CASE ~StreamFinish /\ ~EmitAssistantEnd /\ ~BatchDone
      <4>1. /\ pc' \in BatchPCs => pc \in BatchPCs /\ context' = context
            /\ pc' \in WholePCs => pc \in WholePCs
        BY <1>5, <3>4, PhaseStep
      <4>. QED  BY <2>1, <2>2, <4>1 DEF AllComplete
    <3>. QED  BY <3>1, <3>2, <3>3, <3>4
  <2>3. ASSUME NEW m \in Message, messages' = Append(messages, m),
               ~aborted' => pc \in WholePCs,
               pc' \in WholePCs => Complete(messages', Len(messages) + 1),
               pc' \in BatchPCs => Len(context') = Len(messages) + 1
        PROVE  AllComplete'
    <3>1. Len(messages') = Len(messages) + 1
      BY <1>1, <2>3, AppendElements
    <3>2. ~aborted' => \A i \in (base + 1)..Len(messages) : Complete(messages', i)
      <4>. SUFFICES ASSUME ~aborted', NEW i \in (base + 1)..Len(messages)
                    PROVE  Complete(messages', i)
        OBVIOUS
      <4>1. Complete(messages, i) /\ i \in 1..Len(messages)
        BY <1>1, <2>1, <2>3 DEF AllComplete
      <4>. QED  BY <1>1, <2>3, <4>1, CompleteAppend
    <3>3. ~aborted' /\ pc' \in WholePCs =>
              \A i \in (base + 1)..Len(messages') : Complete(messages', i)
      <4>1. \A i \in (base + 1)..Len(messages') :
               i \in (base + 1)..Len(messages) \/ i = Len(messages) + 1
        BY <1>1, <3>1
      <4>. QED  BY <2>3, <3>2, <4>1
    <3>4. pc' \in BatchPCs => Len(context') - 1 = Len(messages)
      BY <1>1, <2>3
    <3>5. base' <= Len(messages') /\ (pc' = "idle" => base' = 0)
      BY <1>1, <2>1, <3>1 DEF AllComplete
    <3>. QED  BY <2>1, <3>2, <3>3, <3>4, <3>5 DEF AllComplete
  <2>4. CASE /\ EmitPromptEnd \/ EmitInjectEnd
             /\ \E m \in Message : m.role = "user" /\ messages' = Append(messages, m)
    <3>1. pc \in WholePCs /\ pc' \notin BatchPCs
      BY <2>4 DEF EmitPromptEnd, EmitInjectEnd, Emit, InjectOrRequest, WholePCs,
         PromptPCs, AgreePCs, BatchPCs
    <3>2. PICK m \in Message : m.role = "user" /\ messages' = Append(messages, m)
      BY <2>4
    <3>3. messages'[Len(messages) + 1] = m
      BY <1>1, <3>2, AppendElements
    <3>4. Complete(messages', Len(messages) + 1)
      BY <3>2, <3>3 DEF Complete
    <3>. QED  BY <2>3, <3>1, <3>2, <3>4
  <2>5. CASE EmitAssistantEnd
    <3>1. /\ pc = "assistantEnd" /\ messages' = Append(messages, message)
          /\ pc' \in {"errorTurnEnd", "toolStart", "turnEnd", "failure"}
          /\ pc' = "turnEnd" => ~(message.calls > 0)
          /\ context' = context
      BY <2>5 DEF EmitAssistantEnd, MessageEnd, Emit, AfterResponse
    <3>2. messages'[Len(messages) + 1] = message /\ Len(messages') = Len(messages) + 1
      BY <1>1, <3>1, AppendElements
    <3>3. pc' \in WholePCs => Complete(messages', Len(messages) + 1)
      <4>1. pc' \in WholePCs => message.calls = 0
        BY <1>1, <3>1 DEF WholePCs, PromptPCs, AgreePCs, ResponsePCs
      <4>. QED  BY <3>2, <4>1 DEF Complete
    <3>4. context' = messages'
      BY <3>1 DEF IndInv, ContextAgrees
    <3>5. pc \in WholePCs
      BY <3>1 DEF WholePCs, ResponsePCs
    <3>. QED  BY <1>1, <2>3, <3>1, <3>2, <3>3, <3>4, <3>5
  <2>6. CASE EmitFailureEnd
    <3>1. pc' \notin WholePCs \cup BatchPCs /\ messages' = Append(messages, message)
          /\ pc' # "idle"
      BY <2>6 DEF EmitFailureEnd, EmitFailure, MessageEnd, WholePCs, PromptPCs, AgreePCs,
         ResponsePCs, BatchPCs
    <3>2. Len(messages') = Len(messages) + 1
      BY <1>1, <3>1, AppendElements
    <3>. QED  BY <1>1, <2>1, <3>1, <3>2 DEF AllComplete
  <2>7. CASE EmitResultEnd
    <3>. DEFINE r == createToolResultMessage(batch, res)
    <3>1. /\ pc = "resultEnd" /\ messages' = Append(messages, r) /\ context' = context
          /\ r \in Message
          /\ pc' \in {"resultStart", "sequentialCheck", "toolStart", "batchDone", "failure"}
      BY <1>1, <2>7, ResultType DEF EmitResultEnd, MessageEnd, Emit, IndInv,
         TypeInvariant, BatchType
    <3>. HIDE DEF r
    <3>2. Len(messages') = Len(messages) + 1
      BY <1>1, <3>1, AppendElements
    <3>3. Len(context) <= Len(messages)
      <4>1. messages = context \o Results(batch, res - 1) /\ res - 1 \in Nat
        BY <1>1, <3>1 DEF IndInv, ContextAgrees, Positions, BatchPCs
      <4>2. Results(batch, res - 1) \in Seq(Message)
        BY <1>1, <4>1, ResultsType
      <4>3. Len(messages) = Len(context) + Len(Results(batch, res - 1))
            /\ Len(Results(batch, res - 1)) \in Nat
        BY <1>1, <4>1, <4>2, ConcatParts
      <4>. QED  BY <1>1, <4>3
    <3>4. ASSUME ~aborted', NEW i \in (base + 1)..(Len(context) - 1)
          PROVE  Complete(messages', i)
      <4>1. i \in 1..Len(messages) /\ Complete(messages, i)
        BY <1>1, <2>1, <3>1, <3>3, <3>4 DEF AllComplete, BatchPCs
      <4>. QED  BY <1>1, <3>1, <4>1, CompleteAppend
    <3>5. pc' \notin WholePCs /\ pc' # "idle"
      BY <3>1 DEF WholePCs, PromptPCs, AgreePCs, ResponsePCs
    <3>. QED  BY <1>1, <2>1, <3>1, <3>2, <3>4, <3>5 DEF AllComplete
  <2>. QED  BY <1>5, <2>2, <2>4, <2>5, <2>6, <2>7, MessagesStep
<1>. QED  BY <1>2, <1>3, <1>4, <1>5

\* The batch invariant holds in every reachable state.
LEMMA BatchAlways == Spec => []BatchInv
<1>1. Init => BatchInv
  <2>. SUFFICES ASSUME Init PROVE BatchInv
    OBVIOUS
  <2>1. messages = <<>> /\ DOMAIN messages = {} /\ Len(messages) = 0 /\ pc = "idle"
    BY DEF Init
  <2>2. BatchHead /\ Progress
    BY <2>1 DEF BatchHead, Progress, Fresh, ResponsePCs, BatchPCs
  <2>3. BatchesDiffer /\ ToolResultsFollowCalls /\ TruncatedCallsNeverRun
    BY <2>1 DEF BatchesDiffer, ToolResultsFollowCalls, TruncatedCallsNeverRun
  <2>4. ToolsFresh
    BY DEF Init, ToolsFresh
  <2>5. AllComplete
    BY <2>1 DEF Init, AllComplete, WholePCs, PromptPCs, AgreePCs, ResponsePCs, BatchPCs
  <2>. QED  BY <2>2, <2>3, <2>4, <2>5 DEF BatchInv
<1>2. IndInv /\ DeliveryInv /\ BatchInv /\ [Next]_vars => BatchInv'
  <2>1. ASSUME IndInv, DeliveryInv, BatchInv, Next PROVE BatchInv'
    BY <2>1, BatchHeadStep, BatchesDifferStep, ToolsFreshStep, TruncatedStep,
       ResultsFollowStep, ProgressStep, CompleteStep DEF DeliveryInv, BatchInv
  <2>2. ASSUME BatchInv, UNCHANGED vars PROVE BatchInv'
    BY <2>2 DEF vars, queueVars, statusVars, stateVars, flagVars, localVars, loopVars,
       positionVars, toolVars, counterVars, ghostVars, BatchInv, BatchHead, Fresh,
       BatchesDiffer, ToolsFresh, Progress, AllComplete, ToolResultsFollowCalls,
       TruncatedCallsNeverRun
  <2>. QED  BY <2>1, <2>2
<1>. QED  BY <1>1, <1>2, IndInvAlways, DeliveryAlways, PTL DEF Spec

(* Tool results directly follow the assistant message that asked for them, *)
(* in its order, for any number and size of batches and in whatever order  *)
(* the tools finish (executeToolCalls).                                    *)
THEOREM ResultsFollowCalls == Spec => []ToolResultsFollowCalls
<1>1. BatchInv => ToolResultsFollowCalls
  BY DEF BatchInv
<1>. QED  BY <1>1, BatchAlways, PTL

(* The calls of a message that was cut off, failed or aborted are never    *)
(* executed (failToolCallsFromTruncatedMessage).                           *)
THEOREM NeverRunTruncated == Spec => []TruncatedCallsNeverRun
<1>1. BatchInv => TruncatedCallsNeverRun
  BY DEF BatchInv
<1>. QED  BY <1>1, BatchAlways, PTL

(* Unless the run was aborted, every call of this run has its result when  *)
(* the next request is made.                                               *)
THEOREM RequestsComplete == Spec => []RequestHasAllResults
<1>1. BatchInv => RequestHasAllResults
  BY DEF BatchInv, AllComplete, Complete, RequestHasAllResults, WholePCs, AgreePCs
<1>. QED  BY <1>1, BatchAlways, PTL

-----------------------------------------------------------------------------
(* Without throwing listeners nothing of a run outlives its agent_end.     *)

\* The steps of a parallel batch before its calls are launched.
PreparePCs == {"toolStart", "prepare", "toolEnd", "batchCheck"}

\* A call is under way only while the loop prepares or awaits its batch, and
\* after agent_end the run does nothing but finish.
Settled ==
    /\ ended => pc \in {"finish", "idle"}
    /\ \A c \in CallId : tool[c] \notin {"none", "done"} =>
        /\ tool[c] \notin {"updateFailed", "rejected"} /\ c \in Entries
        /\ pc = "awaitTools" \/ (mode = "parallel" /\ pc \in PreparePCs)

\* Nobody throws, so no call is left behind.
LEMMA SettledStep ==
    ASSUME "listener" \notin Faults, IndInv, Settled, Next
    PROVE  Settled'
<1>. USE DEF queueVars, statusVars, stateVars, flagVars, localVars, loopVars,
             positionVars, toolVars, counterVars, ghostVars
<1>1. /\ tool \in [CallId -> ToolStatus] /\ idx \in Nat /\ batch \in Nat
      /\ activeRun \in BOOLEAN /\ ended \in BOOLEAN
  BY DEF IndInv, TypeInvariant, StateType, BatchType, GhostType
<1>2. /\ pc \in BatchPCs => idx >= 1 /\ Call(idx) \in CallId /\ Call(idx) \in Entries
      /\ pc = "awaitTools" \/ pc \in PreparePCs => activeRun /\ pc \in BatchPCs
  <2>1. pc \in BatchPCs => idx >= 1 /\ idx \in 1..idx
    BY <1>1 DEF IndInv, Positions
  <2>2. pc = "awaitTools" \/ pc \in PreparePCs => activeRun /\ pc \in BatchPCs
    BY DEF IndInv, Positions, PreparePCs, BatchPCs
  <2>. QED  BY <2>1, <2>2, CallType DEF IndInv, Entries
<1>3. ASSUME pc # "awaitTools", pc \notin PreparePCs, tool' = tool
      PROVE  \A c \in CallId : tool'[c] \in {"none", "done"}
  BY <1>3 DEF Settled
<1>4. ASSUME pc # "awaitTools", pc \notin PreparePCs, tool' = tool,
             ended' => pc' \in {"finish", "idle"}
      PROVE  Settled'
  BY <1>3, <1>4 DEF Settled
<1>5. CASE UserStep
  <2>1. UNCHANGED <<tool, pc, mode, batch, idx, ended>>
    BY <1>5 DEF UserStep, steer, followUp, clearSteeringQueue, clearFollowUpQueue, abort
  <2>. QED  BY <2>1 DEF Settled, Entries, Call
<1>6. CASE reset \/ StartStep
  <2>1. pc = "idle"
    BY <1>6 DEF reset, StartStep, prompt, continueSteering, continueFollowUp,
       runContinuation, IndInv, Positions
  <2>2. tool' = tool /\ (pc' = pc \/ ended' = FALSE)
    BY <1>6 DEF reset, StartStep, prompt, continueSteering, continueFollowUp,
       runContinuation, runWithLifecycle
  <2>. QED  BY <1>4, <2>1, <2>2 DEF PreparePCs
<1>7. CASE TurnStep
  <2>1. /\ pc \notin {"awaitTools", "finish", "idle"} /\ pc \notin PreparePCs
        /\ tool' = tool /\ ended' = ended
    BY <1>7 DEF TurnStep, EmitAgentStart, EmitFirstTurnStart, EmitPromptStart,
       EmitPromptEnd, InitialSteeringPoll, EmitTurnStart, EmitInjectStart,
       EmitInjectEnd, ProviderThrows, Request, EmitStreamStart, EmitStreamUpdate,
       StreamFinish, EmitAssistantStart, EmitAssistantEnd, EmitMessageStart,
       PreparePCs
  <2>2. ~ended'
    BY <2>1 DEF Settled
  <2>. QED  BY <1>4, <2>1, <2>2
<1>8. CASE EndStep
  <2>1. pc # "awaitTools" /\ pc \notin PreparePCs /\ tool' = tool
    BY <1>8 DEF EndStep, EmitTurnEnd, ShouldStopAfterTurn, SteeringPoll, FollowUpPoll,
       EmitErrorTurnEnd, EmitAgentEnd, EmitFailureStart, EmitFailureEnd,
       EmitFailureTurnEnd, EmitFailureAgentEnd, FinishRun, PreparePCs
  <2>2. CASE EmitAgentEnd \/ EmitFailureAgentEnd \/ FinishRun
    BY <1>4, <2>1, <2>2 DEF EmitAgentEnd, EmitFailureAgentEnd, FinishRun, Emit, EmitFailure
  <2>3. CASE ~EmitAgentEnd /\ ~EmitFailureAgentEnd /\ ~FinishRun
    <3>1. ended' = ended /\ pc \notin {"finish", "idle"}
      BY <1>8, <2>3 DEF EndStep, EmitTurnEnd, ShouldStopAfterTurn, SteeringPoll,
         FollowUpPoll, EmitErrorTurnEnd, EmitFailureStart, EmitFailureEnd,
         EmitFailureTurnEnd
    <3>. QED  BY <1>4, <2>1, <3>1 DEF Settled
  <2>. QED  BY <2>2, <2>3
<1>9. CASE BatchStep
  <2>1. pc \notin {"finish", "idle"} /\ ended' = ended /\ ~ended /\ ~ended'
    BY <1>9 DEF BatchStep, EmitToolStart, PrepareImmediate, PreparePrepared,
       EmitImmediateToolEnd, ParallelNextCall, LaunchTools, ToolsDone, ToolsRejected,
       EmitResultStart, EmitResultEnd, SequentialCheck, BatchDone, EmitMessageStart,
       Settled
  <2>2. CASE EmitToolStart \/ PrepareImmediate
    <3>1. /\ UNCHANGED <<tool, mode, batch, idx>> /\ pc \in PreparePCs
          /\ pc' \in PreparePCs
      BY <2>2 DEF EmitToolStart, PrepareImmediate, Emit, PreparePCs
    <3>2. pc # "awaitTools"
      BY <3>1 DEF PreparePCs
    <3>. QED  BY <2>1, <3>1, <3>2 DEF Settled, Entries, Call
  <2>3. CASE PreparePrepared
    <3>1. /\ pc = "prepare" /\ UNCHANGED <<mode, batch, idx>>
          /\ tool' = [tool EXCEPT ![Call(idx)] =
                        IF mode = "parallel" THEN "prepared" ELSE "running"]
          /\ pc' = IF mode = "parallel" THEN "batchCheck" ELSE "awaitTools"
      BY <2>3 DEF PreparePrepared
    <3>2. Call(idx) \in CallId /\ Call(idx) \in Entries
      BY <1>2, <3>1 DEF BatchPCs
    <3>3. Entries' = Entries
      BY <3>1 DEF Entries, Call
    <3>. HIDE DEF Entries
    <3>4. \A c \in CallId : tool[c] \notin {"none", "done"} =>
            tool[c] \notin {"updateFailed", "rejected"} /\ c \in Entries /\ mode = "parallel"
      BY <3>1 DEF Settled, PreparePCs
    <3>5. \A c \in CallId : c # Call(idx) => tool'[c] = tool[c]
      BY <1>1, <3>1, <3>2
    <3>6. tool'[Call(idx)] \in {"prepared", "running"}
      BY <1>1, <3>1, <3>2
    <3>. QED  BY <2>1, <3>1, <3>2, <3>3, <3>4, <3>5, <3>6 DEF Settled, PreparePCs
  <2>4. CASE EmitImmediateToolEnd
    <3>1. /\ pc = "toolEnd" /\ UNCHANGED <<mode, batch, idx>>
          /\ tool' = [tool EXCEPT ![Call(idx)] = "done"]
          /\ pc' = IF mode = "parallel" THEN "batchCheck" ELSE "resultStart"
      BY <2>4 DEF EmitImmediateToolEnd, Emit
    <3>2. Entries' = Entries
      BY <3>1 DEF Entries, Call
    <3>3. \A c \in CallId : tool[c] \notin {"none", "done"} =>
            tool[c] \notin {"updateFailed", "rejected"} /\ c \in Entries /\ mode = "parallel"
      BY <3>1 DEF Settled, PreparePCs
    <3>4. \A c \in CallId : tool'[c] = tool[c] \/ tool'[c] = "done"
      BY <1>1, <3>1
    <3>. QED  BY <2>1, <3>1, <3>2, <3>3, <3>4 DEF Settled, PreparePCs
  <2>5. CASE ParallelNextCall
    <3>1. /\ pc = "batchCheck" /\ pc' = "toolStart" /\ UNCHANGED <<tool, mode, batch>>
          /\ idx' = idx + 1
      BY <2>5 DEF ParallelNextCall
    <3>2. 1..idx \subseteq 1..(idx + 1)
      BY <1>1
    <3>3. Entries \subseteq Entries'
      BY <3>1, <3>2 DEF Entries, Call
    <3>4. \A c \in CallId : tool[c] \notin {"none", "done"} =>
            tool[c] \notin {"updateFailed", "rejected"} /\ c \in Entries /\ mode = "parallel"
      BY <3>1 DEF Settled, PreparePCs
    <3>. QED  BY <2>1, <3>1, <3>3, <3>4 DEF Settled, PreparePCs
  <2>6. CASE LaunchTools
    <3>1. /\ tool' = Launched /\ pc' = "awaitTools" /\ UNCHANGED <<mode, batch, idx>>
      BY <2>6 DEF LaunchTools
    <3>2. Entries' = Entries
      BY <3>1 DEF Entries, Call
    <3>3. \A c \in CallId : \/ tool'[c] = tool[c]
                            \/ tool[c] = "prepared" /\ tool'[c] = "running"
      BY <1>1, <3>1 DEF Launched
    <3>. QED  BY <2>1, <3>1, <3>2, <3>3 DEF Settled
  <2>7. CASE ToolsDone
    <3>1. tool' = tool /\ \A c \in Entries : tool[c] = "done"
      BY <2>7 DEF ToolsDone, AllSettled
    <3>2. \A c \in CallId : tool'[c] \in {"none", "done"}
      BY <3>1 DEF Settled
    <3>. QED  BY <2>1, <3>2 DEF Settled
  <2>8. CASE ToolsRejected
    <3>1. PICK i \in 1..idx : tool[Call(i)] = "rejected"
      BY <2>8 DEF ToolsRejected, Entries
    <3>2. message.calls \in Nat /\ idx <= message.calls /\ message.calls <= MaxCalls
          /\ batch \in 1..MaxBatches
      BY <2>8, BoundsAssumption DEF ToolsRejected, IndInv, TypeInvariant, LoopType,
         BatchType, Message, Positions, BatchPCs
    <3>3. Call(i) \in CallId
      BY <1>1, <3>2, BoundsAssumption DEF Call, CallId
    <3>. QED  BY <3>1, <3>3 DEF Settled
  <2>9. CASE EmitResultStart \/ EmitResultEnd \/ SequentialCheck \/ BatchDone
    <3>1. pc # "awaitTools" /\ pc \notin PreparePCs /\ tool' = tool
      BY <2>9 DEF EmitResultStart, EmitResultEnd, SequentialCheck, BatchDone,
         EmitMessageStart, PreparePCs
    <3>. QED  BY <1>4, <2>1, <3>1
  <2>. QED
    BY <1>9, <2>2, <2>3, <2>4, <2>5, <2>6, <2>7, <2>8, <2>9 DEF BatchStep
<1>10. ASSUME NEW d \in CallId, ToolStep(d) \/ EmitToolUpdate(d)
       PROVE  Settled'
  <2>1. UNCHANGED <<pc, mode, batch, idx, ended>> /\ tool[d] \notin {"none", "done"}
    BY <1>10 DEF ToolStep, ExecutedTool, EmitToolEnd, EmitToolUpdate
  <2>2. Entries' = Entries
    BY <2>1 DEF Entries, Call
  <2>3. activeRun /\ tool[d] \notin {"updateFailed", "rejected"}
    BY <1>2, <2>1 DEF Settled
  <2>4. ~EmitThrows
    BY <2>3 DEF EmitThrows
  <2>5. tool' = [tool EXCEPT ![d] = "executed"] \/ tool' = [tool EXCEPT ![d] = "done"]
    BY <1>10, <2>3, <2>4 DEF ToolStep, ExecutedTool, EmitToolEnd, EmitToolUpdate
  <2>6. /\ \A c \in CallId : c # d => tool'[c] = tool[c]
        /\ tool'[d] \in {"executed", "done"}
    BY <1>1, <2>5
  <2>. QED  BY <2>1, <2>2, <2>6 DEF Settled
<1>. QED  BY <1>5, <1>6, <1>7, <1>8, <1>9, <1>10 DEF Next, LoopStep

(* When no listener throws, agent_end is the last event of its run: the    *)
(* failure handler does not run behind it, and no tool call is left to     *)
(* report its end later.                                                   *)
THEOREM AgentEndLast ==
    ASSUME "listener" \notin Faults
    PROVE  Spec => AgentEndIsLast
<1>1. Init => Settled
  BY DEF Init, Settled
<1>2. IndInv /\ Settled /\ [Next]_vars => Settled'
  <2>1. ASSUME IndInv, Settled, UNCHANGED vars PROVE Settled'
    BY <2>1 DEF vars, queueVars, statusVars, stateVars, flagVars, localVars, loopVars,
       positionVars, toolVars, counterVars, ghostVars, Settled, Entries, Call
  <2>. QED  BY <2>1, SettledStep
<1>3. Settled /\ [Next]_vars => [ended => ~EventStep]_vars
  <2>. SUFFICES ASSUME Settled, ended, EventStep PROVE FALSE
    OBVIOUS
  <2>1. pc \in {"finish", "idle"}
    BY DEF Settled
  <2>2. \A c \in CallId : tool[c] \in {"none", "done"}
    BY <2>1 DEF Settled, PreparePCs
  <2>. QED  BY <2>1, <2>2 DEF EventStep, EmitFailureStart, EmitFailureEnd,
               EmitFailureTurnEnd, EmitFailureAgentEnd, EmitToolEnd
<1>. QED  BY <1>1, <1>2, <1>3, IndInvAlways, PTL DEF Spec, AgentEndIsLast
=============================================================================
