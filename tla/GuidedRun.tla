------------------------------ MODULE GuidedRun ------------------------------
(***************************************************************************)
(* A skott worker thread that runs prompts one after another               *)
(* (skott/src/run.rs), the native model/tool loop that runs each           *)
(* (sav/src/runtime/driver.rs), the watcher thread of each provider        *)
(* operation, and a person who submits, edits and withdraws messages,      *)
(* cancels the prompt and stops the session while it runs.                 *)
(*                                                                         *)
(* The provider's replies and the effects of tools are choices.  A call to *)
(* the recorder or to the event sink is "evidence": it may fail MaxFaults  *)
(* times, and always fails at the sink of a stopped session.  Wall-time    *)
(* and token budgets, loop detection and compaction are left out.          *)
(***************************************************************************)
EXTENDS ControlMailbox

CONSTANTS
    MaxAttempts,    \* RetryPolicy.max_attempts
    MaxTurns,       \* NativeRuntime.max_turns, the unattended turns allowed
    MaxTools,       \* bound: tool calls one turn proposes
    MaxFaults       \* bound: evidence calls that fail in a behaviour

ASSUME GuidedRunAssumption ==
    /\ MaxAttempts \in Nat \ {0} /\ MaxTurns \in Nat \ {0}
    /\ MaxTools \in Nat \ {0} /\ MaxFaults \in Nat

VARIABLES
    pc,             \* where the worker thread is
    run,            \* the driver's locals, one record
    operation,      \* the provider operation: its watcher, token and flag
    cancelled,      \* the prompt's cancellation token
    context,        \* the user messages of the session, oldest first
    stopping,       \* how far SessionHandle::shutdown got: 0 to 3 assignments
    ack,            \* what the person was last told of each message
    noticed,        \* the final notices attempted for each message
    faults

driver == <<pc, run, operation>>
person == <<stopping, ack>>
vars == <<mailbox, driver, cancelled, context, person, noticed, faults>>

Final == {"delivered", "withdrawn", "dropped"}

Reply == {"answer", "tools", "length", "invalid", "transient", "fatal"}

Turn == {"answer", "tools", "length", "invalid"}

NoRun == [batch |-> << >>, renewed |-> FALSE, unattended |-> 0, attempt |-> 1,
          requested |-> 0, reply |-> "none", tools |-> 0, event |-> FALSE,
          interrupted |-> FALSE, stopped |-> FALSE, failure |-> "none",
          error |-> FALSE, outcome |-> "none", closing |-> {}]

NoOperation == [watcher |-> "off", cancelled |-> FALSE, steered |-> FALSE]

SinkClosed == stopping > 0

Stopped == cancelled \/ IsShutdown

Goto(label) == pc' = label

Notify(ids, state) ==
    noticed' = [id \in Id |-> IF id \in ids THEN noticed[id] \cup {state}
                                            ELSE noticed[id]]

Recorded == UNCHANGED faults

Presented == ~SinkClosed /\ UNCHANGED faults

EvidenceFails ==
    \/ SinkClosed /\ UNCHANGED faults
    \/ faults < MaxFaults /\ faults' = faults + 1

\* `?` on an evidence call: the driver leaves its loop with the error.
Leave == Goto("finish") /\ run' = [run EXCEPT !.error = TRUE]

FailEvidence == EvidenceFails /\ Leave

Fail(cause) == Goto("finish") /\ run' = [run EXCEPT !.failure = cause]

Break == Goto("finish") /\ UNCHANGED run

\* The locals of one turn end with it.
Again(attempt) ==
    /\ Goto("loop")
    /\ run' = [run EXCEPT !.attempt = attempt, !.reply = "none", !.tools = 0,
                          !.event = FALSE, !.interrupted = FALSE,
                          !.stopped = FALSE]

-----------------------------------------------------------------------------
(* The worker thread between prompts.                                      *)

TakePrompt ==
    /\ pc = "wait" /\ ~SinkClosed /\ CanTakeTask
    /\ NextTask
    /\ Goto("prompt")
    /\ run' = [NoRun EXCEPT !.batch = <<Head(mailbox.tasks)>>]
    /\ UNCHANGED <<operation, cancelled, context, person, noticed, faults>>

StopWaiting ==
    /\ pc = "wait" /\ (SinkClosed \/ IsShutdown)
    /\ Goto("stop")
    /\ UNCHANGED <<mailbox, run, operation, cancelled, context, person,
                   noticed, faults>>

RecordPrompt ==
    /\ pc = "prompt"
    /\ \/ /\ SinkClosed /\ Recorded
          /\ Goto("stop") /\ UNCHANGED <<run, context>>
       \/ /\ ~SinkClosed /\ EvidenceFails
          /\ Goto("stop") /\ UNCHANGED <<run, context>>
       \/ /\ ~SinkClosed /\ Recorded
          /\ context' = context \o run.batch
          /\ Goto("begin") /\ run' = NoRun
    /\ UNCHANGED <<mailbox, operation, cancelled, person, noticed>>

Begin ==
    /\ pc = "begin"
    /\ \/ /\ IsShutdown /\ Recorded
          /\ Goto("stop") /\ UNCHANGED <<mailbox, run>>
       \/ /\ ~IsShutdown /\ BeginRun
          /\ \/ Recorded /\ Goto("loop") /\ UNCHANGED run
             \/ FailEvidence
    /\ UNCHANGED <<operation, cancelled, context, person, noticed>>

-----------------------------------------------------------------------------
(* The top of the loop: deliver what the person said.                      *)

TopOfLoop ==
    /\ pc = "loop"
    /\ cancelled' = Stopped
    /\ \/ Stopped /\ Recorded /\ Break /\ UNCHANGED <<mailbox, noticed>>
       \/ /\ ~Stopped /\ DrainWithdrawals
          /\ \/ /\ mailbox.withdrawn = << >> /\ Recorded
                /\ Goto("claim") /\ UNCHANGED <<run, noticed>>
             \/ /\ mailbox.withdrawn # << >> /\ Presented
                /\ Notify(Range(mailbox.withdrawn), "withdrawn")
                /\ Goto("claim") /\ UNCHANGED run
             \/ \E n \in 1..Len(mailbox.withdrawn) :
                /\ Notify(Range(SubSeq(mailbox.withdrawn, 1, n)), "withdrawn")
                /\ FailEvidence
    /\ UNCHANGED <<operation, context, person>>

ClaimGuidance ==
    /\ pc = "claim"
    /\ Claim
    /\ run' = [run EXCEPT !.batch = Claimable, !.renewed = FALSE]
    /\ Goto("deliver")
    /\ UNCHANGED <<operation, cancelled, context, person, noticed, faults>>

\* Accepted, claimed, and either dropped or recorded as a prompt.
AnnounceClaim ==
    /\ pc = "deliver" /\ run.batch # << >>
    /\ \/ FailEvidence /\ UNCHANGED <<mailbox, noticed>>
       \/ /\ ~Stopped /\ Presented
          /\ Goto("push") /\ UNCHANGED <<mailbox, run, noticed>>
       \/ /\ Stopped
          /\ Notify({Head(run.batch).id}, "dropped")
          /\ \/ /\ Presented
                /\ CompleteClaim(Head(run.batch).id)
                /\ run' = [run EXCEPT !.batch = Tail(@)]
                /\ UNCHANGED pc
             \/ FailEvidence /\ UNCHANGED mailbox
    /\ UNCHANGED <<operation, cancelled, context, person>>

\* deliver_if_open, mark_delivered, the final notice and complete_claim.
Push ==
    /\ pc = "push"
    /\ LET message == Head(run.batch)
           state == IF Stopped THEN "dropped" ELSE "delivered"
       IN  /\ context' = IF Stopped THEN context ELSE Append(context, message)
           /\ Notify({message.id}, state)
           /\ \/ /\ Presented
                 /\ CompleteClaim(message.id)
                 /\ run' = [run EXCEPT !.batch = Tail(@),
                                       !.renewed = @ \/ ~Stopped]
                 /\ Goto("deliver")
              \/ /\ FailEvidence
                 /\ IF Stopped THEN UNCHANGED mailbox
                               ELSE MarkDelivered(message.id)
    /\ UNCHANGED <<operation, cancelled, person>>

\* Mutant: the attempts of a prompt are not limited.
PrepareTurnUnbounded ==
    /\ pc = "deliver" /\ run.batch = << >>
    /\ LET unattended == IF run.renewed THEN 0 ELSE run.unattended
       IN  /\ unattended < MaxTurns /\ Presented
           /\ Goto("attempt")
           /\ run' = [run EXCEPT !.unattended = unattended + 1,
                                 !.renewed = FALSE, !.requested = Len(context)]
    /\ UNCHANGED <<mailbox, operation, cancelled, context, person, noticed>>

\* Delivered guidance renews the unattended turns and the attempts.
PrepareTurn ==
    /\ pc = "deliver" /\ run.batch = << >>
    /\ LET unattended == IF run.renewed THEN 0 ELSE run.unattended
           attempt == IF run.renewed THEN 1 ELSE run.attempt
       IN  \/ /\ unattended >= MaxTurns /\ Presented
              /\ Goto("finish")
              /\ run' = [run EXCEPT !.outcome = "limit"]
           \/ /\ unattended < MaxTurns /\ attempt > MaxAttempts
              /\ Recorded /\ Leave
           \/ /\ unattended < MaxTurns /\ attempt <= MaxAttempts
              /\ Presented
              /\ Goto("attempt")
              /\ run' = [run EXCEPT !.unattended = unattended + 1,
                                    !.attempt = attempt, !.renewed = FALSE,
                                    !.requested = Len(context)]
           \/ FailEvidence
    /\ UNCHANGED <<mailbox, operation, cancelled, context, person, noticed>>

-----------------------------------------------------------------------------
(* One attempt of one turn.                                                *)

StartAttempt ==
    /\ pc = "attempt"
    /\ cancelled' = Stopped
    /\ \/ Stopped /\ Recorded /\ Break
       \/ ~Stopped /\ HasPending /\ Recorded /\ Again(run.attempt)
       \/ /\ ~Stopped /\ ~HasPending
          /\ \/ Presented /\ Goto("start") /\ UNCHANGED run
             \/ FailEvidence
    /\ UNCHANGED <<mailbox, operation, context, person, noticed>>

StartOperation ==
    /\ pc = "start"
    /\ cancelled' = Stopped
    /\ \/ Stopped /\ Break /\ UNCHANGED operation
       \/ /\ ~Stopped
          /\ operation' = [NoOperation EXCEPT !.watcher = "poll"]
          /\ Goto("stream") /\ UNCHANGED run
    /\ UNCHANGED <<mailbox, context, person, noticed, faults>>

\* The callback of a streamed event stops an interrupted operation; evidence
\* that fails in it is returned once the operation has ended.
StreamEvent ==
    /\ pc = "stream"
    /\ \/ /\ Stopped \/ HasPending
          /\ run' = [run EXCEPT !.event = HasPending, !.reply = "cancelled"]
          /\ UNCHANGED <<cancelled, faults>>
       \/ /\ ~Stopped /\ ~HasPending
          /\ EvidenceFails
          /\ run' = [run EXCEPT !.reply = "evidence"]
          /\ cancelled' \in {cancelled, TRUE}
    /\ operation' = [operation EXCEPT !.cancelled = TRUE]
    /\ Goto("ended")
    /\ UNCHANGED <<mailbox, context, person, noticed>>

StreamReturns(reply) ==
    /\ pc = "stream"
    /\ run' = [run EXCEPT !.reply = reply]
    /\ Goto("ended")
    /\ UNCHANGED <<mailbox, operation, cancelled, context, person, noticed,
                   faults>>

\* A quiet provider ends once its operation's token is cancelled.
StreamStops == operation.cancelled /\ StreamReturns("cancelled")

ReadSteered ==
    /\ pc = "ended"
    /\ run' = [run EXCEPT !.interrupted = run.event \/ operation.steered]
    /\ Goto("read")
    /\ UNCHANGED <<mailbox, operation, cancelled, context, person, noticed,
                   faults>>

ReadToken ==
    /\ pc = "read"
    /\ run' = [run EXCEPT !.stopped = operation.cancelled]
    /\ Goto("join")
    /\ UNCHANGED <<mailbox, operation, cancelled, context, person, noticed,
                   faults>>

\* What an operation that nobody interrupted came to.
Settle ==
    \/ run.stopped /\ Recorded /\ Fail("cancelled")
    \/ /\ ~run.stopped
       /\ \/ run.reply \in Turn /\ Recorded /\ Goto("turn") /\ UNCHANGED run
          \/ /\ run.reply = "length" /\ run.attempt < MaxAttempts /\ Presented
             /\ Goto("attempt")
             /\ run' = [run EXCEPT !.attempt = @ + 1, !.reply = "none"]
          \/ /\ run.reply = "transient" /\ run.attempt < MaxAttempts
             /\ Presented
             /\ Goto("backoff")
             /\ run' = [run EXCEPT !.attempt = @ + 1, !.reply = "none"]
          \/ /\ \/ run.reply = "fatal"
                \/ run.reply = "transient" /\ run.attempt >= MaxAttempts
             /\ Recorded /\ Fail("provider")
          \/ /\ run.reply \in {"length", "transient"}
             /\ run.attempt < MaxAttempts
             /\ FailEvidence

\* Dropping the operation joins its watcher, which may still have to fire.
JoinOperation ==
    /\ pc = "join" /\ operation.watcher # "fire"
    /\ operation' = NoOperation
    /\ \/ /\ run.reply = "evidence"
          /\ Recorded /\ Leave /\ UNCHANGED cancelled
       \/ run.reply \in Turn /\ FailEvidence /\ UNCHANGED cancelled
       \/ /\ run.reply # "evidence"
          /\ cancelled' = Stopped
          /\ \/ /\ ~Stopped /\ (run.interrupted \/ HasPending)
                /\ Recorded /\ Again(run.attempt + 1)
             \/ Stopped /\ Recorded /\ Break
             \/ ~Stopped /\ ~run.interrupted /\ ~HasPending /\ Settle
    /\ UNCHANGED <<mailbox, context, person, noticed>>

Backoff ==
    /\ pc = "backoff"
    /\ \/ cancelled /\ Break
       \/ ~cancelled /\ HasPending /\ Again(run.attempt)
       \/ ~cancelled /\ ~HasPending /\ Goto("attempt") /\ UNCHANGED run
    /\ UNCHANGED <<mailbox, operation, cancelled, context, person, noticed,
                   faults>>

\* Mutant: the watcher does not look for guidance.
WatchQuietly ==
    /\ operation.watcher = "poll" /\ (cancelled \/ IsShutdown)
    /\ operation' = [operation EXCEPT !.watcher = "fire"]
    /\ UNCHANGED <<mailbox, pc, run, cancelled, context, person, noticed,
                   faults>>

\* The watcher's two looks at the mailbox are two steps.
Watch ==
    /\ operation.watcher = "poll" /\ (Stopped \/ HasPending)
    /\ operation' = [operation EXCEPT !.watcher = "fire"]
    /\ UNCHANGED <<mailbox, pc, run, cancelled, context, person, noticed,
                   faults>>

Fire ==
    /\ operation.watcher = "fire"
    /\ operation' = [watcher |-> "done", cancelled |-> TRUE,
                     steered |-> HasPending]
    /\ UNCHANGED <<mailbox, pc, run, cancelled, context, person, noticed,
                   faults>>

-----------------------------------------------------------------------------
(* A complete turn: an answer, or tools to dispatch one by one.            *)

AcceptTurn ==
    /\ pc = "turn"
    /\ cancelled' = Stopped
    /\ \/ Stopped /\ Break
       \/ ~Stopped /\ HasPending /\ Again(1)
       \/ /\ ~Stopped /\ ~HasPending
          /\ \/ run.reply \in {"length", "invalid"} /\ Fail("provider")
             \/ /\ run.reply = "answer"
                /\ Goto("final") /\ run' = [run EXCEPT !.attempt = 1]
             \/ /\ run.reply = "tools"
                /\ Goto("tools")
                /\ \E n \in 1..MaxTools :
                      run' = [run EXCEPT !.attempt = 1, !.tools = n]
    /\ UNCHANGED <<mailbox, operation, context, person, noticed, faults>>

\* Every call left gets a result that says it was not executed.
RejectRest ==
    \/ Presented /\ Goto("batch") /\ run' = [run EXCEPT !.tools = 0]
    \/ FailEvidence

RecordDispatch ==
    /\ pc = "tools"
    /\ IF Stopped \/ HasPending \/ run.failure # "none"
       THEN RejectRest
       ELSE \/ Recorded /\ Goto("dispatch") /\ UNCHANGED run
            \/ FailEvidence
    /\ UNCHANGED <<mailbox, operation, cancelled, context, person, noticed>>

Dispatch ==
    /\ pc = "dispatch"
    /\ IF DispatchReady /\ ~cancelled
       THEN Recorded /\ Goto("execute") /\ UNCHANGED run
       ELSE RejectRest
    /\ UNCHANGED <<mailbox, operation, cancelled, context, person, noticed>>

\* A tool that reports cancellation cancels the whole prompt.
Execute ==
    /\ pc = "execute"
    /\ \/ \E failure \in {"none", "tool"} :
             /\ Presented
             /\ Goto(IF run.tools = 1 THEN "batch" ELSE "tools")
             /\ run' = [run EXCEPT !.tools = @ - 1, !.failure = failure]
             /\ cancelled' \in {cancelled, cancelled \/ failure = "none"}
       \/ FailEvidence /\ UNCHANGED cancelled
    /\ UNCHANGED <<mailbox, operation, context, person, noticed>>

EndBatch ==
    /\ pc = "batch"
    /\ \/ FailEvidence
       \/ /\ Presented
          /\ IF cancelled \/ run.failure # "none" THEN Break ELSE Again(1)
    /\ UNCHANGED <<mailbox, operation, cancelled, context, person, noticed>>

Answer ==
    /\ pc = "final"
    /\ \/ FailEvidence /\ UNCHANGED mailbox
       \/ cancelled /\ Presented /\ Break /\ UNCHANGED mailbox
       \/ ~cancelled /\ HasPending /\ Presented /\ Again(1) /\ UNCHANGED mailbox
       \/ /\ ~cancelled /\ ~HasPending /\ Presented /\ FinishIfIdle
          /\ Goto("finish") /\ run' = [run EXCEPT !.outcome = "completed"]
    /\ UNCHANGED <<operation, cancelled, context, person, noticed>>

-----------------------------------------------------------------------------
(* The end of a prompt.                                                    *)

StoppingReason ==
    IF run.error \/ run.failure # "none" THEN "failed"
    ELSE IF run.outcome = "limit" THEN "limit"
    ELSE IF cancelled THEN "cancelled"
    ELSE run.outcome

Closing ==
    {<<id, "withdrawn">> : id \in Range(mailbox.withdrawn)}
      \cup {<<entry.id, IF entry.delivered THEN "delivered" ELSE "dropped">> :
               entry \in Range(mailbox.claimed)}

DrainAtEnd ==
    /\ pc = "finish"
    /\ DrainClaims
    /\ run' = [NoRun EXCEPT !.error = run.error, !.outcome = StoppingReason,
                            !.requested = run.requested, !.closing = Closing]
    /\ Goto("end")
    /\ UNCHANGED <<operation, cancelled, context, person, noticed, faults>>

\* Every notice is attempted, whatever becomes of the ones before it.
EndPrompt ==
    /\ pc = "end"
    /\ EndRun
    /\ LET notices == run.closing \cup {<<id, "dropped">> : id \in EndedWithout}
       IN  noticed' = [id \in Id |->
                         noticed[id] \cup {n[2] : n \in
                             {notice \in notices : notice[1] = id}}]
    /\ \/ Presented /\ run' = [NoRun EXCEPT !.error = run.error]
       \/ EvidenceFails /\ run' = [NoRun EXCEPT !.error = TRUE]
    /\ Goto("return")
    /\ UNCHANGED <<operation, cancelled, context, person>>

\* A failed prompt ends the worker; any other leaves the token armed.
Return ==
    /\ pc = "return"
    /\ run' = NoRun
    /\ IF SinkClosed \/ run.error
       THEN Goto("stop") /\ UNCHANGED cancelled
       ELSE Goto("wait") /\ cancelled' = FALSE
    /\ UNCHANGED <<mailbox, operation, context, person, noticed, faults>>

StopWorker ==
    /\ pc = "stop"
    /\ Shutdown
    /\ Goto("gone") /\ run' = NoRun
    /\ UNCHANGED <<operation, cancelled, context, person, noticed, faults>>

-----------------------------------------------------------------------------
(* The person.  steer is submit refused by an idle mailbox.                *)

Submit ==
    /\ CanEnqueue /\ Enqueue
    /\ ack' = [ack EXCEPT ![mailbox.sequence + 1] =
                  IF mailbox.active THEN "guidance" ELSE "task"]
    /\ UNCHANGED <<driver, cancelled, context, stopping, noticed, faults>>

Edit(id) ==
    /\ EditPending(id)
    /\ ack' = [ack EXCEPT ![id] = "edited"]
    /\ UNCHANGED <<driver, cancelled, context, stopping, noticed, faults>>

Withdraw(id) ==
    /\ WithdrawPending(id)
    /\ ack' = [ack EXCEPT ![id] = "withdrawn"]
    /\ UNCHANGED <<driver, cancelled, context, stopping, noticed, faults>>

Cancel ==
    /\ MayCancel
    /\ cancelled' = TRUE
    /\ UNCHANGED <<mailbox, driver, context, person, noticed, faults>>

\* The prompt's own watcher turns a terminal interrupt into cancellation.
Interrupt ==
    /\ pc \notin {"wait", "prompt", "return", "stop", "gone"}
    /\ cancelled' = TRUE
    /\ UNCHANGED <<mailbox, driver, context, person, noticed, faults>>

StopSession ==
    /\ stopping < 3
    /\ stopping' = stopping + 1
    /\ IF stopping = 1 THEN Shutdown ELSE UNCHANGED mailbox
    /\ cancelled' = (cancelled \/ stopping = 2)
    /\ UNCHANGED <<driver, context, ack, noticed, faults>>

-----------------------------------------------------------------------------
Init ==
    /\ mailbox = EmptyMailbox
    /\ pc = "wait" /\ run = NoRun /\ operation = NoOperation
    /\ cancelled = FALSE /\ context = << >> /\ stopping = 0
    /\ ack = [id \in Id |-> "none"] /\ noticed = [id \in Id |-> {}]
    /\ faults = 0

Worker ==
    \/ TakePrompt \/ StopWaiting \/ RecordPrompt \/ Begin
    \/ TopOfLoop \/ ClaimGuidance \/ AnnounceClaim \/ Push \/ PrepareTurn
    \/ StartAttempt \/ StartOperation \/ StreamStops
    \/ ReadSteered \/ ReadToken \/ JoinOperation \/ Backoff
    \/ AcceptTurn \/ RecordDispatch \/ Dispatch \/ Execute \/ EndBatch
    \/ Answer \/ DrainAtEnd \/ EndPrompt \/ Return \/ StopWorker

Watcher == Watch \/ Fire

Provider == StreamEvent \/ \E reply \in Reply : StreamReturns(reply)

Person ==
    \/ Submit \/ Cancel \/ Interrupt \/ StopSession
    \/ \E id \in Id : Edit(id) \/ Withdraw(id)

Next == Worker \/ Watcher \/ Provider \/ Person

Spec == Init /\ [][Next]_vars

\* The two threads keep running; nothing makes the provider or the person act.
Fairness == WF_vars(Worker) /\ WF_vars(Watcher)

FairSpec == Spec /\ Fairness

-----------------------------------------------------------------------------
Label == {"wait", "prompt", "begin", "loop", "claim", "deliver", "push",
          "attempt", "start", "stream", "ended", "read", "join", "backoff",
          "turn", "tools", "dispatch", "execute", "batch", "final", "finish",
          "end", "return", "stop", "gone"}

(* The state is well formed: the mailbox never holds more messages than    *)
(* CAPACITY nor more withdrawal notices, the watcher runs only during an   *)
(* operation, and attempts go at most one past the retry policy's limit.   *)
TypeOK ==
    /\ mailbox \in State
    /\ Len(mailbox.guidance) + Len(mailbox.tasks) + Len(mailbox.claimed)
           <= Capacity
    /\ Len(mailbox.withdrawn) <= Capacity
    /\ pc \in Label
    /\ run.attempt \in 1..(MaxAttempts + 1)
    /\ run.unattended \in 0..MaxTurns
    /\ run.tools \in 0..MaxTools
    /\ run.requested <= Len(context)
    /\ operation \in [watcher : {"off", "poll", "fire", "done"},
                      cancelled : BOOLEAN, steered : BOOLEAN]
    /\ operation.watcher # "off" => pc \in {"stream", "ended", "read", "join"}
    /\ cancelled \in BOOLEAN
    /\ context \in Seq(Guidance)
    /\ stopping \in 0..3
    /\ ack \in [Id -> {"none", "task", "guidance", "edited", "withdrawn"}]
    /\ noticed \in [Id -> SUBSET Final]
    /\ faults \in 0..MaxFaults

InContext(id) == id \in Range(IdsOf(context))

Accepted(id) == ack[id] \in {"guidance", "edited"}

(* The final notices of a message tell what became of it, also after the   *)
(* recorder or the sink failed: one that says delivered is in the context, *)
(* with the text last acknowledged, one that says dropped or withdrawn is  *)
(* not, and once a prompt has returned each accepted message that nobody   *)
(* withdrew has its notice (deliver_guidance and run_controlled's cleanup  *)
(* against submit, edit, withdraw and shutdown).                           *)
DispositionsAreTrue ==
    /\ \A id \in Id :
          /\ "delivered" \in noticed[id] => InContext(id)
          /\ noticed[id] \cap {"dropped", "withdrawn"} # {} => ~InContext(id)
    /\ \A i \in DOMAIN context :
          /\ ack[context[i].id] # "withdrawn"
          /\ context[i].text = 1 <=> ack[context[i].id] = "edited"
    /\ pc \in {"return", "wait"} =>
          \A id \in Id : Accepted(id) => noticed[id] # {}

\* The request the model last answered held the message, or it was dropped.
Heeded(id) ==
    \/ id \in Range(IdsOf(SubSeq(context, 1, run.requested)))
    \/ "dropped" \in noticed[id]

(* No tool is dispatched, and no answer ends a prompt, on a reply to a     *)
(* request that lacked guidance accepted by then: dispatch_ready and       *)
(* finish_if_idle settle the race between a reply and a submission.        *)
ActsOnAllGuidance ==
    [][ \/ pc = "dispatch" /\ pc' = "execute"
        \/ pc = "final" /\ run'.outcome = "completed" /\ ~mailbox.closed
        => \A id \in Id : Accepted(id) => Heeded(id) ]_vars

(* A cancellation, however late, stops the prompt it was meant for and no  *)
(* other: the worker waits for the next prompt with its token armed unless *)
(* the session is being stopped (cancel_active against finish_if_idle,     *)
(* end_run and the worker's reset).                                        *)
CancelStaysWithItsPrompt ==
    pc = "wait" /\ cancelled => stopping = 3

(* Accepted guidance is delivered, withdrawn or reported as dropped, or    *)
(* the worker ends: a quiet provider, a backoff or a tool delays it, none  *)
(* withholds it for ever.                                                  *)
GuidanceSettles ==
    \A id \in Id :
        Accepted(id) ~> \/ noticed[id] # {} \/ ack[id] = "withdrawn"
                        \/ pc = "gone"

(* A prompt fails as cancelled only if it was: an operation interrupted    *)
(* for guidance that is then withdrawn is retried (was_steered).           *)
InterruptionIsNotFailure == run.failure # "cancelled"
==============================================================================
