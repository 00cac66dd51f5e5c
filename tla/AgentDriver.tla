---------------------------- MODULE AgentDriver -----------------------------
(***************************************************************************)
(* One agent of the agent loop (core/agent-loop/src/agent.ts) with its     *)
(* inbox (core/agent/src/inbox.ts): waking input starts a driver, the      *)
(* driver runs turns made of steps, claims queued messages at turn and     *)
(* step boundaries, and returns to idle; cancellation aborts the current   *)
(* turn, maintenance tasks run between turns, disposal is a cancel that    *)
(* nobody takes back.                                                      *)
(*                                                                         *)
(* An action is what runs without an await.  Between two of them any other *)
(* code may send, cancel or remove a message; where the code publishes an  *)
(* event in the middle of its own work (a splice's notification inside     *)
(* send, the status change when a driver starts or retires, each splice of *)
(* a claim, step/start and the messages of a step, turn/end), the work is  *)
(* split there, and only what a listener may do can come in between (Calm  *)
(* says that no such work is open).                                        *)
(***************************************************************************)
EXTENDS Naturals, SequencesExt

CONSTANTS
    Msg,      \* messages, each sent at most once
    MaxSteps  \* bound: steps of a turn after which the model stops asking for tools

VARIABLES
    nextTurn,       \* inbox: prompts awaiting a turn of their own
    nextStep,       \* inbox: input for the nearest step
    phase,          \* this.phase.kind
    aborted,        \* cause of the current activity's abort signal, or "no"
    wakeRequested,  \* this.phase.wakeRequested
    step,           \* this.phase.step
    pc,             \* where kick(), turn() and step() are
    claimed,        \* messages claimed for the proposed step
    ending,         \* turn()'s turnEnds
    delivery,       \* a send between its insertion and its wakeDriver call
    unwinding,      \* a retiring driver between its idle status and its replay
    settled,        \* this.activityDone is resolved
    waiter,         \* a caller of whenIdle
    entered,        \* messages logged as user input of a step
    gone,           \* messages discarded, rejected, or rewritten away
    waking,         \* history: messages sent with wakeup
    parked,         \* history: messages left in the inbox on purpose
    late,           \* history: wakes that met a driver past its last look
    disposed        \* the lifecycle has disposed of the agent

inbox == <<nextTurn, nextStep>>
driver == <<phase, aborted, wakeRequested, step, pc, claimed, ending>>
activity == <<settled, waiter, disposed>>
fates == <<entered, gone>>
history == <<waking, parked, late>>
vars == <<nextTurn, nextStep, phase, aborted, wakeRequested, step, pc, claimed,
          ending, delivery, unwinding, settled, waiter, entered, gone, waking,
          parked, late, disposed>>

Pending == ToSet(nextTurn) \cup ToSet(nextStep)
Sent == Pending \cup claimed \cup entered \cup gone

(* "reserved": wakeDriver has published the running phase, kick() has yet   *)
(* to run; "preStep", "step", "stopping": the awaits of turn(); "claimSteps",*)
(* "claimPrompt": the first or the second splice of a claim is being       *)
(* published, and the list it cuts is still whole; "opening": step/start   *)
(* and then the messages of the step are being published; "closing":       *)
(* turn/end is; "again", "stopped": turn() has returned true, or has       *)
(* returned false or thrown, and kick() has not resumed.                   *)
Claiming == {"claimSteps", "claimPrompt"}
Publishing == Claiming \cup {"opening", "closing"}
Pc == {"none", "reserved", "preStep", "step", "stopping", "again", "stopped"}
      \cup Publishing

TypeOK ==
    /\ nextTurn \in Seq(Msg) /\ nextStep \in Seq(Msg)
    /\ phase \in {"idle", "maintenance", "running"}
    /\ aborted \in {"no", "user", "disposed"}
    /\ wakeRequested \in BOOLEAN
    /\ step \in Nat
    /\ pc \in Pc
    /\ claimed \subseteq Msg
    /\ ending \in {"none", "completed", "max-tokens"}
    /\ delivery \in {"none", "wake", "wakeAfterAbort"}
    /\ unwinding \in {"none", "plain", "replay"}
    /\ settled \in BOOLEAN
    /\ waiter \in {"none", "current", "previous", "done"}
    /\ entered \subseteq Msg /\ gone \subseteq Msg
    /\ waking \subseteq Msg /\ parked \subseteq Msg /\ late \subseteq Msg
    /\ disposed \in BOOLEAN

Init ==
    /\ nextTurn = <<>> /\ nextStep = <<>>
    /\ phase = "idle" /\ aborted = "no" /\ wakeRequested = FALSE
    /\ step = 0 /\ pc = "none" /\ claimed = {} /\ ending = "none"
    /\ delivery = "none" /\ unwinding = "none"
    /\ settled = TRUE /\ waiter = "none"
    /\ entered = {} /\ gone = {}
    /\ waking = {} /\ parked = {} /\ late = {} /\ disposed = FALSE

-----------------------------------------------------------------------------
(* No publication is open in the middle of a send, of a retirement, or of a *)
(* turn, and no driver is between its reservation and its first turn.      *)
Calm == delivery = "none" /\ unwinding = "none" /\ pc \notin Publishing \cup {"reserved"}

(* A new activity replaces activityDone; who awaits the old one looks      *)
(* again when that settles.                                                *)
NewActivity ==
    /\ settled' = FALSE
    /\ waiter' = IF waiter = "current" THEN "previous" ELSE waiter
    /\ UNCHANGED disposed

(* wakeDriver from idle: reserve the running phase and publish it.         *)
StartDriver ==
    /\ phase' = "running"
    /\ aborted' = "no"
    /\ wakeRequested' = FALSE
    /\ step' = 0
    /\ pc' = "reserved"
    /\ ending' = "none"
    /\ parked' = {}
    /\ late' = {}
    /\ NewActivity
    /\ UNCHANGED claimed

(* wakeDriver's latch: maintenance and aborted drivers cannot deliver the  *)
(* wake, a live driver claims queued work itself, disposal never latches   *)
(* (the variant drops the aborted driver).                                 *)
LatchesMaintenance(wakeAfterAbort) == aborted # "disposed" /\ phase = "maintenance"
Latches(wakeAfterAbort) ==
    aborted # "disposed" /\ (phase = "maintenance" \/ wakeAfterAbort)

(* wakeDriver                                                              *)
WakeDriver(wakeAfterAbort) ==
    IF phase = "idle"
    THEN StartDriver
    ELSE /\ wakeRequested' = (wakeRequested \/ Latches(wakeAfterAbort))
         /\ UNCHANGED <<phase, aborted, step, pc, claimed, ending, activity,
                        parked, late>>

-----------------------------------------------------------------------------
(* The session refuses an append from a listener of another append, so a   *)
(* listener of a turn's events changes no queue; and sends are not nested  *)
(* here.                                                                   *)
MayAppend == delivery = "none" /\ pc \notin Publishing

(* Waking input cannot join an aborted activity.                           *)
WakingAfterAbort(wakeup) == wakeup /\ phase # "idle" /\ aborted # "no"

(* send, up to the notification of its splice: followup(m) is              *)
(* Send(m, "next-turn", TRUE), steer(m) is Send(m, "next-step", TRUE) and  *)
(* inject(m) is Send(m, "next-step", FALSE).                               *)
Send(m, target, wakeup) ==
    /\ m \notin Sent
    /\ MayAppend
    /\ IF target = "next-turn" \/ WakingAfterAbort(wakeup)
       THEN nextTurn' = Append(nextTurn, m) /\ UNCHANGED nextStep
       ELSE nextStep' = Append(nextStep, m) /\ UNCHANGED nextTurn
    /\ delivery' = CASE ~wakeup -> "none"
                     [] wakeup /\ WakingAfterAbort(wakeup) -> "wakeAfterAbort"
                     [] OTHER -> "wake"
    /\ waking' = IF wakeup THEN waking \cup {m} ELSE waking
    /\ parked' = IF WakingAfterAbort(wakeup) /\ aborted = "disposed"
                 THEN parked \cup {m} ELSE parked
    /\ late' = IF wakeup /\ pc = "stopped" /\ aborted = "no"
               THEN late \cup {m} ELSE late
    /\ UNCHANGED <<driver, unwinding, activity, fates>>

(* send, after the notification.                                           *)
Wake ==
    /\ delivery # "none"
    /\ delivery' = "none"
    /\ WakeDriver(delivery = "wakeAfterAbort")
    /\ UNCHANGED <<inbox, unwinding, fates, waking>>

(* cancel, from anywhere, a listener's reentrant call included: without    *)
(* keepInbox it clears the queues and the latch; the first cause wins.     *)
Cancel(cause, keepInbox) ==
    /\ keepInbox \/ Pending = {} \/ pc \notin Publishing
    /\ IF keepInbox
       THEN UNCHANGED <<inbox, gone, wakeRequested>>
       ELSE /\ nextTurn' = <<>> /\ nextStep' = <<>>
            /\ gone' = gone \cup Pending
            /\ wakeRequested' = FALSE
    /\ aborted' = IF phase # "idle" /\ aborted = "no" THEN cause ELSE aborted
    /\ parked' = IF keepInbox /\ phase = "running" /\ aborted = "no"
                 THEN parked \cup (Pending \cap waking) ELSE parked
    /\ UNCHANGED <<phase, step, pc, claimed, ending, delivery, unwinding,
                   settled, waiter, entered, waking, late>>

CancelTurn ==
    /\ \E keepInbox \in BOOLEAN : Cancel("user", keepInbox)
    /\ UNCHANGED disposed

(* The lifecycle's dispose, once: cancel with the disposed cause, then wait *)
(* for whenIdle.                                                           *)
Dispose ==
    /\ ~disposed
    /\ Cancel("disposed", FALSE)
    /\ disposed' = TRUE

(* inbox.remove: a plugin withdraws one pending message.                   *)
Withdraw(m) ==
    /\ MayAppend
    /\ \/ \E i \in DOMAIN nextTurn :
             /\ nextTurn[i] = m
             /\ nextTurn' = RemoveAt(nextTurn, i)
             /\ UNCHANGED nextStep
       \/ \E i \in DOMAIN nextStep :
             /\ nextStep[i] = m
             /\ nextStep' = RemoveAt(nextStep, i)
             /\ UNCHANGED nextTurn
    /\ gone' = gone \cup {m}
    /\ UNCHANGED <<driver, delivery, unwinding, activity, entered, history>>

-----------------------------------------------------------------------------
(* runMaintenance claims the idle phase; public status does not change.    *)
MaintenanceStart ==
    /\ phase = "idle"
    /\ phase' = "maintenance"
    /\ aborted' = "no"
    /\ wakeRequested' = FALSE
    /\ NewActivity
    /\ UNCHANGED <<inbox, step, pc, claimed, ending, delivery, unwinding, fates,
                   history>>

(* The task settles: back to idle, replay the latched wake.                *)
MaintenanceEnd ==
    /\ phase = "maintenance"
    /\ Calm
    /\ IF wakeRequested /\ Pending # {}
       THEN StartDriver
       ELSE /\ phase' = "idle"
            /\ aborted' = "no"
            /\ wakeRequested' = FALSE
            /\ settled' = TRUE
            /\ UNCHANGED <<step, pc, claimed, ending, waiter, disposed, parked,
                           late>>
    /\ UNCHANGED <<inbox, delivery, unwinding, fates, waking>>

-----------------------------------------------------------------------------
(* What a claim of the first n prompts leaves in the queue (the variant    *)
(* cuts one message late).                                                 *)
PromptsLeftOneMore(n) == SubSeq(nextTurn, n, Len(nextTurn))
PromptsLeft(n) == SubSeq(nextTurn, n + 1, Len(nextTurn))

(* inbox.claim: all next-step input and, at a turn boundary, one prompt,   *)
(* each by a splice of its own if there is something to take.  A listener  *)
(* may abort the turn; the claim goes on all the same.                     *)
AfterSteps == IF step = 0 /\ nextTurn # <<>> THEN "claimPrompt" ELSE "preStep"
FirstClaim == IF nextStep # <<>> THEN "claimSteps" ELSE AfterSteps

ClaimSteps ==
    /\ pc = "claimSteps"
    /\ claimed' = ToSet(nextStep)
    /\ nextStep' = <<>>
    /\ pc' = AfterSteps
    /\ UNCHANGED <<nextTurn, phase, aborted, wakeRequested, step, ending, delivery,
                   unwinding, activity, fates, history>>

ClaimPrompt ==
    /\ pc = "claimPrompt"
    /\ claimed' = claimed \cup {nextTurn[1]}
    /\ nextTurn' = PromptsLeft(1)
    /\ pc' = "preStep"
    /\ UNCHANGED <<nextStep, phase, aborted, wakeRequested, step, ending, delivery,
                   unwinding, activity, fates, history>>

(* turn() leaves without looking at the queue: it was rejected, failed or  *)
(* was aborted, or its first proposed step turned out to be empty.         *)
LeaveTurn(park) ==
    /\ pc' = "stopped"
    /\ claimed' = {}
    /\ gone' = gone \cup claimed
    /\ ending' = "none"
    /\ parked' = IF park THEN parked \cup (Pending \cap waking) ELSE parked
    /\ UNCHANGED <<inbox, phase, aborted, wakeRequested, step, entered, late>>

(* turn() is over and publishes turn/end; its listeners may still cancel.  *)
EndTurn ==
    /\ pc' = "closing"
    /\ ending' = "none"
    /\ claimed' = {}
    /\ gone' = gone \cup claimed
    /\ UNCHANGED <<inbox, phase, aborted, wakeRequested, step, entered, parked,
                   late>>

bystanders == <<delivery, unwinding, activity, waking>>

(* An empty inbox stops the driver; otherwise another turn runs under a    *)
(* fresh signal, to which no earlier cancel or latch applies.              *)
CloseTurn ==
    /\ pc = "closing"
    /\ IF Pending = {}
       THEN pc' = "stopped" /\ UNCHANGED <<aborted, wakeRequested, step>>
       ELSE pc' = "again" /\ aborted' = "no" /\ wakeRequested' = FALSE /\ step' = 0
    /\ UNCHANGED <<inbox, phase, claimed, ending, fates, parked, late, bystanders>>

(* A turn claims only under a live signal; kick() contains the abort of an *)
(* earlier one outside its loop (the variant claims regardless).           *)
MayClaimAborted == TRUE
MayClaim == aborted = "no"

(* turn(): kick() runs its first one in the job that reserved the driver   *)
(* and the later ones when it resumes.                                     *)
BeginTurn ==
    /\ \/ pc = "reserved" /\ delivery = "none"
       \/ pc = "again" /\ Calm
    /\ pc' = IF MayClaim THEN FirstClaim ELSE "stopped"
    /\ UNCHANGED <<inbox, phase, aborted, wakeRequested, step, claimed, ending,
                   fates, parked, late, bystanders>>

(* preStep() comes back: aborted; thrown or rejected, which end the turn   *)
(* alike; or entered with the batch as claimed or rewritten to nothing.    *)
PreStepAborts ==
    /\ pc = "preStep" /\ Calm /\ aborted # "no"
    /\ LeaveTurn(FALSE)
    /\ UNCHANGED bystanders

PreStepFails ==
    /\ pc = "preStep" /\ Calm /\ aborted = "no"
    /\ LeaveTurn(TRUE)
    /\ UNCHANGED bystanders

(* The number of the step to open.                                         *)
StepNumber == step + 1

(* The step opens: step/start is published, then each message of the batch *)
(* is logged, whether or not a listener has aborted the turn meanwhile.    *)
OpenStep(batch) ==
    /\ pc' = "opening"
    /\ step' = StepNumber
    /\ claimed' = batch
    /\ gone' = gone \cup (claimed \ batch)
    /\ UNCHANGED <<inbox, phase, aborted, wakeRequested, ending, entered, parked,
                   late>>

EnterMessages ==
    /\ pc = "opening"
    /\ \/ \E m \in claimed :
             /\ claimed' = claimed \ {m}
             /\ entered' = entered \cup {m}
             /\ UNCHANGED pc
       \/ /\ claimed = {}
          /\ pc' = "step"
          /\ UNCHANGED <<claimed, entered>>
    /\ UNCHANGED <<inbox, phase, aborted, wakeRequested, step, ending, gone, parked,
                   late, bystanders>>

PreStepEnters ==
    /\ pc = "preStep" /\ Calm /\ aborted = "no"
    /\ \E batch \in {claimed, {}} :
          CASE ending # "none" /\ batch = {} -> EndTurn
            [] ending = "none" /\ step = 0 /\ batch = {} -> LeaveTurn(TRUE)
            [] OTHER -> OpenStep(batch)
    /\ UNCHANGED bystanders

(* step() returned and the loop goes on: at a turn that has no reason to   *)
(* go on, ask agent/turn-stopping; else claim for the next step.           *)
StepReturns ==
    /\ pc = "step" /\ Calm /\ aborted = "no"
    /\ \E end \in {"completed", "max-tokens", "none"} :
          /\ end = "none" => step < MaxSteps
          /\ ending' = IF ending = "max-tokens" THEN ending ELSE end
          /\ pc' = IF ending' # "none" /\ nextStep = <<>>
                   THEN "stopping" ELSE FirstClaim
    /\ UNCHANGED <<inbox, phase, aborted, wakeRequested, step, claimed, fates,
                   parked, late, bystanders>>

StepAborts ==
    /\ pc = "step" /\ Calm /\ aborted # "no"
    /\ LeaveTurn(FALSE)
    /\ UNCHANGED bystanders

StepFails ==
    /\ pc = "step" /\ Calm /\ aborted = "no"
    /\ LeaveTurn(TRUE)
    /\ UNCHANGED bystanders

(* agent/turn-stopping settled: a listener may have steered.               *)
StoppingDone ==
    /\ pc = "stopping" /\ Calm /\ aborted = "no"
    /\ IF nextStep = <<>>
       THEN EndTurn
       ELSE /\ pc' = FirstClaim
            /\ UNCHANGED <<inbox, phase, aborted, wakeRequested, step, claimed,
                           ending, fates, parked, late>>
    /\ UNCHANGED bystanders

StoppingAborts ==
    /\ pc = "stopping" /\ Calm /\ aborted # "no"
    /\ LeaveTurn(FALSE)
    /\ UNCHANGED bystanders

StoppingFails ==
    /\ pc = "stopping" /\ Calm /\ aborted = "no"
    /\ LeaveTurn(TRUE)
    /\ UNCHANGED bystanders

(* kick() keeps what the latch said before the idle phase replaces it (the *)
(* variant looks after).                                                   *)
UnwindingForgets == "plain"
Unwinding == IF wakeRequested THEN "replay" ELSE "plain"

(* Its finally publishes the idle phase ...                                *)
Retire ==
    /\ pc = "stopped" /\ Calm
    /\ pc' = "none"
    /\ phase' = "idle"
    /\ aborted' = "no"
    /\ wakeRequested' = FALSE
    /\ step' = 0
    /\ unwinding' = Unwinding
    /\ UNCHANGED <<inbox, claimed, ending, delivery, activity, fates, history>>

(* The promise of the activity resolves; activityDone is that promise      *)
(* unless a listener has started another activity.                         *)
Resolved == settled \/ phase = "idle"

(* ... and then replays the wake latched behind it.                        *)
Replay ==
    /\ unwinding # "none"
    /\ delivery = "none" /\ pc \notin Publishing \cup {"reserved"}
    /\ unwinding' = "none"
    /\ IF unwinding = "replay" /\ Pending # {}
       THEN WakeDriver(FALSE)
       ELSE /\ settled' = Resolved
            /\ UNCHANGED <<driver, waiter, disposed, parked, late>>
    /\ UNCHANGED <<inbox, delivery, fates, waking>>

-----------------------------------------------------------------------------
(* whenIdle: await activityDone until it is the one that was awaited.      *)
AfterPrevious == "current"

WhenIdle ==
    /\ waiter \in {"none", "done"}
    /\ waiter' = "current"
    /\ UNCHANGED <<inbox, driver, delivery, unwinding, settled, disposed, fates,
                   history>>

WaiterResumes ==
    /\ Calm
    /\ \/ waiter = "previous" /\ waiter' = AfterPrevious
       \/ waiter = "current" /\ settled /\ waiter' = "done"
    /\ UNCHANGED <<inbox, driver, delivery, unwinding, settled, disposed, fates,
                   history>>

Driver ==
    \/ BeginTurn
    \/ ClaimSteps \/ ClaimPrompt
    \/ PreStepAborts \/ PreStepFails \/ PreStepEnters
    \/ EnterMessages
    \/ StepReturns \/ StepAborts \/ StepFails
    \/ StoppingDone \/ StoppingAborts \/ StoppingFails
    \/ CloseTurn
    \/ Retire

Next ==
    \/ \E m \in Msg, target \in {"next-turn", "next-step"}, wakeup \in BOOLEAN :
          Send(m, target, wakeup)
    \/ Wake
    \/ CancelTurn
    \/ Dispose
    \/ \E m \in Msg : Withdraw(m)
    \/ MaintenanceStart
    \/ MaintenanceEnd
    \/ Driver
    \/ Replay
    \/ WhenIdle
    \/ WaiterResumes

Spec == Init /\ [][Next]_vars

(* The runtime resumes settled awaits; models, tools, listeners and        *)
(* maintenance tasks eventually answer.  Nobody is obliged to send, cancel,*)
(* withdraw or dispose.                                                    *)
Fairness ==
    /\ WF_vars(Wake)
    /\ WF_vars(Driver)
    /\ WF_vars(Replay)
    /\ WF_vars(MaintenanceEnd)
    /\ WF_vars(WaiterResumes)

FairSpec == Spec /\ Fairness

-----------------------------------------------------------------------------
(* Every message sent is in exactly one place: pending once in one queue,  *)
(* claimed, logged as input, or gone.  Claims that span both queues,       *)
(* reroutes, clears and rejected or aborted proposals neither lose nor     *)
(* duplicate one.                                                          *)
Places == <<ToSet(nextTurn), ToSet(nextStep), claimed, entered, gone>>

MessagesAccounted ==
    /\ \A q \in {nextTurn, nextStep} : \A i, j \in DOMAIN q : q[i] = q[j] => i = j
    /\ \A i, j \in 1..5 : i # j => Places[i] \cap Places[j] = {}
    /\ waking \subseteq Sent

(* No message is lost or doubled, and every variable has its type.         *)
Inv == TypeOK /\ MessagesAccounted

(* No wake is lost: once the agent is idle, whatever waking input is still *)
(* queued was left there on purpose (a cancel that keeps the inbox, a      *)
(* rejected, failed or empty turn, a disposal) or came in after turn() had *)
(* looked at the queue for the last time.                                  *)
Quiescent == phase = "idle" /\ delivery = "none" /\ unwinding = "none"

NoLostWake == Quiescent => Pending \cap waking \subseteq parked \cup late

(* "an idle driver starts a turn; a running driver consumes it at its next *)
(* step boundary": the same without the exception, which the code does not *)
(* keep.  A wake in the job gap between turn()'s last look and kick()'s    *)
(* idle transition is neither claimed nor latched.                         *)
NoStrandedWake == Quiescent => Pending \cap waking \subseteq parked

(* Cancellation is final for its turn: once the signal is aborted, no      *)
(* claim begins and no step opens until a fresh signal is in place.  What  *)
(* a listener aborts from within is finished: the claim takes its prompt,  *)
(* to discard it, and the step that has opened logs its messages, to end   *)
(* without a model call.                                                   *)
AbortStopsTurn ==
    [][ aborted # "no" /\ aborted' = aborted =>
          /\ pc' \in Claiming => pc \in Claiming
          /\ pc' = "opening" => pc = "opening"
          /\ claimed' \subseteq claimed \/ pc \in Claiming
          /\ entered' = entered \/ pc = "opening" ]_vars

(* whenIdle returns only when no driver and no maintenance task is active. *)
WhenIdleMeansIdle ==
    [][ waiter # "done" /\ waiter' = "done" => phase = "idle" /\ pc = "none" ]_vars

(* A waking message is eventually claimed or discarded, unless left queued *)
(* as in NoLostWake.                                                       *)
WakeServed ==
    \A m \in Msg : m \in waking ~> m \notin Pending \ (parked \cup late)

(* Who waits for idleness is released, unless maintenance tasks keep being *)
(* started (each replaces the promise that is awaited).                    *)
WhenIdleReturns ==
    \/ []<><<MaintenanceStart>>_vars
    \/ waiter = "current" ~> waiter = "done"

(* Whoever waits for the driver is served: the sender of a waking message, *)
(* and the caller of whenIdle, who is not told too early either.           *)
Served == WakeServed /\ WhenIdleReturns /\ WhenIdleMeansIdle
=============================================================================
