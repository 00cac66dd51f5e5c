-------------------------- MODULE ScheduleRuntime --------------------------
(***************************************************************************)
(* Reminders of one session: the schedule/change events and their fold     *)
(* (schedule/src/domain.ts), the tools that create, list and delete        *)
(* (tools.ts), the queue that serialises them (transaction.ts), and the    *)
(* owner that derives a timer from the fold and queues reminders while the *)
(* agent is idle (runtime.ts).                                             *)
(*                                                                         *)
(* The stored log is kept as what it folds to, and the events that are not *)
(* durable yet as a sequence.  An action runs to its next await.           *)
(***************************************************************************)
EXTENDS Naturals, Sequences, FiniteSets, SequencesExt

CONSTANTS
    Caller,     \* tool calls under way at once
    MaxId,      \* bound: reminders ever created
    MaxTime,    \* the last instant that can be represented
    Interval,   \* of a fixed-rate reminder
    MaxTurns,   \* bound: turns the user starts
    MaxMishaps  \* bound: failed flushes and appends, clock rollbacks, disposals, crashes

ASSUME BoundsAssumption ==
    /\ {MaxId, MaxTime, MaxTurns, MaxMishaps} \subseteq Nat
    /\ Interval \in Nat \ {0}

VARIABLES
    now,       \* the wall clock
    stored,    \* what the durable log folds to
    pending,   \* the schedule/change events that are not durable
    life,      \* of the owner: "live", "stopping" (disposed), "gone"
    agent,     \* "idle", "busy" (a turn, or its wake is due)
    turns,     \* turns the user started
    queue,     \* transactions: the owner's drive, or a tool call
    stage,     \* of the first one: "ready", "preflight", "barrier"
    run,       \* this.run: "none", "driving", "looping", "settling"
    requested, \* this.requested
    timer,     \* the target the timer is armed for
    idleWait,  \* this.idleWait is set
    faulted,   \* this.faulted
    call,      \* per caller: the tool call and whether it was aborted
    reminded,  \* history: occurrences a follow-up was queued for
    twice,     \* history: one of them was queued again
    stalled,   \* history: the last drive failed, and nothing asked again
    mishaps    \* how many of MaxMishaps happened

log == <<stored, pending>>
owner == <<life, run, requested, timer, idleWait, faulted, stalled>>
vars == <<now, log, agent, turns, queue, stage, owner, call, reminded, twice, mishaps>>

Id == 1..MaxId
Time == 0..MaxTime
Drive == "drive"
None == MaxTime + 1
Record == [kind : {"one", "every"}, at : Time]
Change == [do : {"create"}, id : Id, record : Record]
          \cup [do : {"delete"}, id : Id] \cup [do : {"dispatch"}, id : Id, accepted : Time]
Request == {[do |-> "list"]} \cup [do : {"delete"}, id : Id]
           \cup [do : {"create"}, kind : {"one", "every"}, delay : 1..Interval]
NoCall == [do |-> "none"]
Working == [asks |-> NoCall, aborted |-> FALSE]

TypesOK ==
    /\ now \in Time /\ turns \in 0..MaxTurns /\ mishaps \in 0..MaxMishaps
    /\ stored.seen \subseteq Id /\ DOMAIN stored.active \subseteq stored.seen
    /\ \A i \in DOMAIN stored.active : stored.active[i] \in Record
    /\ pending \in Seq(Change)
    /\ life \in {"live", "stopping", "gone"} /\ agent \in {"idle", "busy"}
    /\ queue \in Seq({Drive} \cup Caller) /\ stage \in {"ready", "preflight", "barrier"}
    /\ run \in {"none", "driving", "looping", "settling"}
    /\ timer \in Time \cup {None}
    /\ {requested, idleWait, faulted, stalled, twice} \subseteq BOOLEAN
    /\ \A c \in Caller : call[c].asks \in Request \cup {NoCall} /\ call[c].aborted \in BOOLEAN
    /\ reminded \subseteq Id \X Time

-----------------------------------------------------------------------------
(* The fold of the log. *)

Without(active, i) == [j \in DOMAIN active \ {i} |-> active[j]]
With(active, i, record) == [j \in DOMAIN active \cup {i} |-> IF j = i THEN record ELSE active[j]]

(* The latest occurrence that is due, skipping the ones missed before it. *)
occurrence(record, accepted) ==
    IF record.kind = "one" THEN record.at
    ELSE record.at + ((accepted - record.at) \div Interval) * Interval

\* a variant: the next target counts from the one that was due first
dispatchedFromTarget(active, i, accepted) ==
    LET next == active[i].at + Interval
    IN  IF active[i].kind = "one" \/ next > MaxTime THEN Without(active, i)
        ELSE With(active, i, [active[i] EXCEPT !.at = next])

(* A dispatched one-shot is over, and so is a fixed rate at the end of time. *)
dispatched(active, i, accepted) ==
    LET next == occurrence(active[i], accepted) + Interval
    IN  IF active[i].kind = "one" \/ next > MaxTime THEN Without(active, i)
        ELSE With(active, i, [active[i] EXCEPT !.at = next])

Legal(folded, change) ==
    CASE change.do = "create" -> change.id \notin folded.seen
      [] change.do = "delete" -> change.id \in DOMAIN folded.active
      [] change.do = "dispatch" ->
            /\ change.id \in DOMAIN folded.active
            /\ folded.active[change.id].kind = "every" => change.accepted >= folded.active[change.id].at

foldChange(folded, change) ==
    CASE change.do = "create" ->
            [active |-> With(folded.active, change.id, change.record), seen |-> folded.seen \cup {change.id}]
      [] change.do = "delete" -> [folded EXCEPT !.active = Without(@, change.id)]
      [] change.do = "dispatch" -> [folded EXCEPT !.active = dispatched(@, change.id, change.accepted)]

foldScheduleEvents == FoldLeft(foldChange, stored, pending)

\* a variant: the reminders that are left are counted
allocateScheduleIdLeft(folded) ==
    CHOOSE i \in Id : i \notin DOMAIN folded.active

allocateScheduleId(folded) ==
    LET first == Cardinality(folded.seen) + 1
    IN  CHOOSE i \in first..first + MaxId : i \notin folded.seen /\ first..i - 1 \subseteq folded.seen

(* What is due: the earliest one-shot alone, or all fixed rates at once. *)
DueIds(active, kind) == {i \in DOMAIN active : active[i].kind = kind /\ active[i].at <= now}
dueDecision(active) ==
    LET one == DueIds(active, "one")
    IN  IF one = {} THEN DueIds(active, "every")
        ELSE {CHOOSE i \in one : \A j \in one :
                active[i].at < active[j].at \/ (active[i].at = active[j].at /\ i <= j)}

nextTarget(active) ==
    LET future == {active[i].at : i \in DOMAIN active} \ 0..now
    IN  IF future = {} THEN None ELSE CHOOSE t \in future : \A u \in future : t <= u

-----------------------------------------------------------------------------
NoLog == [active |-> [i \in {} |-> 0], seen |-> {}]

Init ==
    /\ now = 0 /\ stored = NoLog /\ pending = <<>>
    /\ life = "live" /\ agent = "idle" /\ turns = 0
    /\ queue = <<Drive>> /\ stage = "ready"
    /\ run = "driving" /\ requested = FALSE /\ timer = None /\ idleWait = FALSE
    /\ faulted = FALSE /\ stalled = FALSE
    /\ call = [c \in Caller |-> Working]
    /\ reminded = {} /\ twice = FALSE /\ mishaps = 0

Mishap == mishaps < MaxMishaps /\ mishaps' = mishaps + 1

(* requestDrive, over the queue as the action leaves it. *)
requestDrive(q) ==
    IF life # "live" \/ faulted THEN queue' = q /\ UNCHANGED <<timer, run, requested, stalled>>
    ELSE /\ timer' = None /\ stalled' = FALSE
         /\ requested' = (run # "none")
         /\ IF run = "none" THEN run' = "driving" /\ queue' = Append(q, Drive)
            ELSE queue' = q /\ UNCHANGED run

NoDrive(q) == queue' = q /\ UNCHANGED <<timer, run, requested, stalled>>

-----------------------------------------------------------------------------
(* The owner. *)

(* runRequested, between two transactions. *)
Loop ==
    /\ run = "looping"
    /\ IF requested /\ life = "live" /\ ~faulted
       THEN run' = "driving" /\ requested' = FALSE /\ queue' = Append(queue, Drive)
       ELSE run' = "settling" /\ UNCHANGED <<requested, queue>>
    /\ UNCHANGED <<now, log, life, timer, idleWait, faulted, stalled, agent, turns, stage, call, reminded, twice, mishaps>>

\* a variant: the owner goes without a look at what was asked meanwhile
RetireBlindly ==
    /\ run = "settling" /\ run' = "none"
    /\ UNCHANGED <<now, log, life, requested, timer, queue, idleWait, faulted, stalled, agent, turns, stage, call, reminded, twice, mishaps>>

(* retire: a trigger may have come in the last promise job. *)
Retire ==
    /\ run = "settling"
    /\ IF requested /\ life = "live" /\ ~faulted
       THEN run' = "driving" /\ requested' = FALSE /\ queue' = Append(queue, Drive) /\ timer' = None
       ELSE run' = "none" /\ UNCHANGED <<requested, queue, timer>>
    /\ UNCHANGED <<now, log, life, idleWait, faulted, stalled, agent, turns, stage, call, reminded, twice, mishaps>>

Driving(at) == queue # <<>> /\ Head(queue) = Drive /\ stage = at

DriveEnds == queue' = Tail(queue) /\ stage' = "ready" /\ run' = "looping"

BeginDrive ==
    /\ Driving("ready")
    /\ timer' = None
    /\ IF life = "live" THEN stage' = "preflight" /\ UNCHANGED <<queue, run>> ELSE DriveEnds
    /\ UNCHANGED <<now, log, life, requested, idleWait, faulted, stalled, agent, turns, call, reminded, twice, mishaps>>

Flushed == stored' = foldScheduleEvents /\ pending' = <<>>

(* Nothing is due: arm the timer.  Something is, and the agent is busy:    *)
(* wait for it outside the transaction.                                    *)
Wait(active) ==
    /\ DriveEnds
    /\ IF life = "stopping" THEN UNCHANGED <<timer, idleWait>>
       ELSE IF dueDecision(active) = {} THEN timer' = nextTarget(active) /\ UNCHANGED idleWait
       ELSE idleWait' = TRUE /\ UNCHANGED timer
    /\ UNCHANGED <<agent, faulted, stalled, reminded, twice, mishaps>>

(* The idle phase is claimed: queue the follow-up, append the dispatches,  *)
(* all in one go; the follow-up's wake starts a turn when it is released.  *)
Dispatches(active) ==
    LET due == SetToSortSeq(dueDecision(active), LAMBDA i, j : i < j)
    IN  [k \in DOMAIN due |-> [do |-> "dispatch", id |-> due[k], accepted |-> now]]

Remind(active) ==
    /\ agent' = "busy"
    /\ LET these == {<<i, occurrence(active[i], now)>> : i \in dueDecision(active)}
       IN  reminded' = reminded \cup these /\ twice' = (twice \/ these \cap reminded # {})

DrivePreflight ==
    /\ Driving("preflight")
    /\ stored' = foldScheduleEvents
    /\ LET active == stored'.active
           due == dueDecision(active)
       IN  \/ /\ life = "stopping" \/ due = {} \/ agent = "busy"
              /\ Wait(active) /\ pending' = <<>>
           \/ /\ life # "stopping" /\ due # {} /\ agent = "idle"
              /\ Remind(active)
              /\ \/ /\ pending' = Dispatches(active)
                    /\ stage' = "barrier"
                    /\ UNCHANGED <<queue, run, timer, faulted, stalled, mishaps>>
                 \/ /\ Mishap /\ faulted' = TRUE /\ timer' = None
                    /\ \E n \in 0..Cardinality(due) - 1 : pending' = SubSeq(Dispatches(active), 1, n)
                    /\ DriveEnds /\ UNCHANGED stalled
              /\ UNCHANGED idleWait
    /\ UNCHANGED <<now, life, requested, turns, call>>

(* The follow-up throws: nothing is dispatched, nothing tries again. *)
FollowupFails ==
    /\ Driving("preflight") /\ life = "live" /\ agent = "idle" /\ Mishap
    /\ dueDecision(foldScheduleEvents.active) # {}
    /\ Flushed
    /\ DriveEnds /\ stalled' = ~requested
    /\ UNCHANGED <<now, life, requested, timer, idleWait, faulted, agent, turns, call, reminded, twice>>

DriveBarrier ==
    /\ Driving("barrier")
    /\ Flushed
    /\ queue' = Tail(queue) /\ stage' = "ready" /\ run' = "looping"
    /\ IF life = "live" /\ ~faulted THEN timer' = None /\ requested' = TRUE /\ stalled' = FALSE
       ELSE UNCHANGED <<timer, requested, stalled>>
    /\ UNCHANGED <<now, life, idleWait, faulted, agent, turns, call, reminded, twice, mishaps>>

(* A flush that rejects, before or after: some of the events may be stored. *)
DriveFlushFails ==
    /\ (Driving("preflight") \/ Driving("barrier")) /\ Mishap
    /\ DriveEnds /\ stalled' = ~requested
    /\ UNCHANGED <<now, log, life, requested, timer, idleWait, faulted, agent, turns, call, reminded, twice>>

(* The timer fires at its target, or before: the delay is cut to what a    *)
(* timer can represent, and the clock may have been set back.              *)
Wake ==
    /\ timer # None
    /\ requestDrive(queue)
    /\ UNCHANGED <<now, log, life, idleWait, faulted, agent, turns, stage, call, reminded, twice, mishaps>>

TimerFires == timer # None /\ now >= timer /\ Wake

(* Promise.race of whenIdle and the stop. *)
IdleWaitEnds ==
    /\ idleWait /\ (agent = "idle" \/ life = "stopping")
    /\ idleWait' = FALSE
    /\ requestDrive(queue)
    /\ UNCHANGED <<now, log, life, faulted, agent, turns, stage, call, reminded, twice, mishaps>>

dispose ==
    /\ life = "live" /\ Mishap
    /\ life' = "stopping" /\ requested' = FALSE /\ timer' = None
    /\ UNCHANGED <<now, log, run, idleWait, faulted, stalled, agent, turns, queue, stage, call, reminded, twice>>

(* What the disposal waits for; tool calls that are left end without it.   *)
Disposed ==
    /\ life = "stopping" /\ run = "none" /\ ~idleWait
    /\ life' = "gone"
    /\ UNCHANGED <<now, log, run, requested, timer, idleWait, faulted, stalled, agent, turns, queue, stage, call, reminded, twice, mishaps>>

-----------------------------------------------------------------------------
(* The tools. *)

Calling(c, at) == queue # <<>> /\ Head(queue) = c /\ stage = at
Creating == {c \in Caller : call[c].asks.do = "create" /\ ~Calling(c, "barrier")}

Call(c) ==
    /\ life = "live" /\ agent = "busy" /\ call[c] = Working
    /\ \E r \in Request :
        /\ r.do = "create" => Cardinality(foldScheduleEvents.seen) + Cardinality(Creating) < MaxId
        /\ call' = [call EXCEPT ![c].asks = r]
    /\ queue' = Append(queue, c)
    /\ UNCHANGED <<now, log, owner, agent, turns, stage, reminded, twice, mishaps>>

Abort(c) ==
    /\ call[c] # Working /\ ~call[c].aborted
    /\ call' = [call EXCEPT ![c].aborted = TRUE]
    /\ UNCHANGED <<now, log, owner, agent, turns, queue, stage, reminded, twice, mishaps>>

Answer(c) == call' = [call EXCEPT ![c] = Working] /\ stage' = "ready"

BeginCall(c) ==
    /\ Calling(c, "ready")
    /\ IF call[c].aborted THEN Answer(c) /\ queue' = Tail(queue)
       ELSE stage' = "preflight" /\ UNCHANGED <<call, queue>>
    /\ UNCHANGED <<now, log, owner, agent, turns, reminded, twice, mishaps>>

NewRecord(r) == [kind |-> r.kind, at |-> now + (IF r.kind = "every" THEN Interval ELSE r.delay)]

(* What a call appends; nothing for a list, an unknown id, a target out of *)
(* range or an aborted call.                                               *)
Appended(r, folded) ==
    CASE r.do = "create" /\ NewRecord(r).at \in Time ->
            <<[do |-> "create", id |-> allocateScheduleId(folded), record |-> NewRecord(r)]>>
      [] r.do = "delete" /\ r.id \in DOMAIN folded.active -> <<[do |-> "delete", id |-> r.id]>>
      [] OTHER -> <<>>

CallPreflight(c) ==
    /\ Calling(c, "preflight")
    /\ stored' = foldScheduleEvents
    /\ pending' = IF call[c].aborted THEN <<>> ELSE Appended(call[c].asks, stored')
    /\ IF pending' = <<>> THEN Answer(c) /\ requestDrive(Tail(queue))
       ELSE /\ stage' = "barrier" /\ requestDrive(queue) /\ UNCHANGED call
    /\ UNCHANGED <<now, life, idleWait, faulted, agent, turns, reminded, twice, mishaps>>

CallBarrier(c) ==
    /\ Calling(c, "barrier")
    /\ Flushed
    /\ Answer(c) /\ requestDrive(Tail(queue))
    /\ UNCHANGED <<now, life, idleWait, faulted, agent, turns, reminded, twice, mishaps>>

(* persistence_uncertain *)
CallFails(c) ==
    /\ (Calling(c, "preflight") \/ Calling(c, "barrier")) /\ Mishap
    /\ Answer(c) /\ NoDrive(Tail(queue))
    /\ UNCHANGED <<now, log, life, idleWait, faulted, agent, turns, reminded, twice>>

-----------------------------------------------------------------------------
(* Around them: the clock, the agent, the write-behind, the process. *)

Tick ==
    /\ now < MaxTime /\ \E t \in now + 1..MaxTime : now' = t
    /\ UNCHANGED <<log, owner, agent, turns, queue, stage, call, reminded, twice, mishaps>>

SetBack ==
    /\ now > 0 /\ Mishap /\ now' = now - 1
    /\ UNCHANGED <<log, owner, agent, turns, queue, stage, call, reminded, twice>>

UserTurn ==
    /\ life = "live" /\ agent = "idle" /\ turns < MaxTurns
    /\ agent' = "busy" /\ turns' = turns + 1
    /\ UNCHANGED <<now, log, owner, queue, stage, call, reminded, twice, mishaps>>

(* The idle status; its listener asks if the log has schedule events. *)
TurnEnds ==
    /\ agent = "busy" /\ \A c \in Caller : call[c] = Working
    /\ agent' = "idle"
    /\ IF life = "live" /\ (stored.seen # {} \/ pending # <<>>) THEN requestDrive(queue) ELSE NoDrive(queue)
    /\ UNCHANGED <<now, log, life, idleWait, faulted, turns, stage, call, reminded, twice, mishaps>>

Persist ==
    /\ pending # <<>>
    /\ stored' = foldChange(stored, Head(pending)) /\ pending' = Tail(pending)
    /\ UNCHANGED <<now, owner, agent, turns, queue, stage, call, reminded, twice, mishaps>>

Crash ==
    /\ life # "gone" /\ Mishap
    /\ life' = "gone" /\ agent' = "idle" /\ pending' = <<>>
    /\ queue' = <<>> /\ stage' = "ready" /\ run' = "none" /\ requested' = FALSE
    /\ timer' = None /\ idleWait' = FALSE
    /\ call' = [c \in Caller |-> Working]
    /\ UNCHANGED <<now, stored, faulted, stalled, turns, reminded, twice>>

(* The agent has come to rest and the session is resumed from what is      *)
(* stored: a new agent, a new owner.  Reminders whose dispatch was lost    *)
(* count as not given.                                                     *)
Given(i, t) == i \in stored.seen /\ (i \notin DOMAIN stored.active \/ stored.active[i].at > t)
Resume ==
    /\ life = "gone" /\ queue = <<>> /\ agent = "idle"
    /\ life' = "live" /\ pending' = <<>>
    /\ queue' = <<Drive>> /\ stage' = "ready" /\ run' = "driving" /\ requested' = FALSE
    /\ timer' = None /\ idleWait' = FALSE /\ faulted' = FALSE /\ stalled' = FALSE
    /\ reminded' = {x \in reminded : Given(x[1], x[2])}
    /\ UNCHANGED <<now, stored, agent, turns, call, twice, mishaps>>

-----------------------------------------------------------------------------
Transaction ==
    \/ BeginDrive \/ DrivePreflight \/ DriveBarrier
    \/ \E c \in Caller : BeginCall(c) \/ CallPreflight(c) \/ CallBarrier(c)
Owner == Loop \/ Retire

Next ==
    \/ Transaction \/ Owner
    \/ Wake \/ IdleWaitEnds \/ TurnEnds \/ DriveFlushFails \/ FollowupFails
    \/ \E c \in Caller : Call(c) \/ Abort(c) \/ CallFails(c)
    \/ Tick \/ SetBack \/ UserTurn \/ Persist \/ dispose \/ Disposed \/ Crash \/ Resume

Spec == Init /\ [][Next]_vars

(* Storage answers, promise jobs and timers run, time passes; a turn does  *)
(* not call tools for ever.                                                *)
Fairness ==
    /\ WF_vars(Transaction) /\ WF_vars(Owner)
    /\ WF_vars(TimerFires) /\ WF_vars(IdleWaitEnds)
    /\ SF_vars(TurnEnds) /\ WF_vars(Tick) /\ WF_vars(Disposed)
FairSpec == Spec /\ Fairness

-----------------------------------------------------------------------------
(* Properties *)

(* The log never becomes one that replay rejects: ids are fresh, what is   *)
(* deleted or dispatched is active, and no fixed rate is dispatched before *)
(* its target, although the owner and the tools decide from a fold they    *)
(* made before an await.                                                   *)
Inv ==
    /\ TypesOK
    /\ \A k \in DOMAIN pending :
        Legal(FoldLeft(foldChange, stored, SubSeq(pending, 1, k - 1)), pending[k])

(* No occurrence is reminded of twice, however drives, calls, failures and *)
(* the clock fall together, but for one whose dispatch was lost.           *)
RemindedOnce == ~twice

(* What is due is dispatched or deleted, or the owner has met a failure    *)
(* that only later activity makes good; every tool call is answered,       *)
(* although drives and calls wait for one another and drives for the turn  *)
(* the calls belong to; a disposal ends.                                   *)
Due(i) == LET active == foldScheduleEvents.active IN i \in DOMAIN active /\ active[i].at <= now
Served ==
    /\ \A i \in Id : Due(i) ~> ~Due(i) \/ stalled \/ faulted \/ life # "live"
    /\ \A c \in Caller : call[c] # Working ~> call[c] = Working
    /\ life = "stopping" ~> life = "gone"
=============================================================================
