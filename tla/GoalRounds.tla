----------------------------- MODULE GoalRounds -----------------------------
(***************************************************************************)
(* A session's goal and the driver that continues it in rounds: the goal   *)
(* service and its fold (goal/goal/src: index.ts, fold.ts), the driver     *)
(* with its fences (goal-round-driver/src/index.ts), and as much of the    *)
(* agent as they see (agent-loop/src/agent.ts, agent/src/inbox.ts).        *)
(*                                                                         *)
(* Listeners run inside what they listen to, so one action is everything   *)
(* up to the next await, and the operators that say what follows are       *)
(* functions of a world: goal, driver and agent.  Where a listener of the  *)
(* session's events may cancel in the middle of the agent's work, the work *)
(* is split: the session refuses to append from there, so that nothing     *)
(* else can happen (Publishing).                                           *)
(***************************************************************************)
EXTENDS Naturals, Sequences, SequencesExt

CONSTANTS
    Human,     \* messages of users and plugins
    Limits,    \* the values maxGoalRounds is given
    MaxRev,    \* bound: nobody asks for a mutation beyond this revision
    MaxKept,   \* bound: prompts that a cancel keeps in the inbox
    MaxWaiting \* bound: prompts that wait when maintenance starts

ASSUME BoundsAssumption ==
    Limits \subseteq Nat \ {0} /\ MaxRev \in Nat /\ MaxKept \in Nat /\ MaxWaiting \in Nat

VARIABLES
    goal,    \* its fold and its activation; revisions number all goals' changes
    driver,  \* DriverState of the agent
    agent,   \* phase and inbox
    life,    \* of the driver plugin: "live", "stopping", "gone"
    awaited, \* the unload awaits the agent's idleness
    sent,    \* history: human messages handed to the agent
    settled, \* history: those that entered, or went with their step or by a cancel
    held,    \* history: a turn was cancelled under this driver, and the goal not resumed since
    fenced   \* history: the proposed step was checked against this very goal

vars == <<goal, driver, agent, life, awaited, sent, settled, held, fenced>>
World == [goal |-> goal, driver |-> driver, agent |-> agent]

Round == [rev : Nat, round : Nat, copy : Nat]
NoMessage == [rev |-> 0, round |-> 0, copy |-> 0]
NoAttempt == [message |-> NoMessage, phase |-> "none", cancelled |-> FALSE, stale |-> FALSE]
Idler == [attempt |-> NoAttempt, competing |-> FALSE, needs |-> FALSE,
          requested |-> FALSE, run |-> "none"]

TypeOK ==
    /\ goal \in [phase : {"none", "active", "paused", "blocked", "complete", "broken"},
                 rev : Nat, rounds : Nat, max : Limits \cup {0}, armed : BOOLEAN]
    /\ driver.attempt.phase \in {"none", "queued", "claimed", "admitted"}
    /\ {driver.competing, driver.needs, driver.requested, awaited, held, fenced} \subseteq BOOLEAN
    /\ driver.run \in {"none", "loop", "flush"}
    /\ agent.at \in {"idle", "maintenance", "starting", "turnStart", "prompting", "deciding",
                    "refused", "approved", "stepStart", "stepping", "turnEnd", "stopped"}
    /\ {agent.aborted, agent.wake} \subseteq BOOLEAN
    /\ \A q \in {agent.turnQ, agent.stepQ, agent.batch} : \A i \in DOMAIN q : q[i] \in Human \cup Round
    /\ life \in {"live", "stopping", "gone"} /\ settled \subseteq sent /\ sent \subseteq Human

Init ==
    /\ goal = [phase |-> "none", rev |-> 0, rounds |-> 0, max |-> 0, armed |-> FALSE]
    /\ driver = Idler
    /\ agent = [at |-> "idle", aborted |-> FALSE, wake |-> FALSE,
                turnQ |-> <<>>, stepQ |-> <<>>, batch |-> <<>>]
    /\ life = "live" /\ awaited = FALSE
    /\ sent = {} /\ settled = {} /\ held = FALSE /\ fenced = FALSE

Become(w) == goal' = w.goal /\ driver' = w.driver /\ agent' = w.agent

-----------------------------------------------------------------------------
(* The agent's phase and inbox.  "starting": a driver is reserved or goes on  *)
(* to the next turn; "stopped": its last turn is over and kick() has not   *)
(* resumed; "turnStart", "stepStart", "turnEnd": that event is published.  *)

Running(a) == a.at \notin {"idle", "maintenance"}
InTurn(a) == a.at \in {"turnStart", "prompting", "deciding", "refused", "approved", "stepStart", "stepping"}
Publishing(a) == a.at \in {"turnStart", "stepStart", "turnEnd"}
Pending(a) == a.turnQ # <<>> \/ a.stepQ # <<>>
Humans(messages) == ToSet(messages) \cap Human
IsRound(m) == m \notin Human
Pursued(g) == g.phase = "active" /\ g.armed

Reserved(d) == d.attempt.phase # "none"

(* sameQueued compares what a message says, not which one it is. *)
sameQueued(d, m) ==
    Reserved(d) /\ IsRound(m) /\ m.rev = d.attempt.message.rev /\ m.round = d.attempt.message.round
Concerns(d, messages) == \E m \in ToSet(messages) : sameQueued(d, m)

(* Inbox.claim and the driver's listener: all of next-step, then for a new *)
(* turn the first of next-turn.                                            *)
Claim(w, messages) ==
    [w EXCEPT !.agent.at = "prompting", !.agent.batch = messages, !.agent.stepQ = <<>>,
              !.driver.attempt.phase = IF Concerns(w.driver, messages) THEN "claimed" ELSE @]

(* wakeDriver from idle and the end of a turn with more to do: a new signal. *)
Start(w) == [w EXCEPT !.agent.at = "starting", !.agent.aborted = FALSE, !.agent.wake = FALSE]

-----------------------------------------------------------------------------
(* The driver. *)

Disarmed(w) == [w EXCEPT !.goal.armed = FALSE]
Observed(w, seen) == IF life = "gone" THEN w ELSE seen

Ready(w) == life = "live" /\ ~Running(w.agent) /\ ~w.driver.competing

(* The next round is reserved and queued; an idle agent takes it at once,  *)
(* a maintained one replays the wake.                                      *)
Reserve(w) ==
    LET named(n) == [rev |-> w.goal.rev, round |-> w.goal.rounds + 1, copy |-> n]
        m == named(CHOOSE n \in 0..Len(w.agent.turnQ) : named(n) \notin ToSet(w.agent.turnQ \o w.agent.stepQ))
        queued == [w EXCEPT
            !.driver.attempt = [message |-> m, phase |-> "queued",
                                cancelled |-> FALSE, stale |-> FALSE],
            !.driver.run = "loop",
            !.agent.turnQ = Append(@, m)]
    IN  IF w.agent.at = "idle" THEN Start(queued) ELSE [queued EXCEPT !.agent.wake = TRUE]

Blocked(w) == [w EXCEPT !.goal.phase = "blocked", !.goal.rev = @ + 1, !.goal.armed = FALSE]

(* drive, past the checkpoint.  The change a block publishes finds this    *)
(* run: every change of the limit asks for a checkpoint first.             *)
Settle(w) ==
    LET looping == [w EXCEPT !.driver.run = "loop"]
    IN  CASE Reserved(w.driver) ->
               [looping EXCEPT !.driver.attempt = NoAttempt, !.driver.needs = TRUE,
                               !.driver.requested = TRUE]
          [] ~Reserved(w.driver) /\ ~Pursued(w.goal) -> looping
          [] ~Reserved(w.driver) /\ Pursued(w.goal) /\ w.goal.rounds >= w.goal.max ->
               [Blocked(looping) EXCEPT !.driver.needs = TRUE, !.driver.requested = TRUE]
          [] OTHER -> Reserve(w)

Drive(w) ==
    LET begun == [w EXCEPT !.driver.requested = FALSE]
    IN  CASE ~Ready(w) -> [begun EXCEPT !.driver.run = "loop"]
          [] Ready(w) /\ w.driver.needs ->
               [begun EXCEPT !.driver.needs = FALSE, !.driver.run = "flush"]
          [] OTHER -> Settle(begun)

RequestDropped(w) == \* a variant: what is asked during a run is forgotten
    IF life # "live" \/ w.driver.run # "none" THEN w ELSE Drive(w)

RequestDrive(w) ==
    CASE life # "live" -> w
      [] life = "live" /\ w.driver.run # "none" -> [w EXCEPT !.driver.requested = TRUE]
      [] OTHER -> Drive(w)

(* goal/changed *)
Changed(w) == Observed(w, RequestDrive([w EXCEPT !.driver.needs = TRUE]))

(* agent/status idle: an attempt that was not admitted, or was cancelled,  *)
(* pauses the goal.                                                        *)
OnIdle(w) ==
    LET calm == [w EXCEPT !.driver.competing = FALSE]
        attempt == w.driver.attempt
        unfinished == attempt.phase \in {"queued", "claimed"} \/ attempt.cancelled
    IN  CASE w.goal.phase = "broken" -> calm
          [] unfinished /\ Pursued(w.goal) ->
               RequestDrive(Changed([calm EXCEPT
                   !.driver.attempt = NoAttempt,
                   !.goal.phase = "paused", !.goal.rev = @ + 1, !.goal.armed = FALSE]))
          [] OTHER -> RequestDrive(calm)

(* kick's end: publish idle, then replay a wake that was latched. *)
Idle(w) ==
    LET calm == [w EXCEPT !.agent.at = "idle", !.agent.batch = <<>>,
                          !.agent.aborted = FALSE, !.agent.wake = FALSE]
        seen == Observed(calm, OnIdle(calm))
    IN  IF w.agent.wake /\ Pending(seen.agent) /\ seen.agent.at = "idle"
        THEN Start(seen) ELSE seen

(* turn/end aborted: the driver's own attempt, or other work. *)
AbortedForgets(w) == \* a variant: cancelling other work leaves the goal armed
    Observed(w, [w EXCEPT !.driver.attempt.cancelled = @ \/ w.driver.attempt.phase \in {"claimed", "admitted"}])

Aborted(w) ==
    Observed(w, IF w.driver.attempt.phase \in {"claimed", "admitted"}
                THEN [w EXCEPT !.driver.attempt.cancelled = TRUE]
                ELSE Disarmed(w))

(* turn() returns false or throws: turn/end is published and kick() awaits. *)
Stop(w) == [w EXCEPT !.agent.at = "stopped", !.agent.batch = <<>>]
AbortTurn(w) == Become(Stop(Aborted(w)))
(* agent/error, then the turn ends. *)
FailTurn(w) == Become(Stop(Observed(w, Disarmed(w))))

Dropped == settled' = settled \cup Humans(agent.batch)

-----------------------------------------------------------------------------
(* The goal service. *)

(* A mutation of the current goal by whoever holds its ref. *)
Mutations(g) ==
    LET next == [g EXCEPT !.rev = @ + 1]
        stop(phase) == {[next EXCEPT !.phase = phase, !.armed = FALSE]}
    IN  UNION {
        IF g.phase \in {"none", "complete"}
        THEN {[next EXCEPT !.phase = "active", !.rounds = 0, !.max = max, !.armed = TRUE]  : max \in Limits}
        ELSE {},
        IF g.phase \in {"active", "paused", "blocked", "complete"}
        THEN {[next EXCEPT !.max = max] : max \in Limits}
             \cup {[next EXCEPT !.phase = "none", !.rounds = 0, !.max = 0, !.armed = FALSE]}
        ELSE {},
        IF g.phase = "active" THEN stop("paused") \cup stop("blocked") ELSE {},
        IF g.phase \in {"active", "paused", "blocked"} THEN stop("complete") ELSE {},
        IF g.phase \in {"active", "paused", "blocked"} /\ ~Pursued(g) /\ g.rounds < g.max
        THEN {[next EXCEPT !.phase = "active", !.armed = TRUE]}
        ELSE {}}

Mutate ==
    /\ goal.rev < MaxRev /\ ~Publishing(agent)
    /\ \E g \in Mutations(goal) :
        /\ Become(Changed([World EXCEPT !.goal = g]))
        /\ held' = (held /\ ~(Pursued(g) /\ ~Pursued(goal)))
    /\ fenced' = FALSE
    /\ UNCHANGED <<sent, life, awaited, settled>>

(* applyGoalEvent on an entered message: a round that is not the next one  *)
(* makes every later read of the goal throw.                               *)
Admit(g, m) ==
    CASE ~IsRound(m) -> g
      [] IsRound(m) /\ g.phase = "active" /\ m.rev = g.rev /\ m.round = g.rounds + 1
         /\ m.round <= g.max -> [g EXCEPT !.rounds = m.round]
      [] OTHER -> [g EXCEPT !.phase = "broken", !.armed = FALSE]

-----------------------------------------------------------------------------
(* Senders and users. *)

Send(m) == ~Publishing(agent) /\ m \notin sent /\ sent' = sent \cup {m}

(* followup: a message that joins the queue makes a queued attempt stale.  *)
Followup(m) ==
    /\ Send(m)
    /\ LET inserted == Observed(World, [World EXCEPT
               !.driver.competing = TRUE,
               !.driver.attempt.stale = @ \/ driver.attempt.phase = "queued"])
           queued == [inserted EXCEPT !.agent.turnQ = Append(@, m)]
       IN  Become(CASE agent.at = "idle" -> Start(queued)
                    [] agent.at = "maintenance" \/ agent.aborted -> [queued EXCEPT !.agent.wake = TRUE]
                    [] OTHER -> queued)
    /\ UNCHANGED <<life, awaited, settled, held, fenced>>

(* inject: context for the next step, which wakes nobody. *)
Inject(m) ==
    /\ Send(m)
    /\ agent' = [agent EXCEPT !.stepQ = Append(@, m)]
    /\ UNCHANGED <<goal, driver, life, awaited, settled, held, fenced>>

(* cancel with keepInbox or without; clear() throws where it would have to   *)
(* append from a listener.                                                 *)
Cleared(w) ==
    [w EXCEPT !.driver.attempt.cancelled =
                  @ \/ Concerns(w.driver, w.agent.stepQ \o w.agent.turnQ),
              !.agent.turnQ = <<>>, !.agent.stepQ = <<>>, !.agent.wake = FALSE]
Cut(w) == [w EXCEPT !.agent.aborted = w.agent.at # "idle"]

Cancel(keepInbox) ==
    /\ IF keepInbox THEN Len(agent.turnQ) <= MaxKept ELSE ~Publishing(agent) \/ ~Pending(agent)
    /\ Become(Cut(IF keepInbox THEN World ELSE Cleared(World)))
    /\ settled' = IF keepInbox THEN settled
                  ELSE settled \cup Humans(agent.stepQ \o agent.turnQ)
    /\ held' = (held \/ (InTurn(agent) /\ life # "gone"))
    /\ UNCHANGED <<sent, life, awaited, fenced>>

(* runMaintenance: neither end of it changes the published status. *)
StartMaintenance ==
    /\ agent.at = "idle" /\ Len(agent.turnQ) <= MaxWaiting
    /\ agent' = [agent EXCEPT !.at = "maintenance"]
    /\ UNCHANGED <<sent, goal, driver, life, awaited, settled, held, fenced>>

EndMaintenance ==
    /\ agent.at = "maintenance"
    /\ LET calm == [World EXCEPT !.agent.at = "idle", !.agent.aborted = FALSE, !.agent.wake = FALSE]
       IN  Become(IF agent.wake /\ Pending(agent) THEN Start(calm) ELSE calm)
    /\ UNCHANGED <<sent, life, awaited, settled, held, fenced>>

-----------------------------------------------------------------------------
(* turn(), under its signal. *)

StartTurn ==
    /\ agent.at = "starting"
    /\ Become(IF agent.aborted THEN Stop(World) ELSE [World EXCEPT !.agent.at = "turnStart"])
    /\ UNCHANGED <<sent, life, awaited, settled, held, fenced>>

ClaimTurn ==
    /\ agent.at = "turnStart" /\ ~agent.aborted
    /\ Become(Claim([World EXCEPT !.agent.turnQ = SubSeq(@, 2, Len(@))],
                    agent.stepQ \o SubSeq(agent.turnQ, 1, 1)))
    /\ UNCHANGED <<sent, life, awaited, settled, held, fenced>>

(* A step is proposed to the listeners of agent/pre-step, the driver's one *)
(* among them, with others inside and others around it, which may await    *)
(* until the signal is aborted.                                            *)

Submitted == SelectSeq(agent.batch, IsRound)

validReservation(m) ==
    /\ life = "live"
    /\ driver.attempt.phase = "claimed" /\ ~driver.attempt.stale
    /\ sameQueued(driver, m)
    /\ Pursued(goal) /\ goal.rev = m.rev /\ m.round = goal.rounds + 1

(* restoreOtherClaimed *)
Restored(w, m) ==
    LET Other(x) == x # m
    IN  [w EXCEPT !.agent.stepQ = SelectSeq(w.agent.batch, Other) \o @]

Refusing(w) == [w EXCEPT !.agent.at = "refused", !.agent.batch = <<>>]
Without(w) == [w EXCEPT !.driver.attempt = NoAttempt]

(* The system prompt is assembled and the driver's listener looks first.   *)
Check ==
    /\ agent.at = "prompting"
    /\ Submitted # <<>> /\ life # "gone"
    /\ LET m == Head(Submitted)
           dropped == IF sameQueued(driver, m) THEN Without(World) ELSE World
       IN  Become(IF validReservation(m)
                  THEN [World EXCEPT !.agent.at = "deciding"]
                  ELSE RequestDrive(Refusing(Restored(dropped, m))))
    /\ UNCHANGED <<sent, life, awaited, settled, held, fenced>>

(* Nothing in the batch is a round, or no driver listens. *)
Propose ==
    /\ agent.at = "prompting"
    /\ Submitted = <<>> \/ life = "gone"
    /\ Become([World EXCEPT !.agent.at = "approved"])
    /\ UNCHANGED <<sent, life, awaited, settled, held, fenced>>

(* A listener around the driver's refuses the step or throws, before or    *)
(* after it.                                                               *)
TurnAway ==
    /\ agent.at \in {"prompting", "approved"} /\ ~agent.aborted
    /\ Become(Refusing(World)) \/ FailTurn(World)
    /\ Dropped /\ fenced' = FALSE
    /\ UNCHANGED <<sent, life, awaited, held>>

(* The listeners inside decided: the driver looks again. *)
DecideOnce(m) == \* a variant: the driver trusts its first look
    IF agent.aborted THEN AbortTurn(Restored(World, m))
    ELSE Become([World EXCEPT !.agent.at = "approved"])

Decide(m) ==
    IF agent.aborted THEN AbortTurn(Restored(World, m))
    ELSE Become(IF validReservation(m)
                THEN [World EXCEPT !.agent.at = "approved"]
                ELSE RequestDrive(Refusing(Restored(Without(World), m))))

Entered ==
    /\ agent.at = "deciding"
    /\ Decide(Head(Submitted))
    /\ fenced' = (agent'.at = "approved")
    /\ UNCHANGED <<sent, life, awaited, settled, held>>

(* They rejected it, which blocks the goal it still belongs to, or threw.  *)
Vetoed ==
    /\ agent.at = "deciding"
    /\ IF agent.aborted THEN AbortTurn(World)
       ELSE \/ LET w == Refusing(Without(World))
               IN  Become(IF Pursued(goal) /\ goal.rev = Head(Submitted).rev
                          THEN Changed(Blocked(w)) ELSE w)
            \/ FailTurn(RequestDrive(Without(World)))
    /\ Dropped /\ fenced' = FALSE
    /\ UNCHANGED <<sent, life, awaited, held>>

(* turn() and preStep() throw when they find their signal aborted. *)
AbortStep ==
    /\ agent.at \in {"turnStart", "prompting", "refused", "approved", "stepping"} /\ agent.aborted
    /\ AbortTurn(World)
    /\ Dropped /\ fenced' = FALSE
    /\ UNCHANGED <<sent, life, awaited, held>>

Refuse ==
    /\ agent.at = "refused" /\ ~agent.aborted
    /\ Become(Stop(World))
    /\ UNCHANGED <<sent, life, awaited, settled, held, fenced>>

(* All listeners are through: the step opens ... *)
Open ==
    /\ agent.at = "approved" /\ ~agent.aborted
    /\ agent' = [agent EXCEPT !.at = "stepStart"]
    /\ UNCHANGED <<goal, driver, sent, life, awaited, settled, held, fenced>>

(* ... and the batch enters the log, whatever step/start's listeners did. *)
Enter ==
    /\ agent.at = "stepStart"
    /\ goal' = FoldLeft(Admit, goal, agent.batch)
    /\ driver' = IF driver.attempt.message \in ToSet(agent.batch)
                 THEN [driver EXCEPT !.attempt.phase = "admitted"] ELSE driver
    /\ agent' = [agent EXCEPT !.at = "stepping", !.batch = <<>>]
    /\ Dropped /\ fenced' = FALSE
    /\ UNCHANGED <<sent, life, awaited, held>>

(* The step ends: the turn goes on with what was queued for it, ends, or   *)
(* fails.                                                                  *)
EndStep ==
    /\ agent.at = "stepping" /\ ~agent.aborted
    /\ \/ agent.stepQ # <<>> /\ Become(Claim(World, agent.stepQ))
       \/ /\ agent.stepQ = <<>>
          /\ \E maxTokens \in BOOLEAN :
              LET ended == IF maxTokens THEN Observed(World, Disarmed(World)) ELSE World
              IN  Become([ended EXCEPT !.agent.at = "turnEnd"])
       \/ FailTurn(World)
    /\ UNCHANGED <<sent, life, awaited, settled, held, fenced>>

(* The last look at the inbox: a cancel from now on ends no turn. *)
EndTurn ==
    /\ agent.at = "turnEnd"
    /\ Become(IF Pending(agent) THEN Start(World) ELSE Stop(World))
    /\ UNCHANGED <<sent, life, awaited, settled, held, fenced>>

Retire ==
    /\ agent.at = "stopped"
    /\ Become(Idle(World))
    /\ UNCHANGED <<sent, life, awaited, settled, held, fenced>>

-----------------------------------------------------------------------------
(* The driver's own task, and its plugin. *)

(* The checkpoint settles: everything it may have outlived is looked at    *)
(* again.                                                                  *)
Flushed ==
    /\ driver.run = "flush"
    /\ Become(IF Ready(World) /\ ~driver.needs THEN Settle(World)
              ELSE [World EXCEPT !.driver.run = "loop"])
    /\ UNCHANGED <<sent, life, awaited, settled, held, fenced>>

FlushFails ==
    /\ driver.run = "flush"
    /\ Become(Disarmed([World EXCEPT !.driver.run = "loop"]))
    /\ UNCHANGED <<sent, life, awaited, settled, held, fenced>>

Loop ==
    /\ driver.run = "loop"
    /\ Become(IF driver.requested /\ life = "live" THEN Drive(World)
              ELSE [World EXCEPT !.driver.run = "none"])
    /\ UNCHANGED <<sent, life, awaited, settled, held, fenced>>

Unload ==
    /\ life = "live" /\ ~Publishing(agent)
    /\ life' = "stopping"
    /\ awaited' = (Reserved(driver) /\ Running(agent))
    /\ LET closed == [Disarmed(World) EXCEPT !.driver.attempt.stale = Reserved(driver)]
       IN  Become(IF awaited' THEN Cut(Cleared(closed)) ELSE closed)
    /\ settled' = IF awaited' THEN settled \cup Humans(agent.stepQ \o agent.turnQ) ELSE settled
    /\ UNCHANGED <<sent, held, fenced>>

Unloaded ==
    /\ life = "stopping" /\ ~Publishing(agent) /\ driver.run = "none"
    /\ awaited => agent.at = "idle"
    /\ life' = "gone" /\ awaited' = FALSE
    /\ driver' = Idler /\ held' = FALSE
    /\ UNCHANGED <<sent, goal, agent, settled, fenced>>

Load ==
    /\ life = "gone" /\ ~Publishing(agent)
    /\ life' = "live"
    /\ Become(Disarmed(World))
    /\ UNCHANGED <<sent, awaited, settled, held, fenced>>

-----------------------------------------------------------------------------
AgentStep ==
    \/ StartTurn \/ ClaimTurn \/ Check \/ Propose \/ TurnAway \/ Entered \/ Vetoed \/ AbortStep
    \/ Refuse \/ Open \/ Enter \/ EndStep \/ EndTurn \/ Retire
DriverStep == ~Publishing(agent) /\ (Flushed \/ FlushFails \/ Loop)

Next ==
    \/ Mutate
    \/ \E m \in Human : Followup(m) \/ Inject(m)
    \/ \E keepInbox \in BOOLEAN : Cancel(keepInbox)
    \/ StartMaintenance \/ EndMaintenance
    \/ AgentStep \/ DriverStep
    \/ Unload \/ Unloaded \/ Load

Spec == Init /\ [][Next]_vars

(* What the runtime has started goes on: steps of the agent, maintenance,  *)
(* the driver's task.  The unload resumes from whenIdle in the microtask   *)
(* that idleness resolves, before anyone can start the agent again from an *)
(* event of its own.  Nothing is said of users.                            *)
Fairness ==
    /\ WF_vars(AgentStep) /\ WF_vars(EndMaintenance)
    /\ WF_vars(DriverStep) /\ SF_vars(Unloaded)

FairSpec == Spec /\ Fairness

-----------------------------------------------------------------------------
(* Properties *)

(* What passed the driver's second look and met no change of the goal      *)
(* since is what the fold accepts: the next round of the active goal, and  *)
(* nothing beside it that the fold would refuse.                           *)
Admissible ==
    agent.at \in {"approved", "stepStart"} /\ fenced =>
        /\ Submitted # <<>>
        /\ FoldLeft(Admit, goal, agent.batch) = [goal EXCEPT !.rounds = Head(Submitted).round]

(* A message of somebody else is never swallowed with the driver's round:  *)
(* it waits, is in the proposed step, entered, or went with a step or a    *)
(* cancel that was meant for it.                                           *)
OthersKept ==
    sent = settled \cup UNION {Humans(q) : q \in {agent.turnQ, agent.stepQ, agent.batch}}

(* The goal, the driver and the inbox agree.                               *)
Inv == TypeOK /\ Admissible /\ OthersKept

(* A cancelled turn stays cancelled: whoever aborts the agent between       *)
(* turn/start and turn/end sees no step opened for another round until     *)
(* somebody resumes the goal or sets another one.  The round whose         *)
(* step/start is already out enters all the same.                          *)
Opens == agent.at # "stepStart" /\ agent'.at = "stepStart"
CancelHolds ==
    [][Opens /\ FoldLeft(Admit, goal, agent.batch).rounds > goal.rounds /\ life = "live" => ~held]_vars

(* What the plugin's README says of a cancel: "at the next idle checkpoint *)
(* the driver pauses a goal with a reserved or admitted attempt".  One that *)
(* comes between turn/end and that checkpoint ends no turn aborted, so the *)
(* driver does not hear of it and goes on with the next round.             *)
CancelPauses ==
    [][ agent.at = "stopped" /\ agent'.at # "stopped" /\ agent.aborted
        /\ Reserved(driver) /\ Pursued(goal) /\ life = "live" => ~Pursued(goal')]_vars

(* A goal that is pursued comes to a stop of its own: at its limit at the  *)
(* latest.                                                                 *)
Muted == ~Running(agent) /\ (driver.attempt.cancelled \/ (driver.competing /\ ~(agent.wake /\ Pending(agent))))
MaintenanceCeases == <>[](agent.at # "maintenance")
Continues ==
    MaintenanceCeases =>
        /\ life = "live" /\ Pursued(goal) ~> life # "live" \/ ~Pursued(goal) \/ Muted
        /\ life = "stopping" ~> life = "gone"
=============================================================================
