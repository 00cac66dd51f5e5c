---------------------------- MODULE RequestRetry ----------------------------
(***************************************************************************)
(* Recovery of a failed model request: the request loop of a step          *)
(* (core/agent-loop/src/agent.ts), the provider's retry policy             *)
(* (llm/llm-retry/src/index.ts) and, below it in the same waterfall, the   *)
(* context-overflow compaction (compaction/compaction-basic/src/index.ts), *)
(* which has a budget of its own.                                          *)
(*                                                                         *)
(* An action runs to its next await.  A route may be replaced between two  *)
(* requests, so each request may be served by another provider and policy. *)
(***************************************************************************)
EXTENDS Naturals, Sequences, FiniteSets

CONSTANTS
    Route,       \* served routes: a provider with a retry policy
    Always,      \* routes whose policy retries without limit
    Bare,        \* routes without a policy
    MaxRetries,  \* retryPolicy.maxRetries of the other routes
    MaxOverflowRetries, \* the compaction's budget
    MaxSteps,    \* bound: steps
    MaxRequests  \* bound: requests sent in one step

ASSUME RouteAssumption ==
    /\ IsFiniteSet(Route)
    /\ Always \subseteq Route /\ Bare \subseteq Route /\ Always \cap Bare = {}
ASSUME BoundsAssumption ==
    {MaxRetries, MaxOverflowRetries, MaxSteps, MaxRequests} \subseteq Nat /\ MaxSteps # 0

VARIABLES
    step,      \* this.phase.step
    loop,      \* the loop: "prepare", "stream", "dispatch", "decided", "between"
    route,     \* the route that serves the current request
    code,      \* the failure: "retryable", "other", "overflow"
    late,      \* the provider asks for more than maxDelayMs
    sent,      \* history: requests sent in this step
    aborted,   \* signal.aborted
    recovery,  \* where the waterfall stands
    decision,  \* what the waterfall returns
    log,       \* the llm/retry and llm/retry-started events
    overflow,  \* overflowRetries of the agent
    granted,   \* history: retries the compaction granted in this step
    plugin     \* llm-retry: "live", "disposing", "gone"

vars == <<step, loop, route, code, late, sent, aborted, recovery, decision, log,
          overflow, granted, plugin>>

Normal == Route \ (Always \cup Bare)

(* Nobody recovers; llm-retry's listener is captured and not yet called,   *)
(* and the plugin is the one it belongs to ("captured") or not ("stale");  *)
(* recover() runs and ends with the rest of the waterfall ("tail"), asks   *)
(* it first ("first") or waits ("waiting"); the rest runs without          *)
(* recover() ("outside").                                                  *)
Stages == {"none", "captured", "stale", "tail", "first", "waiting", "outside"}
Decisions == {"none", "retry", "error"}
Codes == {"retryable", "other", "overflow"}
Entry == [is : {"scheduled", "started"}, step : 1..MaxSteps, route : Route, retry : Nat \ {0}]

TypeOK ==
    /\ step \in 1..MaxSteps
    /\ loop \in {"prepare", "stream", "dispatch", "decided", "between"}
    /\ route \in Route /\ code \in Codes /\ late \in BOOLEAN
    /\ sent \in 0..MaxRequests /\ aborted \in BOOLEAN
    /\ recovery \in Stages /\ (recovery # "none" <=> loop = "dispatch")
    /\ decision \in Decisions /\ log \in Seq(Entry)
    /\ overflow \in 0..MaxOverflowRetries /\ granted \in 0..MaxRequests
    /\ plugin \in {"live", "disposing", "gone"}

Init ==
    /\ step = 1 /\ loop = "prepare" /\ sent = 0 /\ aborted = FALSE
    /\ route \in Route /\ code = "other" /\ late = FALSE
    /\ recovery = "none" /\ decision = "none"
    /\ log = <<>> /\ overflow = 0 /\ granted = 0
    /\ plugin = "live"

-----------------------------------------------------------------------------
(* The step's request loop. *)

(* buildRequest resolves the route anew, then the stream opens. *)
Send ==
    /\ loop = "prepare" /\ ~aborted /\ sent < MaxRequests
    /\ \E r \in Route : route' = r
    /\ sent' = sent + 1
    /\ loop' = "stream"
    /\ UNCHANGED <<step, code, late, aborted, recovery, decision, log, overflow, granted, plugin>>

(* The answer's assistant/message starts a new overflow sequence. *)
Answer ==
    /\ loop = "stream" /\ ~aborted
    /\ loop' = "between"
    /\ overflow' = 0
    /\ UNCHANGED <<step, route, code, late, sent, aborted, recovery, decision, log, granted, plugin>>

(* The stream finishes with a failure: the waterfall captures its          *)
(* listeners and calls them one inside the other.                          *)
Fail ==
    /\ loop = "stream" /\ ~aborted
    /\ \E c \in Codes, l \in BOOLEAN : code' = c /\ late' = l
    /\ loop' = "dispatch"
    /\ recovery' = IF plugin = "live" THEN "captured" ELSE "outside"
    /\ decision' = "none"
    /\ UNCHANGED <<step, route, sent, aborted, log, overflow, granted, plugin>>

(* buildRequest or the stream throws, above all when the signal aborts: an *)
(* answer cut off half way is an assistant/message too.                    *)
Throw ==
    /\ loop \in {"prepare", "stream"}
    /\ loop' = "between"
    /\ overflow' \in {overflow} \cup (IF loop = "stream" /\ aborted THEN {0} ELSE {})
    /\ UNCHANGED <<step, route, code, late, sent, aborted, recovery, decision, log, granted, plugin>>

(* The waterfall returned: retry in the same step, or leave it. *)
Decided ==
    /\ loop = "decided"
    /\ loop' = IF decision = "retry" /\ ~aborted THEN "prepare" ELSE "between"
    /\ code' = "other" /\ late' = FALSE /\ decision' = "none"
    /\ UNCHANGED <<step, route, sent, aborted, recovery, log, overflow, granted, plugin>>

NextStep ==
    /\ loop = "between" /\ ~aborted /\ step < MaxSteps
    /\ step' = step + 1 /\ loop' = "prepare" /\ sent' = 0 /\ granted' = 0
    /\ UNCHANGED <<route, code, late, aborted, recovery, decision, log, overflow, plugin>>

(* The agent goes idle: the compaction forgets its budget. *)
Idle ==
    /\ loop = "between"
    /\ overflow' = 0 /\ aborted' = FALSE
    /\ UNCHANGED <<step, loop, route, code, late, sent, recovery, decision, log, granted, plugin>>

Abort ==
    /\ loop # "between"
    /\ aborted' = TRUE
    /\ UNCHANGED <<step, loop, route, code, late, sent, recovery, decision, log, overflow, granted, plugin>>

-----------------------------------------------------------------------------
(* recover() *)

Return(d) ==
    /\ decision' = d
    /\ loop' = "decided"
    /\ recovery' = "none"
    /\ UNCHANGED log

Await(stage) ==
    /\ recovery' = stage
    /\ UNCHANGED <<loop, decision, log>>

Stopped == aborted \/ plugin # "live"

(* The last retry of this step under the same provider and policy. *)
priorStepRetry(s, r) == \* a variant: the last retry of the step under whatever policy
    LET prior == {i \in DOMAIN log : log[i].is = "scheduled" /\ log[i].step = s}
    IN  IF prior = {} THEN 0 ELSE log[CHOOSE i \in prior : \A j \in prior : j <= i].retry

priorPolicyRetry(s, r) ==
    LET prior == {i \in DOMAIN log : log[i].is = "scheduled" /\ log[i].step = s /\ log[i].route = r}
    IN  IF prior = {} THEN 0 ELSE log[CHOOSE i \in prior : \A j \in prior : j <= i].retry

Record(kind, retry) == Append(log, [is |-> kind, step |-> step, route |-> route, retry |-> retry])

(* Past the policy's conditions: count, delegate, or record and wait. *)
backoff ==
    LET previous == priorPolicyRetry(step, route)
    IN  IF route \in Normal /\ (previous >= MaxRetries \/ late) THEN Await("tail")
        ELSE IF Stopped THEN Return("none")
        ELSE /\ log' = Record("scheduled", previous + 1)
             /\ recovery' = "waiting"
             /\ UNCHANGED <<loop, decision>>

(* The listener is called; one whose plugin is disposed ends the waterfall. *)
Enter ==
    /\ recovery \in {"captured", "stale"}
    /\ IF recovery = "stale" THEN Return("none")
       ELSE IF route \in Always THEN (IF aborted THEN Return("none") ELSE Await("first"))
       ELSE IF route \in Bare \/ code # "retryable" THEN Await("tail")
       ELSE backoff
    /\ UNCHANGED <<step, route, code, late, sent, aborted, overflow, granted, plugin>>

Below == recovery \in {"tail", "first", "outside"}

(* The compaction below shortens the surface for an overflow, within its   *)
(* budget; always mode takes that retry unless it was stopped meanwhile.   *)
(* One that an abort meets may still be committed, and grants nothing.     *)
CompactUncounted == \* a variant: the budget is not used up
    /\ Below
    /\ code = "overflow" /\ ~aborted /\ overflow < MaxOverflowRetries
    /\ granted' = granted + 1
    /\ Return(IF recovery = "first" /\ Stopped THEN "none" ELSE "retry")
    /\ UNCHANGED <<step, route, code, late, sent, aborted, overflow, plugin>>

Compact ==
    /\ Below
    /\ code = "overflow" /\ ~aborted /\ overflow < MaxOverflowRetries
    /\ overflow' = overflow + 1 /\ granted' = granted + 1
    /\ Return(IF recovery = "first" /\ Stopped THEN "none" ELSE "retry")
    /\ UNCHANGED <<step, route, code, late, sent, aborted, plugin>>

(* Nobody below retries, or somebody fails; always mode then backs off.    *)
DownstreamRethrown == \* a variant: always mode passes a failure below on
    /\ Below
    /\ \/ \E d \in {"none", "error"} : Return(d)
       \/ recovery = "first" /\ (IF Stopped THEN Return("none") ELSE backoff)
    /\ UNCHANGED <<step, route, code, late, sent, aborted, overflow, granted, plugin>>

Downstream ==
    /\ Below
    /\ \/ recovery # "first" /\ \E d \in {"none", "error"} : Return(d)
       \/ recovery = "first" /\ (IF Stopped THEN Return("none") ELSE backoff)
    /\ UNCHANGED <<step, route, code, late, sent, aborted, overflow, granted, plugin>>

(* cancellableDelay: the timer fires, or one of the signals aborts it. *)
TimerFires ==
    /\ recovery = "waiting" /\ ~Stopped
    /\ log' = Record("started", priorPolicyRetry(step, route))
    /\ decision' = "retry" /\ loop' = "decided" /\ recovery' = "none"
    /\ UNCHANGED <<step, route, code, late, sent, aborted, overflow, granted, plugin>>

DelayAborted ==
    /\ recovery = "waiting" /\ Stopped
    /\ Return("none")
    /\ UNCHANGED <<step, route, code, late, sent, aborted, overflow, granted, plugin>>

-----------------------------------------------------------------------------
(* Disposal of llm-retry, and its load once more. *)

Active == recovery \in {"tail", "first", "waiting"}

Dispose ==
    /\ plugin = "live"
    /\ plugin' = "disposing"
    /\ recovery' = IF recovery = "captured" THEN "stale" ELSE recovery
    /\ UNCHANGED <<step, loop, route, code, late, sent, aborted, decision, log, overflow, granted>>

(* The disposal waits for the operations that ran when it began. *)
DisposedAtOnce == \* a variant: the disposal does not wait
    /\ plugin = "disposing"
    /\ plugin' = "gone"
    /\ UNCHANGED <<step, loop, route, code, late, sent, aborted, recovery, decision, log, overflow, granted>>

Disposed ==
    /\ plugin = "disposing" /\ ~Active
    /\ plugin' = "gone"
    /\ UNCHANGED <<step, loop, route, code, late, sent, aborted, recovery, decision, log, overflow, granted>>

Load ==
    /\ plugin = "gone"
    /\ plugin' = "live"
    /\ UNCHANGED <<step, loop, route, code, late, sent, aborted, recovery, decision, log, overflow, granted>>

-----------------------------------------------------------------------------
Recover == Enter \/ Compact \/ Downstream \/ TimerFires \/ DelayAborted

Next ==
    \/ Send \/ Answer \/ Fail \/ Throw \/ Decided \/ NextStep \/ Idle \/ Abort
    \/ Recover
    \/ Dispose \/ Disposed \/ Load

Spec == Init /\ [][Next]_vars

(* Timers fire, listeners are called and the policies below settle, as the *)
(* waterfall asks of them; nothing is said of the provider or the plugins. *)
Fairness == WF_vars(Recover) /\ WF_vars(Decided) /\ WF_vars(Disposed) /\ WF_vars(aborted /\ Throw)
FairSpec == Spec /\ Fairness

-----------------------------------------------------------------------------
(* Properties *)

Scheduled(s, r) == {i \in DOMAIN log : log[i].is = "scheduled" /\ log[i].step = s /\ log[i].route = r}

(* The log is what invariant.ts demands: the retries of one step under one *)
(* provider and policy count 1, 2, ... up to the policy's limit, whatever  *)
(* was disposed, reloaded or rerouted in between, and a wait is reported   *)
(* complete once, after it was scheduled.                                  *)
RetriesNumbered ==
    /\ \A s \in 1..MaxSteps, r \in Route : \A i \in Scheduled(s, r) :
        /\ log[i].retry = Cardinality({j \in Scheduled(s, r) : j <= i})
        /\ r \notin Bare /\ (r \in Normal => log[i].retry <= MaxRetries)
    /\ \A i \in DOMAIN log : log[i].is = "started" =>
        /\ \E j \in 1..i : log[j] = [log[i] EXCEPT !.is = "scheduled"]
        /\ \A j \in DOMAIN log : log[j] = log[i] => j = i

(* The log counts right, and every variable has its type.                  *)
Inv == TypeOK /\ RetriesNumbered

(* The budgets add and no more: a request of a step past its first one     *)
(* follows a completed wait or a compaction, and neither of these exceeds  *)
(* its budget.                                                             *)
Started == {i \in DOMAIN log : log[i].is = "started" /\ log[i].step = step}
RequestsBounded ==
    /\ sent <= 1 + granted + Cardinality(Started)
    /\ granted <= MaxOverflowRetries
    /\ Cardinality({i \in Started : log[i].route \notin Always}) <= MaxRetries * Cardinality(Normal)

(* Once the step is aborted, nothing is recorded, granted or sent for      *)
(* it; once the plugin is being disposed, it records nothing, and when the *)
(* disposal is over none of its recoveries is left to decide anything.     *)
QuietAfterStop ==
    /\ [][/\ aborted => UNCHANGED <<log, granted>> /\ sent' <= sent
          /\ plugin # "live" => UNCHANGED log]_vars
    /\ [](plugin = "gone" => ~Active)

(* A disposal ends, an aborted step is left, and always mode retries every *)
(* failure it was asked about, whatever the policies below answered,       *)
(* unless the step or the plugin is stopped.                               *)
Settles ==
    /\ plugin = "disposing" ~> plugin = "gone"
    /\ aborted ~> loop = "between"
    /\ recovery = "captured" /\ route \in Always ~> decision = "retry" \/ Stopped
=============================================================================
