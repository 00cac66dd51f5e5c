----------------------------- MODULE ToolCalls ------------------------------
(***************************************************************************)
(* The scheduler of one assistant step's tool calls                        *)
(* (core/agent-loop/src/tool-calls.ts) over the tool registry              *)
(* (core/tools/src/index.ts).  Calls come in model order.  An exclusive    *)
(* call is a group of its own; a parallel one opens a group in which the   *)
(* following calls start while the pool has room, each classified again    *)
(* just before.  Bodies overlap and settle in any order; results are       *)
(* committed to the session log in model order.                            *)
(*                                                                         *)
(* An action is what runs without an await.  Between two of them the step  *)
(* may be aborted, bodies settle, and listeners and other agents register  *)
(* other tools, which changes how a call is classified.                    *)
(***************************************************************************)
EXTENDS Naturals, Sequences, FiniteSets

CONSTANTS
    NCalls,      \* calls of the step
    MaxParallel  \* maxParallelToolCalls

ASSUME BoundsAssumption == NCalls \in Nat /\ MaxParallel \in Nat \ {0}

Call == 1..NCalls

VARIABLES
    mode,       \* how the registry classifies each call now
    signal,     \* the step's signal is aborted
    pc,         \* where executeToolCalls and runGroup are
    last,       \* the last call of the group
    started,    \* the last call started
    committed,  \* the last call whose result is committed
    at,         \* where each call is
    inFlight,   \* keys of inFlight: dispatches the pool has not raced home
    stop,       \* runGroup's aborted
    failed,     \* schedulerFailure is set
    log,        \* the session's tool/call and tool/result events
    startMode,  \* history: how a call was classified when it started
    bodyMode    \* history: how it was when its body began

control == <<pc, last, started, committed, stop, failed>>
vars == <<mode, signal, pc, last, started, committed, at, inFlight, stop, failed,
          log, startMode, bodyMode>>

Mode == {"parallel", "exclusive"}
Event == [kind : {"call", "result"}, call : Call]
Called(c) == [kind |-> "call", call |-> c]
Result(c) == [kind |-> "result", call |-> c]

(* "preparing": in pre-execute policy; "dispatched": in the wrappers around *)
(* its body; "running": in its body; "settled": its slot is filled;        *)
(* "broken": the scheduler itself failed at it.                            *)
Working == {"preparing", "dispatched", "running"}
Dispatched == {"dispatched", "running"}

TypeOK ==
    /\ mode \in [Call -> Mode]
    /\ signal \in BOOLEAN /\ stop \in BOOLEAN /\ failed \in BOOLEAN
    /\ pc \in {"group", "preparing", "commit", "finalizing", "race", "draining",
               "returned", "thrown"}
    /\ last \in 0..NCalls /\ started \in 0..NCalls /\ committed \in 0..NCalls
    /\ at \in [Call -> Working \cup {"planned", "settled", "answered", "broken"}]
    /\ inFlight \subseteq Call
    /\ log \in Seq(Event)
    /\ startMode \in [Call -> Mode \cup {"none"}]
    /\ bodyMode \in [Call -> Mode \cup {"none"}]

Init ==
    /\ mode \in [Call -> Mode]
    /\ signal = FALSE /\ stop = FALSE /\ failed = FALSE
    /\ pc = "group"
    /\ last = 0 /\ started = 0 /\ committed = 0
    /\ at = [c \in Call |-> "planned"]
    /\ inFlight = {}
    /\ log = <<>>
    /\ startMode = [c \in Call |-> "none"] /\ bodyMode = [c \in Call |-> "none"]

-----------------------------------------------------------------------------
(* startCall, up to the await of prepare.                                  *)
StartCall(c) ==
    /\ pc' = "preparing"
    /\ started' = c
    /\ at' = [at EXCEPT ![c] = "preparing"]
    /\ startMode' = [startMode EXCEPT ![c] = mode[c]]
    /\ log' = Append(log, Called(c))

(* Calls nobody started get a call and a result of their own each, in      *)
(* order (the variant records none).                                       *)
SkippedNone == NCalls
Skipped == started

AppendSkipped ==
    log' = log \o [i \in 1..2 * (NCalls - Skipped) |->
                     LET c == Skipped + (i + 1) \div 2
                     IN  IF i % 2 = 1 THEN Called(c) ELSE Result(c)]

(* The top of executeToolCalls and the start of runGroup: classify the     *)
(* next call and start it, unless the step is aborted.                     *)
NextGroup ==
    /\ pc = "group"
    /\ stop' = signal
    /\ IF started = NCalls \/ signal
       THEN /\ pc' = "returned"
            /\ AppendSkipped
            /\ UNCHANGED <<last, started, at, startMode>>
       ELSE /\ last' = IF mode[started + 1] = "parallel" THEN NCalls ELSE started + 1
            /\ StartCall(started + 1)
    /\ UNCHANGED <<mode, signal, committed, inFlight, failed, bodyMode>>

(* prepare comes back: to dispatch, or with a result that needs no body (a *)
(* denial, an invalid call, a cancellation).                               *)
Prepared ==
    /\ pc = "preparing"
    /\ IF failed
       THEN pc' = "draining" /\ at' = [at EXCEPT ![started] = "broken"]
            /\ UNCHANGED inFlight
       ELSE /\ pc' = "commit"
            /\ \/ /\ at' = [at EXCEPT ![started] = "dispatched"]
                  /\ inFlight' = inFlight \cup {started}
               \/ at' = [at EXCEPT ![started] = "settled"] /\ UNCHANGED inFlight
    /\ UNCHANGED <<mode, signal, last, started, committed, stop, failed, log,
                   startMode, bodyMode>>

(* dispatchToolBody resolves the tool once more and runs it, unless the    *)
(* step is aborted (the variant does not look).                            *)
BodyAllowedAborted == TRUE
BodyAllowed == ~signal

BodyBegins(c) ==
    /\ at[c] = "dispatched"
    /\ BodyAllowed
    /\ at' = [at EXCEPT ![c] = "running"]
    /\ bodyMode' = [bodyMode EXCEPT ![c] = mode[c]]
    /\ UNCHANGED <<mode, signal, control, inFlight, log, startMode>>

(* The dispatch settles, with or without a body; aborted bodies too are    *)
(* waited for.                                                             *)
Settles(c) ==
    /\ at[c] \in Dispatched
    /\ at' = [at EXCEPT ![c] = "settled"]
    /\ UNCHANGED <<mode, signal, control, inFlight, log, startMode, bodyMode>>

(* The dispatch rejects, which is a failure of the scheduler.              *)
Rejects(c) ==
    /\ at[c] \in Dispatched
    /\ at' = [at EXCEPT ![c] = "broken"]
    /\ failed' = TRUE
    /\ UNCHANGED <<mode, signal, pc, last, started, committed, inFlight, stop, log,
                   startMode, bodyMode>>

-----------------------------------------------------------------------------
(* commitReady takes contiguous settled calls only (the variant takes any  *)
(* settled one).                                                           *)
CommitsAny(c) == at[c] = "settled"
Commits(c) == c = committed + 1 /\ at[c] = "settled"

AppendResult(c) ==
    /\ committed' = c
    /\ at' = [at EXCEPT ![c] = "answered"]
    /\ log' = Append(log, Result(c))

(* A result that bypasses post-execute ...                                 *)
Finish ==
    /\ pc = "commit"
    /\ \E c \in Call : Commits(c) /\ AppendResult(c)
    /\ UNCHANGED <<mode, signal, pc, last, started, inFlight, stop, failed,
                   startMode, bodyMode>>

(* ... and one that awaits it.                                             *)
Finalize ==
    /\ pc = "commit"
    /\ \E c \in Call : Commits(c)
    /\ pc' = "finalizing"
    /\ UNCHANGED <<mode, signal, last, started, committed, at, inFlight, stop,
                   failed, log, startMode, bodyMode>>

Finalized ==
    /\ pc = "finalizing"
    /\ pc' = "commit"
    /\ \E c \in Call : Commits(c) /\ AppendResult(c)
    /\ UNCHANGED <<mode, signal, last, started, inFlight, stop, failed, startMode,
                   bodyMode>>

-----------------------------------------------------------------------------
(* The abort is looked at again after every commit.                        *)
StopNow == stop \/ signal

(* The pool has room.                                                      *)
Room == Cardinality(inFlight) < MaxParallel

(* A call that has become exclusive waits for the pool to drain (the       *)
(* variant trusts the group).                                              *)
JoinsGroup(c) == TRUE
Joins(c) == mode[c] = "parallel"

(* After a commit: fail, or fill the pool, or wait for it, or be done.     *)
Continue ==
    /\ pc = "commit"
    /\ ~\E c \in Call : Commits(c)
    /\ IF failed
       THEN pc' = "draining" /\ UNCHANGED <<started, at, startMode, stop, log>>
       ELSE /\ stop' = StopNow
            /\ IF ~StopNow /\ started < last /\ Room /\ Joins(started + 1)
               THEN StartCall(started + 1)
               ELSE /\ UNCHANGED <<started, at, startMode>>
                    /\ IF inFlight # {}
                       THEN pc' = "race" /\ UNCHANGED log
                       ELSE IF StopNow
                            THEN pc' = "returned" /\ AppendSkipped
                            ELSE pc' = "group" /\ UNCHANGED log
    /\ UNCHANGED <<mode, signal, last, committed, inFlight, failed, bodyMode>>

(* Promise.race over the pool.                                             *)
Race ==
    /\ pc = "race"
    /\ \E c \in inFlight : at[c] \notin Dispatched /\ inFlight' = inFlight \ {c}
    /\ pc' = IF failed THEN "draining" ELSE "commit"
    /\ UNCHANGED <<mode, signal, last, started, committed, at, stop, failed, log,
                   startMode, bodyMode>>

(* prepare, finalize or an append fails.                                   *)
Breaks ==
    /\ pc \in {"preparing", "finalizing"}
    /\ pc' = "draining"
    /\ failed' = TRUE
    /\ at' = IF pc = "preparing" THEN [at EXCEPT ![started] = "broken"] ELSE at
    /\ UNCHANGED <<mode, signal, last, started, committed, inFlight, stop, log,
                   startMode, bodyMode>>

(* allSettled over the pool, before the failure is thrown (the variants    *)
(* throw at once, and wait for a pool that nobody empties any more).       *)
DrainedAtOnce == TRUE
DrainedEmpty == inFlight = {}
Drained == \A c \in inFlight : at[c] \notin Dispatched

Throw ==
    /\ pc = "draining"
    /\ Drained
    /\ pc' = "thrown"
    /\ UNCHANGED <<mode, signal, last, started, committed, at, inFlight, stop,
                   failed, log, startMode, bodyMode>>

-----------------------------------------------------------------------------
Over == pc \in {"returned", "thrown"}

Abort ==
    /\ ~Over /\ ~signal
    /\ signal' = TRUE
    /\ UNCHANGED <<mode, control, at, inFlight, log, startMode, bodyMode>>

(* A tool is registered, replaced or removed.                              *)
Reclassify(c) ==
    /\ ~Over
    /\ \E m \in Mode \ {mode[c]} : mode' = [mode EXCEPT ![c] = m]
    /\ UNCHANGED <<signal, control, at, inFlight, log, startMode, bodyMode>>

Scheduler ==
    \/ NextGroup
    \/ Prepared
    \/ Finish
    \/ Finalize
    \/ Finalized
    \/ Continue
    \/ Race
    \/ Throw

Next ==
    \/ Scheduler
    \/ \E c \in Call : BodyBegins(c) \/ Settles(c) \/ Rejects(c) \/ Reclassify(c)
    \/ Breaks
    \/ Abort

Spec == Init /\ [][Next]_vars

(* Continuations run, policies answer and bodies settle: a tool owes that  *)
(* much, also after an abort.                                              *)
Fairness == WF_vars(Scheduler) /\ \A c \in Call : WF_vars(Settles(c))

FairSpec == Spec /\ Fairness

-----------------------------------------------------------------------------
(* The log can be replayed: calls are recorded in model order and once     *)
(* each, so are results, and each result comes after its call, although    *)
(* bodies settle in any order.                                             *)
LogInOrder ==
    /\ \A i, j \in DOMAIN log :
          i < j /\ log[i].kind = log[j].kind => log[i].call < log[j].call
    /\ \A i \in DOMAIN log :
          log[i].kind = "result" => \E j \in 1..(i - 1) : log[j] = Called(log[i].call)

InLog(e) == \E i \in DOMAIN log : log[i] = e

(* A step that returns, aborted or not, has answered every call; one that  *)
(* throws or goes on has fabricated no result, and a group that goes on    *)
(* committed every started call ("unreachable: ...", tool-calls.ts).       *)
EveryCallAnswered ==
    /\ pc = "group" => committed = started
    /\ \A c \in Call :
          /\ pc = "returned" => InLog(Called(c)) /\ InLog(Result(c))
          /\ InLog(Result(c)) => at[c] = "answered" \/ (pc = "returned" /\ signal)

(* A call that was exclusive when it started is alone: no sibling is being *)
(* prepared or dispatched beside it.                                       *)
ExclusiveAlone ==
    \A c, d \in Call :
      at[c] \in Working /\ at[d] \in Working /\ startMode[c] = "exclusive" => c = d

(* "each exclusive call [is] an ordering barrier": the same of the tool    *)
(* that is run, which may have replaced the one that was classified.       *)
ExclusiveBodyAlone ==
    \A c, d \in Call :
      at[c] = "running" /\ at[d] = "running" /\ bodyMode[c] = "exclusive" => c = d

(* The turn goes on, or fails, only when no dispatch is left behind.       *)
NothingLeftBehind ==
    pc \in {"group", "returned", "thrown"} => \A c \in Call : at[c] \notin Working

(* Nothing runs on when the turn does, and every variable has its type.    *)
Inv == TypeOK /\ NothingLeftBehind

(* Once the step is aborted no further call starts and no body begins.     *)
AbortStopsCalls ==
    [][ signal => \A c \in Call : /\ at[c] = "planned" => at'[c] = "planned"
                                  /\ at'[c] = "running" => at[c] = "running" ]_vars

(* The step ends, whatever its bodies, policies and the abort do, and an   *)
(* aborted one begins nothing more on its way.                             *)
StepEnds == <>Over /\ AbortStopsCalls
=============================================================================
