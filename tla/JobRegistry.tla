---------------------------- MODULE JobRegistry -----------------------------
(***************************************************************************)
(* The process-local background-job registry (jobs/jobs-local/src):        *)
(* producers run jobs, callers read, kill and wait for them, completion    *)
(* listeners are told of each settlement, and the disposal of an owner or  *)
(* of the service cancels, awaits and drops what is left.                  *)
(*                                                                         *)
(* A job whose outcome somebody collects is "reported"; the completion     *)
(* notice of an unreported one is delivered to its owner.  The registry's  *)
(* difficulty is to give each outcome to the model once: not zero times    *)
(* when a wait is aborted as the job settles, not twice when a wait is on  *)
(* its way back.                                                           *)
(*                                                                         *)
(* An action is a synchronous call or continuation.  Callers are those the *)
(* access fence admits.  Listeners and producers' callbacks do not call    *)
(* back into the registry.                                                 *)
(***************************************************************************)
EXTENDS Naturals, FiniteSets

CONSTANTS
    Job,        \* jobs, each started at most once
    Owner,      \* exact agent lifecycles
    Unowned,    \* the bucket of jobs without an owner
    Waiter,     \* concurrent callers of wait
    NoJob,
    MaxActive   \* maxConcurrentJobsPerOwner

ASSUME MaxActiveAssumption == MaxActive \in Nat \ {0}
ASSUME WaiterAssumption == IsFiniteSet(Waiter)
ASSUME MarkerAssumption == NoJob \notin Job /\ Unowned \notin Owner

VARIABLES
    status,     \* job.status, "unborn" before start
    owner,      \* job.owner
    reported,   \* job.reported
    waiters,    \* job.waiters
    store,      \* keys of this.store
    wait,       \* per waiter: the job, its place in wait(), its counted flag
    cleanup,    \* per owner: the cleanup effect on the owner's scope
    service,    \* the service: "open", "disposing", "disposed"
    awaited,    \* jobs a disposeOwned or (at Unowned) disposeAll awaits
    announced,  \* history: times the completion listeners ran, per job
    noticed,    \* history: times they ran with an unreported snapshot
    told,       \* history: jobs whose outcome a caller was given
    stopped     \* history: jobs killed or torn down

jobs == <<status, owner, reported, waiters, store>>
scopes == <<cleanup, service, awaited>>
listeners == <<announced, noticed>>
vars == <<status, owner, reported, waiters, store, wait, cleanup, service, awaited,
          announced, noticed, told, stopped>>

Active == {"running", "stopping"}
Outcome == {"completed", "killed", "failed"}
Terminal(j) == status[j] \in Outcome
Idle == [job |-> NoJob, at |-> "free", counted |-> FALSE]

TypeOK ==
    /\ status \in [Job -> Active \cup Outcome \cup {"unborn"}]
    /\ owner \in [Job -> Owner \cup {Unowned}]
    /\ reported \in [Job -> BOOLEAN]
    /\ waiters \in [Job -> 0..Cardinality(Waiter)]
    /\ store \subseteq Job
    /\ wait \in [Waiter -> [job : Job \cup {NoJob},
                            at : {"free", "waiting", "timedOut", "released", "rejected"},
                            counted : BOOLEAN]]
    /\ cleanup \in [Owner -> {"none", "attached", "disposing", "gone"}]
    /\ service \in {"open", "disposing", "disposed"}
    /\ awaited \in [Owner \cup {Unowned} -> SUBSET Job]
    /\ announced \in [Job -> Nat] /\ noticed \in [Job -> Nat]
    /\ told \subseteq Job /\ stopped \subseteq Job

Init ==
    /\ status = [j \in Job |-> "unborn"]
    /\ owner = [j \in Job |-> Unowned]
    /\ reported = [j \in Job |-> FALSE]
    /\ waiters = [j \in Job |-> 0]
    /\ store = {}
    /\ wait = [w \in Waiter |-> Idle]
    /\ cleanup = [o \in Owner |-> "none"]
    /\ service = "open"
    /\ awaited = [o \in Owner \cup {Unowned} |-> {}]
    /\ announced = [j \in Job |-> 0] /\ noticed = [j \in Job |-> 0]
    /\ told = {} /\ stopped = {}

-----------------------------------------------------------------------------
(* activeTaskCount: a stopping job still occupies its place.               *)
ActiveCount(o) == Cardinality({j \in store : owner[j] = o /\ status[j] \in Active})

(* ensureOwnerCleanup: a disposing scope accepts no new effect.            *)
Attaches(o) == cleanup[o] \in {"none", "attached"}

(* start: admission, the producer's starter, registration.                 *)
Start(j, o) ==
    /\ service = "open"
    /\ status[j] = "unborn"
    /\ o # Unowned => Attaches(o)
    /\ ActiveCount(o) < MaxActive
    /\ status' = [status EXCEPT ![j] = "running"]
    /\ owner' = [owner EXCEPT ![j] = o]
    /\ store' = store \cup {j}
    /\ cleanup' = [p \in Owner |-> IF p = o /\ cleanup[p] = "none" THEN "attached"
                                   ELSE cleanup[p]]
    /\ UNCHANGED <<reported, waiters, wait, service, awaited, listeners, told, stopped>>

(* start when it fails at the limit or in the starter: only the owner's    *)
(* cleanup may have been attached.                                         *)
StartFails(o) ==
    /\ service = "open"
    /\ cleanup[o] = "none"
    /\ cleanup' = [cleanup EXCEPT ![o] = "attached"]
    /\ UNCHANGED <<jobs, wait, service, awaited, listeners, told, stopped>>

-----------------------------------------------------------------------------
(* settle: a live wait takes the report. *)
ReportedAt(j) == reported[j] \/ waiters[j] > 0

(* No listener runs once the service is being disposed.                    *)
Announces == service = "open"

(* A settlement releases the waits that are still registered.              *)
Released(S) ==
    [w \in Waiter |-> IF wait[w].job \in S /\ wait[w].at = "waiting"
                      THEN [wait[w] EXCEPT !.at = "released"] ELSE wait[w]]

(* A producer's done settles; the first terminal outcome wins.             *)
MaySettle(j) == status[j] \in Active

Settle(j) ==
    /\ MaySettle(j)
    /\ \E outcome \in Outcome :
          status' = [status EXCEPT ![j] = outcome]
    /\ reported' = [reported EXCEPT ![j] = ReportedAt(j)]
    /\ wait' = Released({j})
    /\ announced' = IF Announces THEN [announced EXCEPT ![j] = @ + 1] ELSE announced
    /\ noticed' = IF Announces /\ ~ReportedAt(j)
                  THEN [noticed EXCEPT ![j] = @ + 1] ELSE noticed
    /\ UNCHANGED <<owner, waiters, store, scopes, told, stopped>>

-----------------------------------------------------------------------------
(* read: a terminal read takes the report.                                 *)
Read(j) ==
    /\ j \in store /\ Terminal(j)
    /\ reported' = [reported EXCEPT ![j] = TRUE]
    /\ told' = told \cup {j}
    /\ UNCHANGED <<status, owner, waiters, store, wait, scopes, listeners, stopped>>

(* kill: cancel first, so that a throwing cancel changes nothing.          *)
Kill(j) ==
    /\ j \in store
    /\ reported' = [reported EXCEPT ![j] = TRUE]
    /\ IF Terminal(j)
       THEN told' = told \cup {j} /\ UNCHANGED <<status, stopped>>
       ELSE /\ status' = [status EXCEPT ![j] = "stopping"]
            /\ stopped' = stopped \cup {j}
            /\ UNCHANGED told
    /\ UNCHANGED <<owner, waiters, store, wait, scopes, listeners>>

-----------------------------------------------------------------------------
(* wait on a live job registers; on a terminal one it returns like read.   *)
Wait(w, j) ==
    /\ wait[w].at = "free"
    /\ j \in store /\ ~Terminal(j)
    /\ wait' = [wait EXCEPT ![w] = [job |-> j, at |-> "waiting", counted |-> TRUE]]
    /\ waiters' = [waiters EXCEPT ![j] = @ + 1]
    /\ UNCHANGED <<status, owner, reported, store, scopes, listeners, told, stopped>>

(* The deadline resolves the wait; it stays counted until it resumes.      *)
TimedOut == "timedOut"

WaitTimeout(w) ==
    /\ wait[w].at = "waiting"
    /\ wait' = [wait EXCEPT ![w].at = TimedOut]
    /\ UNCHANGED <<jobs, scopes, listeners, told, stopped>>

(* uncount is idempotent.                                                  *)
Uncounted(w) == IF wait[w].counted THEN 1 ELSE 0

(* An abort uncounts and rejects at once, and only a wait that no          *)
(* settlement has released (the variants uncount later, and reject a       *)
(* released wait too).                                                     *)
AbortUncountsLater(w) == 0
AbortUncounts(w) == Uncounted(w)
AbortableReleased(w) == wait[w].at \in {"waiting", "released"}
Abortable(w) == wait[w].at = "waiting"

WaitAbort(w) ==
    /\ Abortable(w)
    /\ waiters' = [waiters EXCEPT ![wait[w].job] = @ - AbortUncounts(w)]
    /\ wait' = [wait EXCEPT ![w].at = "rejected",
                            ![w].counted = (AbortUncounts(w) = 0)]
    /\ UNCHANGED <<status, owner, reported, store, scopes, listeners, told, stopped>>

(* The wait comes back: finally uncounts; unless it was rejected it gives  *)
(* its caller the snapshot, and takes the report of a terminal one.        *)
WaitReturns(w) ==
    LET j == wait[w].job
        gives == wait[w].at # "rejected" /\ Terminal(j)
    IN  /\ wait[w].at \in {"timedOut", "released", "rejected"}
        /\ waiters' = [waiters EXCEPT ![j] = @ - Uncounted(w)]
        /\ reported' = [reported EXCEPT ![j] = @ \/ gives]
        /\ told' = IF gives THEN told \cup {j} ELSE told
        /\ wait' = [wait EXCEPT ![w] = Idle]
        /\ UNCHANGED <<status, owner, store, scopes, listeners, stopped>>

-----------------------------------------------------------------------------
(* cancelForTeardown on the live jobs of S: each is claimed as reported,   *)
(* and one whose cancel throws is failed by force (the variant only logs). *)
OnlyLogs == "running"
ForcedFailure == "failed"

CancelForTeardown(S) ==
    LET live == {j \in S : ~Terminal(j)}
    IN  \E throwing \in SUBSET live :
          /\ status' = [j \in Job |-> CASE j \in throwing -> ForcedFailure
                                        [] j \in live \ throwing -> "stopping"
                                        [] OTHER -> status[j]]
          /\ reported' = [j \in Job |-> reported[j] \/ j \in live]
          /\ wait' = Released(throwing)
          /\ announced' = [j \in Job |-> IF j \in throwing /\ service' = "open"
                                         THEN announced[j] + 1 ELSE announced[j]]
          /\ stopped' = stopped \cup live

(* Teardown awaits every record it cancelled.                              *)
AllSettled(S) == \A j \in S : Terminal(j)

(* The owner's scope runs its cleanup: disposeOwned ...                    *)
DisposeOwner(o) ==
    LET owned == {j \in store : owner[j] = o}
    IN  /\ cleanup[o] \in {"none", "attached"}
        /\ cleanup' = [cleanup EXCEPT ![o] = "disposing"]
        /\ awaited' = [awaited EXCEPT ![o] = owned]
        /\ UNCHANGED service
        /\ CancelForTeardown(owned)
        /\ UNCHANGED <<owner, waiters, store, noticed, told>>

(* ... and, once they have settled, drops the records.                     *)
DropOwned(o) ==
    /\ cleanup[o] = "disposing"
    /\ AllSettled(awaited[o])
    /\ cleanup' = [cleanup EXCEPT ![o] = "gone"]
    /\ store' = store \ awaited[o]
    /\ awaited' = [awaited EXCEPT ![o] = {}]
    /\ UNCHANGED <<status, owner, reported, waiters, wait, service, listeners,
                   told, stopped>>

(* disposeAll: no listener runs from here on; the service is withdrawn     *)
(* from its consumers in the same step.                                    *)
DisposeAll ==
    /\ service = "open"
    /\ service' = "disposing"
    /\ awaited' = [awaited EXCEPT ![Unowned] = store]
    /\ UNCHANGED cleanup
    /\ CancelForTeardown(store)
    /\ UNCHANGED <<owner, waiters, store, noticed, told>>

(* Its end clears the store and detaches the owners' cleanups.             *)
DropAll ==
    /\ service = "disposing"
    /\ AllSettled(awaited[Unowned])
    /\ service' = "disposed"
    /\ store' = {}
    /\ awaited' = [awaited EXCEPT ![Unowned] = {}]
    /\ cleanup' = [o \in Owner |-> IF cleanup[o] = "attached" THEN "none" ELSE cleanup[o]]
    /\ UNCHANGED <<status, owner, reported, waiters, wait, listeners, told, stopped>>

-----------------------------------------------------------------------------
Next ==
    \/ \E j \in Job, o \in Owner \cup {Unowned} : Start(j, o)
    \/ \E o \in Owner : StartFails(o)
    \/ \E j \in Job : Settle(j) \/ Read(j) \/ Kill(j)
    \/ \E w \in Waiter, j \in Job : Wait(w, j)
    \/ \E w \in Waiter : WaitTimeout(w) \/ WaitAbort(w) \/ WaitReturns(w)
    \/ \E o \in Owner : DisposeOwner(o) \/ DropOwned(o)
    \/ DisposeAll
    \/ DropAll

Spec == Init /\ [][Next]_vars

(* Timers fire and continuations run; a producer that was told to stop     *)
(* does, unless its cancel threw.  A running job may run for ever.         *)
Fairness ==
    /\ \A w \in Waiter : WF_vars(WaitTimeout(w) \/ WaitReturns(w))
    /\ \A j \in Job : WF_vars(status[j] = "stopping" /\ Settle(j))
    /\ \A o \in Owner : WF_vars(DropOwned(o))
    /\ WF_vars(DropAll)

FairSpec == Spec /\ Fairness

-----------------------------------------------------------------------------
Owed(w, j) == wait[w].job = j /\ wait[w].at \in {"timedOut", "released"}

(* An outcome is never lost: each job that reached a terminal status was   *)
(* stopped by somebody, was announced as unreported to the completion      *)
(* listeners, was given to a caller, or is about to be by a wait that can  *)
(* no longer be rejected.                                                  *)
NoLostCompletion ==
    \A j \in Job :
      Terminal(j) => \/ j \in stopped \cup told
                     \/ noticed[j] > 0
                     \/ \E w \in Waiter : Owed(w, j)

(* An outcome is not announced as unreported while a wait is on its way to *)
(* deliver it, nor is any job announced twice or announced as unreported   *)
(* after a kill or a teardown claimed it.                                  *)
ReportedOnce ==
    \A j \in Job :
      /\ announced[j] <= 1
      /\ noticed[j] > 0 => j \notin stopped /\ \A w \in Waiter : ~Owed(w, j)

(* Each outcome is given once. *)
GivenOnce == NoLostCompletion /\ ReportedOnce

(* The count of live waits, on which both depend, is exact: a timed-out    *)
(* wait counts until it resumes, an aborted one stops counting at once.    *)
WaitersCounted ==
    \A j \in Job :
      waiters[j] = Cardinality({w \in Waiter :
                                 wait[w].job = j /\ wait[w].at # "rejected"})

(* Disposal drains: once an owner's or the service's disposal is over, no  *)
(* record of theirs is left that nobody would cancel.                      *)
DisposalDrains ==
    /\ \A o \in Owner : cleanup[o] = "gone" => \A j \in store : owner[j] # o
    /\ service = "disposed" => store = {}

(* Counts and disposals are exact, and every variable has its type.        *)
Inv == TypeOK /\ WaitersCounted /\ DisposalDrains

(* A record is dropped only after it settled, and a settled one keeps its  *)
(* outcome: a late producer cannot overwrite a forced failure.             *)
DropsOnlySettled ==
    [][ /\ \A j \in store \ store' : Terminal(j)
        /\ \A j \in Job : Terminal(j) => status'[j] = status[j] ]_vars

(* Every wait comes back, and every disposal ends although a cancel threw. *)
WaitsReturn == \A w \in Waiter : wait[w].at # "free" ~> wait[w].at = "free"
DisposalsEnd ==
    /\ \A o \in Owner : cleanup[o] = "disposing" ~> cleanup[o] = "gone"
    /\ service = "disposing" ~> service = "disposed"

(* Whatever was begun is concluded, and no job is dropped for it that has  *)
(* not settled.                                                            *)
Concludes == WaitsReturn /\ DisposalsEnd /\ DropsOnlySettled
=============================================================================
