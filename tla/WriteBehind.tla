---------------------------- MODULE WriteBehind -----------------------------
(***************************************************************************)
(* The write-behind controller of one live session                         *)
(* (session-persistence/src/write-behind.ts) under the coordinator's flush *)
(* (coordinator.ts): events wait in pending for at most one batching       *)
(* deadline, one write is outstanding at a time, a failed batch goes back  *)
(* to the front of pending, and a flush drains to a quiescent point that   *)
(* concurrent callers share.                                               *)
(*                                                                         *)
(* JavaScript runs one job at a time.  Between two of its promise jobs any *)
(* other promise job may run (an enqueue, a flush), but a timer or an I/O  *)
(* completion is a task, which starts only when no promise job is left     *)
(* (Quiet).  Each await and each .catch/.finally/.then callback is an      *)
(* action of its own.                                                      *)
(***************************************************************************)
EXTENDS Naturals, Sequences

CONSTANTS
    Caller,     \* concurrent callers of the coordinator's flush
    MaxEvents   \* bound: events enqueued in one behaviour

ASSUME MaxEventsAssumption == MaxEvents \in Nat

VARIABLES
    accepted,         \* history: the events enqueued so far, in order
    durable,          \* the log the storage backend has committed
    pending,          \* this.pending
    timer,            \* this.timer is armed
    active,           \* this.active: the outstanding write, or NoWrite
    barrier,          \* this.barrier, with the place where drainBarrier waits
    deadlineExpired,  \* this.deadlineExpired
    automaticPaused,  \* this.automaticPaused
    continueDue,      \* a settled background write has yet to continue
    ready,            \* live.init: "pending", "ok" or "failed"
    flush,            \* where each caller of the coordinator's flush is
    mark              \* history: events accepted when that flush was asked for

controller == <<timer, active, barrier, deadlineExpired, automaticPaused>>
vars == <<accepted, durable, pending, timer, active, barrier, deadlineExpired,
          automaticPaused, continueDue, ready, flush, mark>>

Batch == Seq(1..MaxEvents)

(* stage: "none"     this.active is undefined;                             *)
(*        "writing"  the backend has not answered;                         *)
(*        "durable"  it committed, the .finally callback has not run;      *)
(*        "failed"   it rejected, the .catch callback has not run;         *)
(*        "retained" the batch is back in pending, .finally has not run.   *)
Write == [batch : Batch, background : BOOLEAN,
          stage : {"none", "writing", "durable", "failed", "retained"}]

NoWrite == [batch |-> <<>>, background |-> FALSE, stage |-> "none"]

(* "overlap", "writing": drainBarrier awaits the write it found or started; *)
(* "overlapped", "written", "failed": that write settled, not resumed yet. *)
BarrierStage == {"none", "overlap", "overlapped", "writing", "written", "failed"}

(* "init": awaits live.init; "barrier": awaits the shared barrier.         *)
FlushStage == {"none", "init", "barrier", "ok", "failed"}

TypeOK ==
    /\ accepted \in Batch /\ Len(accepted) <= MaxEvents
    /\ durable \in Batch
    /\ pending \in Batch
    /\ timer \in BOOLEAN
    /\ active \in Write
    /\ barrier \in BarrierStage
    /\ deadlineExpired \in BOOLEAN
    /\ automaticPaused \in BOOLEAN
    /\ continueDue \in BOOLEAN
    /\ ready \in {"pending", "ok", "failed"}
    /\ flush \in [Caller -> FlushStage]
    /\ mark \in [Caller -> 0..MaxEvents]

Init ==
    /\ accepted = <<>>
    /\ durable = <<>>
    /\ pending = <<>>
    /\ timer = FALSE
    /\ active = NoWrite
    /\ barrier = "none"
    /\ deadlineExpired = FALSE
    /\ automaticPaused = FALSE
    /\ continueDue = FALSE
    /\ ready = "pending"
    /\ flush = [c \in Caller |-> "none"]
    /\ mark = [c \in Caller |-> 0]

-----------------------------------------------------------------------------
(* this.active !== undefined                                               *)
Busy == active.stage # "none"

(* No promise job is left, so the event loop may start a task.             *)
Quiet ==
    /\ ~continueDue
    /\ active.stage \in {"none", "writing"}
    /\ barrier \notin {"overlapped", "written", "failed"}
    /\ ready # "pending" => \A c \in Caller : flush[c] # "init"

(* The assignments of startWrite: one stable prefix, the whole of pending. *)
StartWrite(inBackground) ==
    /\ active' = [batch |-> pending, background |-> inBackground,
                  stage |-> "writing"]
    /\ pending' = <<>>
    /\ timer' = FALSE
    /\ deadlineExpired' = FALSE

-----------------------------------------------------------------------------
(* Under a barrier the drain loop takes what is enqueued, without a timer. *)
TimedPath == barrier = "none"

(* enqueue: the producer's synchronous call.                               *)
Enqueue ==
    /\ Len(accepted) < MaxEvents
    /\ LET event == Len(accepted) + 1 IN
        /\ accepted' = Append(accepted, event)
        /\ pending' = Append(pending, event)
    /\ IF TimedPath
       THEN /\ automaticPaused' = FALSE
            /\ deadlineExpired' = (deadlineExpired /\ ~automaticPaused)
            /\ timer' = (timer \/ automaticPaused \/ pending = <<>>)
       ELSE UNCHANGED <<timer, deadlineExpired, automaticPaused>>
    /\ UNCHANGED <<durable, active, barrier, continueDue, ready, flush, mark>>

(* The slot is taken: a deadline may only leave a note for it (the variant *)
(* writes all the same).                                                   *)
SlotNeverTaken == FALSE
SlotTaken == Busy

(* onDeadline: start a background write, or remember that the active one   *)
(* has used up the batching budget of what is pending behind it.           *)
Deadline ==
    /\ timer
    /\ Quiet
    /\ IF SlotTaken
       THEN /\ timer' = FALSE
            /\ deadlineExpired' = TRUE
            /\ UNCHANGED <<active, pending>>
       ELSE StartWrite(TRUE)
    /\ UNCHANGED <<accepted, durable, barrier, automaticPaused, continueDue,
                   ready, flush, mark>>

(* What waited behind the settled write has used up its budget (the        *)
(* variant forgets that it did).                                           *)
NothingOverdue == FALSE
Overdue == barrier = "none" /\ pending # <<>> /\ deadlineExpired

(* continueAutomatic, the fulfilment callback of a background write.       *)
ContinueAutomatic ==
    /\ continueDue
    /\ continueDue' = FALSE
    /\ IF Overdue
       THEN StartWrite(TRUE)
       ELSE UNCHANGED <<active, pending, timer, deadlineExpired>>
    /\ UNCHANGED <<accepted, durable, barrier, automaticPaused, ready, flush,
                   mark>>

-----------------------------------------------------------------------------
(* The backend answers a write; it first awaits the session's own          *)
(* initialization, and rejects when that failed.                           *)
WriteCommits ==
    /\ Quiet
    /\ active.stage = "writing"
    /\ ready = "ok"
    /\ durable' = durable \o active.batch
    /\ active' = [active EXCEPT !.stage = "durable"]
    /\ UNCHANGED <<accepted, pending, timer, barrier, deadlineExpired,
                   automaticPaused, continueDue, ready, flush, mark>>

WriteRejects ==
    /\ Quiet
    /\ active.stage = "writing"
    /\ ready # "pending"
    /\ active' = [active EXCEPT !.stage = "failed"]
    /\ UNCHANGED <<accepted, durable, pending, timer, barrier, deadlineExpired,
                   automaticPaused, continueDue, ready, flush, mark>>

(* A failed batch goes back in front of what was enqueued meanwhile (the   *)
(* variant: behind it).                                                    *)
PutBackBehind == pending \o active.batch
PutBack == active.batch \o pending

(* The .catch callback: the batch goes back in front of later events and   *)
(* the automatic path waits for the next enqueue or flush.                 *)
RetainBatch ==
    /\ active.stage = "failed"
    /\ pending' = PutBack
    /\ timer' = FALSE
    /\ deadlineExpired' = FALSE
    /\ automaticPaused' = TRUE
    /\ active' = [active EXCEPT !.stage = "retained"]
    /\ UNCHANGED <<accepted, durable, barrier, continueDue, ready, flush, mark>>

(* The .finally callback, and the settlement of the promise that the       *)
(* background continuation and drainBarrier hang on.                       *)
ReleaseWrite ==
    /\ active.stage \in {"durable", "retained"}
    /\ active' = NoWrite
    /\ continueDue' = (active.background /\ active.stage = "durable")
    /\ barrier' = CASE barrier = "overlap" -> "overlapped"
                    [] barrier = "writing" /\ active.stage = "durable" -> "written"
                    [] barrier = "writing" /\ active.stage = "retained" -> "failed"
                    [] OTHER -> barrier
    /\ UNCHANGED <<accepted, durable, pending, timer, deadlineExpired,
                   automaticPaused, ready, flush, mark>>

-----------------------------------------------------------------------------
(* The callers that joined the barrier all get its one answer.             *)
Joined == {c \in Caller : flush[c] = "barrier"}

Settled(callers, outcome) ==
    [c \in Caller |-> IF c \in callers THEN outcome ELSE flush[c]]

(* The condition of drainBarrier's loop (the variant leaves it at once).   *)
DrainedAtOnce == FALSE
MoreToDrain == pending # <<>>

(* drainBarrier's loop: start another write, or observe the empty queue    *)
(* and close the barrier in the same job.                                  *)
DrainOrClose(callers) ==
    IF MoreToDrain
    THEN /\ StartWrite(FALSE)
         /\ barrier' = "writing"
         /\ flush' = Settled(callers, "barrier")
    ELSE /\ barrier' = "none"
         /\ flush' = Settled(callers, "ok")
         /\ timer' = FALSE
         /\ deadlineExpired' = FALSE
         /\ UNCHANGED <<active, pending>>

(* The coordinator's flush: cancelAutomaticWait, then await live.init.     *)
CallFlush(c) ==
    /\ flush[c] \in {"none", "ok", "failed"}
    /\ flush' = [flush EXCEPT ![c] = "init"]
    /\ mark' = [mark EXCEPT ![c] = Len(accepted)]
    /\ timer' = FALSE
    /\ deadlineExpired' = FALSE
    /\ UNCHANGED <<accepted, durable, pending, active, barrier,
                   automaticPaused, continueDue, ready>>

(* live.init rejected: cancelAutomaticWait again, for an enqueue that came *)
(* in meanwhile, and rethrow.                                              *)
InitFailedFlush(c) ==
    /\ flush[c] = "init"
    /\ ready = "failed"
    /\ flush' = [flush EXCEPT ![c] = "failed"]
    /\ timer' = FALSE
    /\ deadlineExpired' = FALSE
    /\ UNCHANGED <<accepted, durable, pending, active, barrier,
                   automaticPaused, continueDue, ready, mark>>

(* live.init fulfilled: the controller's flush joins a barrier or opens    *)
(* one, whose drain runs up to its first await in the same job.            *)
OpenFlush(c) ==
    /\ flush[c] = "init"
    /\ ready = "ok"
    /\ IF barrier # "none"
       THEN /\ flush' = [flush EXCEPT ![c] = "barrier"]
            /\ UNCHANGED <<timer, active, barrier, deadlineExpired,
                           automaticPaused, pending>>
       ELSE /\ automaticPaused' = FALSE
            /\ IF Busy
               THEN /\ barrier' = "overlap"
                    /\ flush' = [flush EXCEPT ![c] = "barrier"]
                    /\ timer' = FALSE
                    /\ deadlineExpired' = FALSE
                    /\ UNCHANGED <<active, pending>>
               ELSE DrainOrClose({c})
    /\ UNCHANGED <<accepted, durable, continueDue, ready, mark>>

(* drainBarrier resumes after the write it overlapped.  That write's       *)
(* continueAutomatic was registered first and has run.                     *)
ResumeOverlap ==
    /\ barrier = "overlapped"
    /\ ~continueDue
    /\ automaticPaused' = FALSE
    /\ DrainOrClose(Joined)
    /\ UNCHANGED <<accepted, durable, continueDue, ready, mark>>

(* drainBarrier resumes after a write of its own that committed.           *)
ResumeDrain ==
    /\ barrier = "written"
    /\ DrainOrClose(Joined)
    /\ UNCHANGED <<accepted, durable, automaticPaused, continueDue, ready, mark>>

(* The answer of a failed drain (the variant: success).                    *)
RejectionSwallowed == Settled(Joined, "ok")
Rejection == Settled(Joined, "failed")

(* drainBarrier resumes after a write of its own that failed.              *)
RejectBarrier ==
    /\ barrier = "failed"
    /\ barrier' = "none"
    /\ flush' = Rejection
    /\ UNCHANGED <<accepted, durable, pending, timer, active, deadlineExpired,
                   automaticPaused, continueDue, ready, mark>>

-----------------------------------------------------------------------------
(* live.init, the first serialized operation of the session, settles.      *)
InitSettles ==
    /\ ready = "pending"
    /\ Quiet
    /\ ready' \in {"ok", "failed"}
    /\ UNCHANGED <<accepted, durable, pending, timer, active, barrier,
                   deadlineExpired, automaticPaused, continueDue, flush, mark>>

Next ==
    \/ Enqueue
    \/ Deadline
    \/ ContinueAutomatic
    \/ WriteCommits
    \/ WriteRejects
    \/ RetainBatch
    \/ ReleaseWrite
    \/ \E c \in Caller : CallFlush(c) \/ InitFailedFlush(c) \/ OpenFlush(c)
    \/ ResumeOverlap
    \/ ResumeDrain
    \/ RejectBarrier
    \/ InitSettles

Spec == Init /\ [][Next]_vars

(* The promise-job queue is first-in first-out, so every queued job runs;  *)
(* an expired timer fires; the backend answers every operation one way or  *)
(* the other.  Nothing obliges anyone to enqueue or to flush.              *)
Fairness ==
    /\ WF_vars(ContinueAutomatic)
    /\ WF_vars(RetainBatch)
    /\ WF_vars(ReleaseWrite)
    /\ WF_vars(ResumeOverlap)
    /\ WF_vars(ResumeDrain)
    /\ WF_vars(RejectBarrier)
    /\ \A c \in Caller : WF_vars(InitFailedFlush(c) \/ OpenFlush(c))
    /\ WF_vars(Deadline)
    /\ WF_vars(WriteCommits \/ WriteRejects)
    /\ WF_vars(InitSettles)

FairSpec == Spec /\ Fairness

-----------------------------------------------------------------------------
(* The batch of the outstanding write, until it is durable or retained.    *)
InFlight == IF active.stage \in {"writing", "failed"} THEN active.batch ELSE <<>>

(* Every accepted event is in exactly one place, and the durable log, the  *)
(* write in flight and the queue hold them in the order of acceptance: no  *)
(* failed batch, overlap or retry loses, repeats or reorders an event      *)
(* (startWrite's splice(0) against the .catch's batch.concat(pending)).    *)
EventsInOrder == (durable \o InFlight) \o pending = accepted

(* The write slot and the barrier agree: a barrier awaits exactly the      *)
(* write it believes is active, no deadline runs under a barrier or over   *)
(* an empty queue, and a settled background write has not been overtaken   *)
(* by another one.  Hence startWrite never runs over an outstanding write. *)
WriteSlot ==
    /\ timer => pending # <<>>
    /\ barrier # "none" => ~timer
    /\ barrier = "none" => ~Busy \/ active.background
    /\ barrier = "overlap" => Busy /\ active.background
    /\ barrier = "writing" => Busy /\ ~active.background
    /\ barrier \in {"overlapped", "written", "failed"} => ~Busy
    /\ continueDue => \/ ~Busy
                      \/ barrier = "writing" /\ active.stage = "writing"

(* A waiting caller's barrier exists, and a flush that reported success    *)
(* left every event accepted before the call durable.                      *)
FlushPromise ==
    \A c \in Caller :
        /\ mark[c] <= Len(accepted)
        /\ flush[c] = "barrier" => barrier # "none"
        /\ flush[c] = "ok" => mark[c] <= Len(durable)

(* No write begins while another is outstanding, and no write is empty:    *)
(* backend calls of one session never overlap.                             *)
OneWriteAtATime ==
    [][ active' # active =>
          \/ ~Busy /\ active'.stage = "writing" /\ active'.batch # <<>>
          \/ Busy /\ ~Busy'
          \/ Busy /\ active'.stage # "writing" /\ active'.batch = active.batch
      ]_vars

(* A caller waits from the call until the coordinator's flush settles.     *)
Answers == [c \in Caller |->
              IF flush[c] \in {"init", "barrier"} THEN "waiting" ELSE flush[c]]

Log == INSTANCE DurableLog WITH flush <- Answers

(* The controller keeps the promises of the abstract durable log.          *)
Refinement == Log!Spec

(* Every flush is answered, whatever the backend does.  (The producer is   *)
(* bounded by MaxEvents: a producer that never pauses can keep the drain   *)
(* loop of drainBarrier busy for ever.)                                    *)
FlushAnswered == \A c \in Caller :
    flush[c] \in {"init", "barrier"} ~> flush[c] \in {"ok", "failed"}

(* An accepted event becomes durable without anyone asking for a flush,    *)
(* unless a write or the initialization failed and the event waits for the *)
(* next enqueue or flush.                                                  *)
EventuallyDurable == \A n \in 1..MaxEvents :
    Len(accepted) >= n ~> \/ Len(durable) >= n
                          \/ automaticPaused
                          \/ ready = "failed"

(* The queue drains, asked or not. *)
Drains == FlushAnswered /\ EventuallyDurable
=============================================================================
