-------------------------- MODULE WriteBehindProofs -------------------------
(***************************************************************************)
(* What holds of the write-behind controller for every set of callers and  *)
(* every number of events.  The inductive invariant is TypeOK with the two *)
(* parts TLC checks by name: WriteSlot, which says that startWrite is only *)
(* reached with the slot free, and EventsInOrder, which needs it (a write  *)
(* started over an outstanding one would drop its batch).                  *)
(***************************************************************************)
EXTENDS WriteBehind, SequenceTheorems, TLAPS

USE DEF TimedPath, SlotTaken, Overdue, PutBack, MoreToDrain, Rejection

Inv == TypeOK /\ WriteSlot /\ EventsInOrder

(* What the proofs use of sequences of events; Batch itself stays folded.  *)
LEMMA BatchFacts ==
    /\ <<>> \in Batch
    /\ \A s \in Batch : Len(s) \in Nat /\ s \o <<>> = s /\ <<>> \o s = s
    /\ \A s, t \in Batch : s \o t \in Batch /\ Len(s \o t) = Len(s) + Len(t)
    /\ \A s, t, u \in Batch : (s \o t) \o u = s \o (t \o u)
    /\ \A s \in Batch, e \in 1..MaxEvents :
          /\ Append(s, e) \in Batch
          /\ <<e>> \in Batch
          /\ Append(s, e) # <<>>
          /\ Append(s, e) = s \o <<e>>
          /\ Len(Append(s, e)) = Len(s) + 1
<1>1. <<>> \in Batch
  BY EmptySeq DEF Batch
<1>2. \A s \in Batch : Len(s) \in Nat /\ s \o <<>> = s /\ <<>> \o s = s
  BY LenProperties, ConcatEmptySeq DEF Batch
<1>3. \A s, t \in Batch : s \o t \in Batch /\ Len(s \o t) = Len(s) + Len(t)
  BY ConcatProperties DEF Batch
<1>4. \A s, t, u \in Batch : (s \o t) \o u = s \o (t \o u)
  BY ConcatAssociative DEF Batch
<1>5. ASSUME NEW s \in Batch, NEW e \in 1..MaxEvents
      PROVE  /\ Append(s, e) \in Batch
             /\ <<e>> \in Batch
             /\ Append(s, e) # <<>>
             /\ Append(s, e) = s \o <<e>>
             /\ Len(Append(s, e)) = Len(s) + 1
  <2>1. <<e>> \in Batch
    BY DEF Batch
  <2> QED
    BY <2>1, AppendProperties, AppendIsConcat DEF Batch
<1> QED
  BY <1>1, <1>2, <1>3, <1>4, <1>5

(* The event enqueue assigns is a legal sequence number.                   *)
LEMMA NextEvent == ASSUME TypeOK, Enqueue PROVE Len(accepted) + 1 \in 1..MaxEvents
  BY MaxEventsAssumption, BatchFacts DEF TypeOK, Enqueue

(* The record a started write leaves in the slot.                          *)
LEMMA StartWriteType ==
    ASSUME TypeOK, NEW b \in BOOLEAN, StartWrite(b)
    PROVE  /\ active' \in Write
           /\ pending' \in Batch
           /\ timer' \in BOOLEAN
           /\ deadlineExpired' \in BOOLEAN
  BY BatchFacts DEF TypeOK, StartWrite, Write

(* The drain loop's own variables, whichever way the loop goes.            *)
LEMMA DrainType ==
    ASSUME TypeOK, NEW callers, DrainOrClose(callers)
    PROVE  /\ active' \in Write
           /\ pending' \in Batch
           /\ timer' \in BOOLEAN
           /\ deadlineExpired' \in BOOLEAN
           /\ barrier' \in BarrierStage
           /\ flush' \in [Caller -> FlushStage]
<1>1. CASE pending # <<>>
  <2>1. StartWrite(FALSE) /\ barrier' = "writing" /\ flush' = Settled(callers, "barrier")
    BY <1>1 DEF DrainOrClose
  <2> QED
    BY <2>1, StartWriteType DEF TypeOK, Settled, BarrierStage, FlushStage
<1>2. CASE pending = <<>>
  BY <1>2 DEF DrainOrClose, TypeOK, Settled, BarrierStage, FlushStage
<1> QED
  BY <1>1, <1>2

(* Every action takes well-typed states to well-typed states.              *)
LEMMA TypeStep == ASSUME TypeOK, [Next]_vars PROVE TypeOK'
<1> USE DEF TypeOK
<1>1. CASE Enqueue
  <2>1. accepted' \in Batch /\ Len(accepted') <= MaxEvents /\ pending' \in Batch
    <3> DEFINE event == Len(accepted) + 1
    <3>1. event \in 1..MaxEvents /\ Len(accepted) \in Nat
      BY <1>1, NextEvent, BatchFacts
    <3>2. accepted' = Append(accepted, event) /\ pending' = Append(pending, event)
      BY <1>1 DEF Enqueue
    <3>3. /\ Append(accepted, event) \in Batch /\ Append(pending, event) \in Batch
          /\ Len(Append(accepted, event)) = event
      BY <3>1, BatchFacts
    <3> QED
      BY <3>1, <3>2, <3>3, MaxEventsAssumption
  <2>2. timer' \in BOOLEAN /\ deadlineExpired' \in BOOLEAN /\ automaticPaused' \in BOOLEAN
    <3>1. CASE barrier # "none"
      BY <1>1, <3>1 DEF Enqueue
    <3>2. CASE barrier = "none"
      BY <1>1, <3>2, Zenon DEF Enqueue
    <3> QED
      BY <3>1, <3>2
  <2> QED
    BY <1>1, <2>1, <2>2 DEF Enqueue
<1>2. CASE Deadline
  BY <1>2, StartWriteType DEF Deadline
<1>3. CASE ContinueAutomatic
  BY <1>3, StartWriteType DEF ContinueAutomatic
<1>4. CASE WriteCommits
  BY <1>4, BatchFacts DEF WriteCommits, Write
<1>5. CASE WriteRejects
  BY <1>5 DEF WriteRejects, Write
<1>6. CASE RetainBatch
  BY <1>6, BatchFacts DEF RetainBatch, Write
<1>7. CASE ReleaseWrite
  <2>1. active' \in Write
    BY <1>7, BatchFacts DEF ReleaseWrite, Write, NoWrite
  <2>2. barrier' \in BarrierStage
    BY <1>7 DEF ReleaseWrite, BarrierStage
  <2>3. continueDue' \in BOOLEAN
    BY <1>7 DEF ReleaseWrite, Write
  <2> QED
    BY <1>7, <2>1, <2>2, <2>3 DEF ReleaseWrite
<1>8. ASSUME NEW c \in Caller, CallFlush(c) PROVE TypeOK'
  <2>1. Len(accepted) \in 0..MaxEvents
    BY BatchFacts, MaxEventsAssumption
  <2> QED
    BY <1>8, <2>1 DEF CallFlush, FlushStage
<1>9. ASSUME NEW c \in Caller, InitFailedFlush(c) PROVE TypeOK'
  BY <1>9 DEF InitFailedFlush, FlushStage
<1>10. ASSUME NEW c \in Caller, OpenFlush(c) PROVE TypeOK'
  <2>1. CASE barrier # "none"
    BY <1>10, <2>1 DEF OpenFlush, FlushStage
  <2>2. CASE barrier = "none" /\ Busy
    BY <1>10, <2>2 DEF OpenFlush, FlushStage, BarrierStage
  <2>3. CASE barrier = "none" /\ ~Busy
    BY <1>10, <2>3, DrainType DEF OpenFlush
  <2> QED
    BY <2>1, <2>2, <2>3
<1>11. CASE ResumeOverlap
  BY <1>11, DrainType DEF ResumeOverlap
<1>12. CASE ResumeDrain
  BY <1>12, DrainType DEF ResumeDrain
<1>13. CASE RejectBarrier
  BY <1>13 DEF RejectBarrier, Settled, BarrierStage, FlushStage
<1>14. CASE InitSettles
  BY <1>14 DEF InitSettles
<1>15. CASE UNCHANGED vars
  BY <1>15 DEF vars
<1> QED
  BY <1>1, <1>2, <1>3, <1>4, <1>5, <1>6, <1>7, <1>8, <1>9, <1>10, <1>11,
     <1>12, <1>13, <1>14, <1>15 DEF Next

-----------------------------------------------------------------------------
(* The slot, the barrier and the timer stay consistent.                    *)
LEMMA SlotStep == ASSUME TypeOK, WriteSlot, [Next]_vars PROVE WriteSlot'
<1> USE DEF TypeOK, WriteSlot, Busy
<1>1. CASE Enqueue
  <2>1. pending' # <<>>
    BY <1>1, NextEvent, BatchFacts DEF Enqueue
  <2> QED
    BY <1>1, <2>1 DEF Enqueue
<1>2. CASE Deadline
  BY <1>2 DEF Deadline, StartWrite, Quiet
<1>3. CASE ContinueAutomatic
  BY <1>3 DEF ContinueAutomatic, StartWrite
<1>4. CASE WriteCommits
  BY <1>4 DEF WriteCommits, Write, Quiet
<1>5. CASE WriteRejects
  BY <1>5 DEF WriteRejects, Write, Quiet
<1>6. CASE RetainBatch
  BY <1>6 DEF RetainBatch, Write
<1>7. CASE ReleaseWrite
  BY <1>7 DEF ReleaseWrite, NoWrite, BarrierStage
<1>8. ASSUME NEW c \in Caller, CallFlush(c) PROVE WriteSlot'
  BY <1>8 DEF CallFlush
<1>9. ASSUME NEW c \in Caller, InitFailedFlush(c) PROVE WriteSlot'
  BY <1>9 DEF InitFailedFlush
<1>10. ASSUME NEW c \in Caller, OpenFlush(c) PROVE WriteSlot'
  BY <1>10 DEF OpenFlush, DrainOrClose, StartWrite
<1>11. CASE ResumeOverlap
  BY <1>11 DEF ResumeOverlap, DrainOrClose, StartWrite
<1>12. CASE ResumeDrain
  BY <1>12 DEF ResumeDrain, DrainOrClose, StartWrite
<1>13. CASE RejectBarrier
  BY <1>13 DEF RejectBarrier
<1>14. CASE InitSettles
  BY <1>14 DEF InitSettles
<1>15. CASE UNCHANGED vars
  BY <1>15 DEF vars
<1> QED
  BY <1>1, <1>2, <1>3, <1>4, <1>5, <1>6, <1>7, <1>8, <1>9, <1>10, <1>11,
     <1>12, <1>13, <1>14, <1>15 DEF Next

-----------------------------------------------------------------------------
(* Starting a write over a free slot moves pending into flight, whole.     *)
LEMMA StartWriteOrder ==
    ASSUME TypeOK, EventsInOrder, ~Busy, NEW b \in BOOLEAN, StartWrite(b),
           UNCHANGED <<accepted, durable>>
    PROVE  EventsInOrder'
<1>1. InFlight = <<>> /\ InFlight' = pending /\ pending' = <<>>
  BY DEF InFlight, Busy, StartWrite
<1>2. (durable \o <<>>) \o pending = durable \o pending
  BY BatchFacts DEF TypeOK
<1>3. (durable \o pending) \o <<>> = durable \o pending
  BY BatchFacts DEF TypeOK
<1> QED
  BY <1>1, <1>2, <1>3 DEF EventsInOrder

(* The drain loop starts its write over a free slot, or moves nothing.     *)
LEMMA DrainOrder ==
    ASSUME TypeOK, EventsInOrder, ~Busy, NEW callers, DrainOrClose(callers),
           UNCHANGED <<accepted, durable>>
    PROVE  EventsInOrder'
<1>1. CASE pending # <<>>
  BY <1>1, StartWriteOrder DEF DrainOrClose
<1>2. CASE pending = <<>>
  BY <1>2 DEF DrainOrClose, EventsInOrder, InFlight
<1> QED
  BY <1>1, <1>2

(* No step loses, repeats or reorders an event.                            *)
LEMMA OrderStep == ASSUME Inv, [Next]_vars PROVE EventsInOrder'
<1> USE DEF Inv
<1>0. /\ durable \in Batch /\ pending \in Batch /\ accepted \in Batch
      /\ active.batch \in Batch /\ InFlight \in Batch
  BY BatchFacts DEF TypeOK, Write, InFlight
<1>1. CASE Enqueue
  <2> DEFINE event == Len(accepted) + 1
  <2>1. event \in 1..MaxEvents
    BY <1>1, NextEvent
  <2>2. /\ accepted' = accepted \o <<event>>
        /\ pending' = pending \o <<event>>
        /\ <<event>> \in Batch
    BY <1>0, <1>1, <2>1, BatchFacts DEF Enqueue
  <2>3. durable' = durable /\ InFlight' = InFlight
    BY <1>1 DEF Enqueue, InFlight
  <2> HIDE DEF event
  <2>4. (durable \o InFlight) \in Batch
    BY <1>0, BatchFacts
  <2>5. (durable \o InFlight) \o (pending \o <<event>>)
          = ((durable \o InFlight) \o pending) \o <<event>>
    <3>1. \A s, t, u \in Batch : (s \o t) \o u = s \o (t \o u)
      BY BatchFacts
    <3> QED
      BY <1>0, <2>2, <2>4, <3>1
  <2> QED
    BY <2>2, <2>3, <2>5 DEF EventsInOrder
<1>2. CASE Deadline
  <2>1. CASE Busy
    BY <1>2, <2>1 DEF Deadline, EventsInOrder, InFlight
  <2>2. CASE ~Busy
    BY <1>2, <2>2, StartWriteOrder DEF Deadline
  <2> QED
    BY <2>1, <2>2
<1>3. CASE ContinueAutomatic
  <2>1. CASE barrier = "none" /\ pending # <<>> /\ deadlineExpired
    BY <1>3, <2>1, StartWriteOrder DEF ContinueAutomatic, WriteSlot
  <2>2. CASE ~(barrier = "none" /\ pending # <<>> /\ deadlineExpired)
    BY <1>3, <2>2 DEF ContinueAutomatic, EventsInOrder, InFlight
  <2> QED
    BY <2>1, <2>2
<1>4. CASE WriteCommits
  <2>1. InFlight = active.batch /\ InFlight' = <<>>
    BY <1>4 DEF WriteCommits, InFlight, TypeOK, Write
  <2>2. (durable \o active.batch) \o <<>> = durable \o active.batch
    BY <1>0, BatchFacts
  <2> QED
    BY <1>4, <2>1, <2>2 DEF WriteCommits, EventsInOrder
<1>5. CASE WriteRejects
  BY <1>5 DEF WriteRejects, EventsInOrder, InFlight, TypeOK, Write
<1>6. CASE RetainBatch
  <2>1. InFlight = active.batch /\ InFlight' = <<>>
    BY <1>6 DEF RetainBatch, InFlight, TypeOK, Write
  <2>2. (durable \o <<>>) \o (active.batch \o pending)
          = (durable \o active.batch) \o pending
    <3>1. durable \o <<>> = durable
      BY <1>0, BatchFacts
    <3>2. (durable \o active.batch) \o pending = durable \o (active.batch \o pending)
      BY <1>0, BatchFacts
    <3> QED
      BY <3>1, <3>2
  <2> QED
    BY <1>6, <2>1, <2>2 DEF RetainBatch, EventsInOrder
<1>7. CASE ReleaseWrite
  BY <1>7 DEF ReleaseWrite, NoWrite, EventsInOrder, InFlight
<1>8. ASSUME NEW c \in Caller, CallFlush(c) PROVE EventsInOrder'
  BY <1>8 DEF CallFlush, EventsInOrder, InFlight
<1>9. ASSUME NEW c \in Caller, InitFailedFlush(c) PROVE EventsInOrder'
  BY <1>9 DEF InitFailedFlush, EventsInOrder, InFlight
<1>10. ASSUME NEW c \in Caller, OpenFlush(c) PROVE EventsInOrder'
  <2>1. CASE barrier # "none" \/ Busy
    BY <1>10, <2>1 DEF OpenFlush, EventsInOrder, InFlight
  <2>2. CASE barrier = "none" /\ ~Busy
    BY <1>10, <2>2, DrainOrder DEF OpenFlush
  <2> QED
    BY <2>1, <2>2
<1>11. CASE ResumeOverlap
  BY <1>11, DrainOrder DEF ResumeOverlap, WriteSlot
<1>12. CASE ResumeDrain
  BY <1>12, DrainOrder DEF ResumeDrain, WriteSlot
<1>13. CASE RejectBarrier
  BY <1>13 DEF RejectBarrier, EventsInOrder, InFlight
<1>14. CASE InitSettles
  BY <1>14 DEF InitSettles, EventsInOrder, InFlight
<1>15. CASE UNCHANGED vars
  BY <1>15 DEF vars, EventsInOrder, InFlight
<1> QED
  BY <1>1, <1>2, <1>3, <1>4, <1>5, <1>6, <1>7, <1>8, <1>9, <1>10, <1>11,
     <1>12, <1>13, <1>14, <1>15 DEF Next

(* The controller starts with nothing accepted and the slot free.          *)
LEMMA InitInv == Init => Inv
<1> SUFFICES ASSUME Init PROVE Inv
  OBVIOUS
<1>1. <<>> \in Batch /\ Len(<<>>) = 0 /\ (<<>> \o <<>>) \o <<>> = <<>>
  BY BatchFacts
<1>2. TypeOK
  <2>1. active \in Write
    BY <1>1 DEF Init, Write, NoWrite
  <2>2. flush \in [Caller -> FlushStage] /\ mark \in [Caller -> 0..MaxEvents]
    BY MaxEventsAssumption DEF Init, FlushStage
  <2>3. accepted \in Batch /\ Len(accepted) <= MaxEvents
    BY <1>1, MaxEventsAssumption DEF Init
  <2>4. durable \in Batch /\ pending \in Batch
    BY <1>1 DEF Init
  <2> QED
    BY <2>1, <2>2, <2>3, <2>4 DEF Init, TypeOK, BarrierStage
<1>3. WriteSlot
  BY DEF Init, WriteSlot, NoWrite, Busy
<1>4. EventsInOrder
  BY <1>1 DEF Init, EventsInOrder, InFlight, NoWrite
<1> QED
  BY <1>2, <1>3, <1>4 DEF Inv

(* The inductive invariant, from which the theorems below follow.          *)
THEOREM Invariance == Spec => []Inv
<1>1. Inv /\ [Next]_vars => Inv'
  BY TypeStep, SlotStep, OrderStep DEF Inv
<1> QED
  BY InitInv, <1>1, PTL DEF Spec

(* Every variable keeps its type, for any callers and any number of events.*)
THEOREM TypeCorrect == Spec => []TypeOK
  BY Invariance, PTL DEF Inv

(* Write-behind batching, overlap, failure and retry never lose, repeat or *)
(* reorder an accepted event.                                              *)
THEOREM OrderCorrect == Spec => []EventsInOrder
  BY Invariance, PTL DEF Inv

(* The barrier, the timer and the write slot always agree.                 *)
THEOREM SlotCorrect == Spec => []WriteSlot
  BY Invariance, PTL DEF Inv

-----------------------------------------------------------------------------
(* Backend writes of one session never overlap and are never empty.        *)
THEOREM OneWriteCorrect == Spec => OneWriteAtATime
<1> DEFINE Step == active' # active =>
             \/ ~Busy /\ active'.stage = "writing" /\ active'.batch # <<>>
             \/ Busy /\ ~Busy'
             \/ Busy /\ active'.stage # "writing" /\ active'.batch = active.batch
<1>1. ASSUME Inv, [Next]_vars PROVE Step
  <2> USE <1>1 DEF Inv, WriteSlot, Busy, TypeOK, Write
  <2>1. CASE Deadline \/ ContinueAutomatic
    BY <2>1 DEF Deadline, ContinueAutomatic, StartWrite
  <2>2. CASE WriteCommits \/ WriteRejects \/ RetainBatch \/ ReleaseWrite
    BY <2>2 DEF WriteCommits, WriteRejects, RetainBatch, ReleaseWrite, NoWrite
  <2>3. ASSUME NEW c \in Caller, OpenFlush(c) PROVE Step
    BY <2>3 DEF OpenFlush, DrainOrClose, StartWrite
  <2>4. CASE ResumeOverlap \/ ResumeDrain
    BY <2>4 DEF ResumeOverlap, ResumeDrain, DrainOrClose, StartWrite
  <2>5. ASSUME NEW c \in Caller, CallFlush(c) \/ InitFailedFlush(c) PROVE Step
    BY <2>5 DEF CallFlush, InitFailedFlush
  <2>6. CASE Enqueue \/ RejectBarrier \/ InitSettles \/ UNCHANGED vars
    BY <2>6 DEF Enqueue, RejectBarrier, InitSettles, vars
  <2> QED
    BY <2>1, <2>2, <2>3, <2>4, <2>5, <2>6 DEF Next
<1> QED
  BY Invariance, <1>1, PTL DEF Spec, OneWriteAtATime

-----------------------------------------------------------------------------
(* When the drain loop finds the queue empty, the slot is free and hence   *)
(* everything accepted is durable.                                         *)
LEMMA EmptyMeansDurable ==
    ASSUME Inv, ~Busy, pending = <<>> PROVE durable = accepted
<1>1. InFlight = <<>>
  BY DEF InFlight, Busy
<1>2. (durable \o <<>>) \o <<>> = durable
  <2>1. durable \o <<>> = durable
    BY BatchFacts DEF Inv, TypeOK
  <2> QED
    BY <2>1
<1> QED
  BY <1>1, <1>2 DEF Inv, EventsInOrder

(* Answering the callers of a drain that closed keeps the promise.         *)
LEMMA DrainPromise ==
    ASSUME Inv, FlushPromise, ~Busy, NEW callers, DrainOrClose(callers),
           Joined \subseteq callers, UNCHANGED <<accepted, durable, mark>>
    PROVE  FlushPromise'
<1>1. CASE pending # <<>>
  BY <1>1 DEF DrainOrClose, Settled, FlushPromise, Inv, TypeOK
<1>2. CASE pending = <<>>
  <2>1. durable = accepted
    BY <1>2, EmptyMeansDurable
  <2> QED
    BY <1>2, <2>1 DEF DrainOrClose, Settled, FlushPromise, Joined, Inv, TypeOK
<1> QED
  BY <1>1, <1>2

LEMMA PromiseStep == ASSUME Inv, FlushPromise, [Next]_vars PROVE FlushPromise'
<1> USE DEF Inv, TypeOK
<1>1. CASE Enqueue
  <2>1. Len(accepted) \in Nat /\ Len(accepted') = Len(accepted) + 1
    BY <1>1, NextEvent, BatchFacts DEF Enqueue
  <2>2. \A c \in Caller : mark[c] \in Nat
    BY MaxEventsAssumption
  <2> QED
    BY <1>1, <2>1, <2>2 DEF Enqueue, FlushPromise
<1>2. CASE WriteCommits
  <2>1. active.batch \in Batch
    BY DEF Write
  <2>2. /\ Len(durable) \in Nat /\ Len(active.batch) \in Nat
        /\ Len(durable') = Len(durable) + Len(active.batch)
    BY <1>2, <2>1, BatchFacts DEF WriteCommits
  <2>3. \A c \in Caller : mark[c] \in Nat
    BY MaxEventsAssumption
  <2> QED
    BY <1>2, <2>2, <2>3 DEF WriteCommits, FlushPromise
<1>3. CASE Deadline \/ ContinueAutomatic \/ WriteRejects \/ RetainBatch
           \/ InitSettles \/ UNCHANGED vars
  BY <1>3 DEF Deadline, ContinueAutomatic, WriteRejects, RetainBatch,
              InitSettles, vars, FlushPromise
<1>4. CASE ReleaseWrite
  BY <1>4 DEF ReleaseWrite, FlushPromise
<1>5. ASSUME NEW c \in Caller, CallFlush(c) \/ InitFailedFlush(c)
      PROVE  FlushPromise'
  BY <1>5, BatchFacts DEF CallFlush, InitFailedFlush, FlushPromise
<1>6. ASSUME NEW c \in Caller, OpenFlush(c) PROVE FlushPromise'
  <2>1. CASE barrier # "none" \/ Busy
    BY <1>6, <2>1 DEF OpenFlush, FlushPromise
  <2>2. CASE barrier = "none" /\ ~Busy
    <3>1. Joined \subseteq {c}
      BY <2>2 DEF Joined, FlushPromise
    <3> QED
      BY <1>6, <2>2, <3>1, DrainPromise DEF OpenFlush
  <2> QED
    BY <2>1, <2>2
<1>7. CASE ResumeOverlap \/ ResumeDrain
  BY <1>7, DrainPromise DEF ResumeOverlap, ResumeDrain, WriteSlot
<1>8. CASE RejectBarrier
  BY <1>8 DEF RejectBarrier, Settled, Joined, FlushPromise
<1> QED
  BY <1>1, <1>2, <1>3, <1>4, <1>5, <1>6, <1>7, <1>8 DEF Next

(* A flush that reports success has made everything accepted before the    *)
(* call durable, whoever else enqueues, flushes or fails meanwhile.        *)
THEOREM FlushCorrect == Spec => []FlushPromise
<1>1. Init => FlushPromise
  <2> SUFFICES ASSUME Init, NEW c \in Caller
               PROVE  mark[c] <= Len(accepted) /\ flush[c] = "none"
    BY DEF FlushPromise
  <2>1. mark[c] = 0 /\ flush[c] = "none"
    BY DEF Init
  <2>2. Len(accepted) = 0
    BY EmptySeq DEF Init
  <2> QED
    BY <2>1, <2>2
<1>2. Inv /\ FlushPromise /\ [Next]_vars => FlushPromise'
  BY PromiseStep
<1> QED
  BY Invariance, <1>1, <1>2, PTL DEF Spec

-----------------------------------------------------------------------------
(* A committed batch extends the durable log along the accepted events.    *)
LEMMA CommitsPrefix ==
    ASSUME NEW s \in Batch, NEW t \in Batch, NEW u \in Batch
    PROVE  SubSeq((s \o t) \o u, 1, Len(s) + Len(t)) = s \o t
<1> DEFINE st == s \o t
<1>1. st \in Batch /\ Len(st) = Len(s) + Len(t) /\ Len(st) \in Nat
  BY BatchFacts
<1> HIDE DEF st
<1>2. CASE Len(st) = 0
  <2>1. st = <<>>
    BY <1>1, <1>2, EmptySeq DEF Batch
  <2>2. SubSeq(st \o u, 1, 0) = <<>>
    BY SubSeqEmpty
  <2> QED
    BY <1>1, <1>2, <2>1, <2>2 DEF st
<1>3. CASE Len(st) > 0
  <2>1. SubSeq(st \o u, 1, Len(st)) = SubSeq(st, 1, Len(st))
    BY <1>1, <1>3, SubSeqOfConcat1 DEF Batch
  <2>2. SubSeq(st, 1, Len(st)) = st
    BY <1>1, SubSeqFull DEF Batch
  <2> QED
    BY <1>1, <2>1, <2>2 DEF st
<1> QED
  BY <1>1, <1>2, <1>3

(* Closing a drain answers the joined callers; starting a write answers    *)
(* nobody.                                                                 *)
LEMMA DrainAnswers ==
    ASSUME Inv, FlushPromise, ~Busy, NEW callers \in SUBSET Caller,
           \A c \in callers : flush[c] \in {"init", "barrier"},
           DrainOrClose(callers), UNCHANGED <<accepted, durable, mark>>
    PROVE  [Log!Next]_(Log!vars)
<1> USE DEF Inv, TypeOK
<1>1. CASE pending # <<>>
  <2>1. Answers' = Answers
    BY <1>1 DEF DrainOrClose, Settled, Answers
  <2> QED
    BY <2>1 DEF Log!vars
<1>2. CASE pending = <<>>
  <2>1. durable = accepted
    BY <1>2, EmptyMeansDurable
  <2>2. callers \in SUBSET Log!Waiting
    BY DEF Log!Waiting, Answers
  <2>3. Answers' = [c \in Caller |-> IF c \in callers THEN "ok" ELSE Answers[c]]
    BY <1>2 DEF DrainOrClose, Settled, Answers
  <2>4. \A c \in callers : mark[c] <= Len(durable)
    BY <2>1 DEF FlushPromise
  <2> QED
    BY <2>2, <2>3, <2>4 DEF Log!Next, Log!Succeed, Log!Answer
<1> QED
  BY <1>1, <1>2

(* Every step of the controller is a step of the abstract log or none.     *)
LEMMA LogStep ==
    ASSUME Inv, FlushPromise, [Next]_vars PROVE [Log!Next]_(Log!vars)
<1> USE DEF Inv, TypeOK
<1>1. CASE Enqueue
  <2>1. Answers' = Answers
    BY <1>1 DEF Enqueue, Answers
  <2> QED
    BY <1>1, <2>1 DEF Enqueue, Log!Next, Log!Accept
<1>2. CASE WriteCommits
  <2> DEFINE n == Len(durable) + Len(active.batch)
  <2>0. Answers' = Answers
    BY <1>2 DEF WriteCommits, Answers
  <2>1. active.batch \in Batch /\ Len(durable) \in Nat /\ Len(active.batch) \in Nat
    BY BatchFacts DEF Write
  <2>2. accepted = (durable \o active.batch) \o pending
    BY <1>2 DEF WriteCommits, EventsInOrder, InFlight
  <2>3. SubSeq(accepted, 1, n) = durable \o active.batch
    BY <2>1, <2>2, CommitsPrefix
  <2>4. n <= Len(accepted)
    <3>1. Len(durable \o active.batch) = n /\ durable \o active.batch \in Batch
      BY <2>1, BatchFacts
    <3>2. Len(accepted) = n + Len(pending) /\ Len(pending) \in Nat
      BY <2>2, <3>1, BatchFacts
    <3> QED
      BY <2>1, <3>2
  <2>5. CASE Len(active.batch) = 0
    <3>1. active.batch = <<>>
      BY <2>1, <2>5, EmptySeq DEF Batch
    <3>2. durable' = durable
      BY <1>2, <3>1, BatchFacts DEF WriteCommits
    <3> QED
      BY <1>2, <2>0, <3>2 DEF WriteCommits, Log!vars
  <2>6. CASE Len(active.batch) > 0
    <3>1. n \in Len(durable) + 1 .. Len(accepted)
      <4>1. Len(accepted) \in Nat
        BY BatchFacts
      <4> QED
        BY <2>1, <2>4, <2>6, <4>1
    <3> QED
      BY <1>2, <2>0, <2>3, <3>1 DEF WriteCommits, Log!Next, Log!Commit
  <2> QED
    BY <2>1, <2>5, <2>6
<1>3. CASE Deadline \/ ContinueAutomatic \/ WriteRejects \/ RetainBatch
           \/ ReleaseWrite \/ InitSettles \/ UNCHANGED vars
  <2>1. UNCHANGED <<accepted, durable, flush, mark>>
    BY <1>3 DEF Deadline, ContinueAutomatic, WriteRejects, RetainBatch,
                ReleaseWrite, InitSettles, vars
  <2> QED
    BY <2>1 DEF Log!vars, Answers
<1>4. ASSUME NEW c \in Caller, CallFlush(c) PROVE [Log!Next]_(Log!vars)
  <2>1. Answers[c] # "waiting" /\ Answers' = [Answers EXCEPT ![c] = "waiting"]
    BY <1>4 DEF CallFlush, Answers
  <2> QED
    BY <1>4, <2>1 DEF CallFlush, Log!Next, Log!Call
<1>5. ASSUME NEW c \in Caller, InitFailedFlush(c) PROVE [Log!Next]_(Log!vars)
  <2>1. {c} \in SUBSET Log!Waiting
    BY <1>5 DEF InitFailedFlush, Log!Waiting, Answers
  <2>2. Answers' = [d \in Caller |-> IF d \in {c} THEN "failed" ELSE Answers[d]]
    BY <1>5 DEF InitFailedFlush, Answers
  <2> QED
    BY <1>5, <2>1, <2>2 DEF InitFailedFlush, Log!Next, Log!Fail, Log!Answer
<1>6. ASSUME NEW c \in Caller, OpenFlush(c) PROVE [Log!Next]_(Log!vars)
  <2>1. CASE barrier # "none" \/ Busy
    <3>1. Answers' = Answers
      BY <1>6, <2>1 DEF OpenFlush, Answers
    <3> QED
      BY <1>6, <3>1 DEF OpenFlush, Log!vars
  <2>2. CASE barrier = "none" /\ ~Busy
    BY <1>6, <2>2, DrainAnswers DEF OpenFlush
  <2> QED
    BY <2>1, <2>2
<1>7. CASE ResumeOverlap \/ ResumeDrain
  <2>1. Joined \in SUBSET Caller /\ \A c \in Joined : flush[c] \in {"init", "barrier"}
    BY DEF Joined
  <2> QED
    BY <1>7, <2>1, DrainAnswers DEF ResumeOverlap, ResumeDrain, WriteSlot
<1>8. CASE RejectBarrier
  <2>1. Joined \in SUBSET Log!Waiting
    BY DEF Joined, Log!Waiting, Answers
  <2>2. Answers' = [c \in Caller |-> IF c \in Joined THEN "failed" ELSE Answers[c]]
    BY <1>8 DEF RejectBarrier, Settled, Joined, Answers
  <2> QED
    BY <1>8, <2>1, <2>2 DEF RejectBarrier, Log!Next, Log!Fail, Log!Answer
<1> QED
  BY <1>1, <1>2, <1>3, <1>4, <1>5, <1>6, <1>7, <1>8 DEF Next

(* The controller implements the abstract durable log.                     *)
THEOREM Implements == Spec => Refinement
<1>1. Init => Log!Init
  BY DEF Init, Log!Init, Answers
<1>2. Inv /\ FlushPromise /\ [Next]_vars => [Log!Next]_(Log!vars)
  BY LogStep
<1> QED
  BY Invariance, FlushCorrect, <1>1, <1>2, PTL DEF Spec, Refinement, Log!Spec
=============================================================================
