----------------------------- MODULE DurableLog -----------------------------
(***************************************************************************)
(* What a live session's persistence promises to the rest of the harness,  *)
(* without saying how the writes are batched, retried or overlapped:       *)
(*                                                                         *)
(*   - events become durable in the order in which they were accepted, and *)
(*     each of them exactly once (the durable log is a prefix of the       *)
(*     accepted events and only grows);                                    *)
(*   - a flush that reports success has made every event accepted before   *)
(*     the call durable; a flush may also report failure, which promises   *)
(*     nothing.                                                            *)
(***************************************************************************)
EXTENDS Naturals, Sequences

CONSTANTS
    Caller,     \* who may ask for a flush
    MaxEvents   \* bound: events accepted in one behaviour

VARIABLES
    accepted,   \* events accepted so far, in order
    durable,    \* the durable log
    flush,      \* how each caller's last flush stands
    mark        \* events accepted when the caller asked for it

vars == <<accepted, durable, flush, mark>>

Init ==
    /\ accepted = <<>>
    /\ durable = <<>>
    /\ flush = [c \in Caller |-> "none"]
    /\ mark = [c \in Caller |-> 0]

Accept ==
    /\ Len(accepted) < MaxEvents
    /\ accepted' = Append(accepted, Len(accepted) + 1)
    /\ UNCHANGED <<durable, flush, mark>>

(* A batch of any size: always the oldest events that are not durable yet. *)
Commit ==
    \E n \in Len(durable) + 1 .. Len(accepted) :
        /\ durable' = SubSeq(accepted, 1, n)
        /\ UNCHANGED <<accepted, flush, mark>>

Call(c) ==
    /\ flush[c] # "waiting"
    /\ flush' = [flush EXCEPT ![c] = "waiting"]
    /\ mark' = [mark EXCEPT ![c] = Len(accepted)]
    /\ UNCHANGED <<accepted, durable>>

Waiting == {c \in Caller : flush[c] = "waiting"}

Answer(callers, outcome) ==
    /\ flush' = [c \in Caller |-> IF c \in callers THEN outcome ELSE flush[c]]
    /\ UNCHANGED <<accepted, durable, mark>>

(* One barrier answers every caller that joined it. *)
Succeed ==
    \E callers \in SUBSET Waiting :
        /\ \A c \in callers : mark[c] <= Len(durable)
        /\ Answer(callers, "ok")

Fail == \E callers \in SUBSET Waiting : Answer(callers, "failed")

Next == Accept \/ Commit \/ (\E c \in Caller : Call(c)) \/ Succeed \/ Fail

Spec == Init /\ [][Next]_vars
=============================================================================
