----------------------------- MODULE AtomicMap ------------------------------
(***************************************************************************)
(* What a storage domain promises its callers: a map whose writes each     *)
(* take effect at one instant between call and answer, and whose answered  *)
(* writes survive closing, reopening and crashes.                          *)
(*                                                                         *)
(* A rejected write has no effect on the open map.  It may have reached    *)
(* the medium all the same; a reopened map may hold it, until a crash      *)
(* takes it back or a later answered write leaves it out.  A write that    *)
(* waits on a map whose medium was closed is answered without effect.      *)
(***************************************************************************)
EXTENDS Naturals

CONSTANTS Client, Key, MaxValue

VARIABLES
    map,     \* what callers read
    medium,  \* what a reopened map would hold
    settled, \* the map as the last answered write left it
    call,    \* per client: the write it waits for
    answer,  \* what the last step answered, if anything
    detached \* clients that wait on a map whose medium was closed

vars == <<map, medium, settled, call, answer, detached>>

Absent == 0
Op == [do : {"put"}, key : Key, value : 1..MaxValue]
      \cup [do : {"delete", "update"}, key : Key, value : {Absent}]
NoCall == [do |-> "none"]

(* The caller's transform of a current value. *)
Transformed(value) == (value % MaxValue) + 1

Possible(op, m) == op.do # "put" => m[op.key] # Absent

After(op, m) ==
    [m EXCEPT ![op.key] =
        CASE op.do = "put" -> op.value
          [] op.do = "delete" -> Absent
          [] op.do = "update" -> Transformed(@)]

Init ==
    /\ map = [k \in Key |-> Absent] /\ medium = map /\ settled = map
    /\ call = [c \in Client |-> NoCall]
    /\ answer = "none"
    /\ detached = {}

Ask(c) ==
    /\ call[c] = NoCall
    /\ \E op \in Op : call' = [call EXCEPT ![c] = op]
    /\ answer' = "none"
    /\ UNCHANGED <<map, medium, settled>>

Answered(c, outcome) ==
    /\ call[c] # NoCall
    /\ call' = [call EXCEPT ![c] = NoCall]
    /\ answer' = outcome

(* The effect on the map is the answer's; the medium may be ahead. *)
Write(c) ==
    /\ Answered(c, "done")
    /\ Possible(call[c], map)
    /\ map' = After(call[c], map)
    /\ medium' = map' /\ settled' = map'

Missing(c) ==
    /\ Answered(c, "missing")
    /\ Possible(call[c], map) => c \in detached
    /\ UNCHANGED <<map, medium, settled>>

Reach(c) ==
    /\ call[c] # NoCall /\ Possible(call[c], map)
    /\ medium' = After(call[c], map)
    /\ UNCHANGED <<map, settled, call>>
    /\ answer' = "none"

(* The map may be closed at that moment: what counts then is the medium. *)
Reject(c) ==
    /\ Answered(c, "rejected")
    /\ map' \in {map, medium}
    /\ UNCHANGED <<medium, settled>>

Reopen ==
    /\ map' = medium
    /\ UNCHANGED <<medium, settled, call>>
    /\ answer' = "none"

Restart ==
    /\ map' \in {settled, medium}
    /\ medium' = map' /\ settled' = map'
    /\ call' = [c \in Client |-> NoCall]
    /\ answer' = "none"

Change ==
    \/ \E c \in Client : Ask(c) \/ Write(c) \/ Missing(c) \/ Reach(c) \/ Reject(c)
    \/ Reopen \/ Restart
    \/ UNCHANGED <<map, medium, settled, call>> /\ answer' = "none"

Next == Change /\ detached' \in SUBSET Client

Spec == Init /\ [][Next]_vars
=============================================================================
