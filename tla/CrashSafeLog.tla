---------------------------- MODULE CrashSafeLog ----------------------------
(***************************************************************************)
(* What a session store promises across crashes, without saying how bytes  *)
(* reach the disk: an acknowledged event stays; what a restart finds is    *)
(* the acknowledged events followed by some of those that were waiting,    *)
(* oldest first, closed off by one synthetic end when the last turn was    *)
(* left open.                                                              *)
(*                                                                         *)
(* A medium is unsound, and promises nothing, once a batch that it neither *)
(* took nor gave back was built upon, or once it lost what a restart had   *)
(* taken for stored.                                                       *)
(***************************************************************************)
EXTENDS Naturals, Sequences

CONSTANT Event

VARIABLES
    log,        \* acknowledged events
    waiting,    \* accepted events that are not acknowledged yet
    sound       \* no remains were built upon, and nothing trusted was lost

vars == <<log, waiting, sound>>

Init == log = <<>> /\ waiting = <<>> /\ sound = TRUE

Accept ==
    /\ \E e \in Event : waiting' = Append(waiting, e)
    /\ UNCHANGED <<log, sound>>

(* A batch is all or nothing, and always the oldest events. *)
Acknowledge ==
    /\ \E n \in 1..Len(waiting) :
        /\ log' = log \o SubSeq(waiting, 1, n)
        /\ waiting' = SubSeq(waiting, n + 1, Len(waiting))
    /\ UNCHANGED sound

(* The remains of a batch that failed are built upon, or a crash takes      *)
(* what a restart trusted. *)
Spoil ==
    /\ sound' = FALSE
    /\ UNCHANGED <<log, waiting>>

Closing == {<<>>} \cup {<<e>> : e \in Event}

Recover ==
    /\ sound
    /\ \E n \in 0..Len(waiting), closing \in Closing :
        log' = log \o SubSeq(waiting, 1, n) \o closing
    /\ waiting' = <<>>
    /\ sound' \in BOOLEAN

(* Whatever happens next. *)
Unsound == ~sound

Next == Accept \/ Acknowledge \/ Spoil \/ Recover \/ Unsound

Spec == Init /\ [][Next]_vars
=============================================================================
