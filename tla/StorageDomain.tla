--------------------------- MODULE StorageDomain ----------------------------
(***************************************************************************)
(* One storage domain over the JSON backend: the facility's open and close *)
(* of the domain's name (storage-domain/src/index.ts), the domain's memory *)
(* and write chain (domain.ts), and the unit that publishes the whole file *)
(* (storage-json/src: index.ts, unit.ts, atomic.ts).                       *)
(*                                                                         *)
(* Each open makes a handle.  The facility and the backend are plugins of  *)
(* their own: either may be disposed and loaded again while handles made   *)
(* before are still held.  An action runs to its next await.               *)
(***************************************************************************)
EXTENDS Naturals, Sequences, FiniteSets

CONSTANTS
    Handle,   \* opened domains
    Client,   \* callers, each with one write outstanding
    Key,      \* records; the global value is a record that is only put
    MaxValue, \* bound: distinct values
    MaxBusy   \* bound: handles not closed and writes not answered, together

ASSUME BoundsAssumption == MaxValue \in Nat \ {0} /\ MaxBusy \in Nat
ASSUME ClientAssumption == IsFiniteSet(Client)

VARIABLES
    facility, \* "mounted", "closing" (closeAll), "unmounted"
    reserved, \* the mounted facility reserves the domain's name
    orphans,  \* handles of a facility that was unmounted
    awaited,  \* handles the facility's closeAll awaits
    backend,  \* "open", "closing", "closed"
    opening,  \* this.opening of the backend
    slots,    \* this.open of the backend
    phase,    \* per handle: how far it was opened or closed
    unit,     \* per handle: the unit is "none", "open", "closed"
    state,    \* per handle: the unit's state
    memory,   \* per handle: the domain's records
    chain,    \* per handle: the write chain, its first job running
    call,     \* per client: the write, where it stands, the record it replaced
    answer,   \* what the last step answered, if it answered a write
    file,     \* what a read of the unit's file returns
    stable    \* what a crash leaves of it at least

plugins == <<facility, reserved, orphans, awaited, backend, opening, slots>>
handles == <<phase, unit, state, memory, chain>>
medium == <<file, stable>>
vars == <<facility, reserved, orphans, awaited, backend, opening, slots, phase, unit,
          state, memory, chain, call, answer, file, stable>>

Absent == 0
Records == [Key -> 0..MaxValue]
Empty == [k \in Key |-> Absent]
Op == [do : {"put"}, key : Key, value : 1..MaxValue]
      \cup [do : {"delete", "update"}, key : Key, value : {Absent}]
NoCall == [do |-> "none"]
Free == [op |-> NoCall, at |-> "free", was |-> Absent]

TypeOK ==
    /\ facility \in {"mounted", "closing", "unmounted"} /\ reserved \in BOOLEAN
    /\ orphans \cup awaited \cup opening \cup slots \subseteq Handle
    /\ backend \in {"open", "closing", "closed"}
    /\ phase \in [Handle -> {"closed", "opening", "loading", "open", "draining", "releasing"}]
    /\ unit \in [Handle -> {"none", "open", "closed"}]
    /\ state \in [Handle -> Records] /\ memory \in [Handle -> Records]
    /\ file \in Records /\ stable \in Records
    /\ chain \in [Handle -> Seq(Client)]
    /\ \A h \in Handle : Len(chain[h]) <= Cardinality(Client)
    /\ call \in [Client -> {Free} \cup [op : Op, at : {"queued", "publishing", "renamed"},
                                        was : 0..MaxValue]]
    /\ answer \in {"none", "done", "missing", "rejected"}

Quiet == answer' = "none"

Fresh ==
    /\ facility' = "mounted" /\ reserved' = FALSE /\ orphans' = {} /\ awaited' = {}
    /\ backend' = "open" /\ opening' = {} /\ slots' = {}
    /\ phase' = [h \in Handle |-> "closed"] /\ unit' = [h \in Handle |-> "none"]
    /\ state' = [h \in Handle |-> Empty] /\ memory' = state'
    /\ chain' = [h \in Handle |-> <<>>]
    /\ call' = [c \in Client |-> Free] /\ Quiet

Init ==
    /\ facility = "mounted" /\ reserved = FALSE /\ orphans = {} /\ awaited = {}
    /\ backend = "open" /\ opening = {} /\ slots = {}
    /\ phase = [h \in Handle |-> "closed"] /\ unit = [h \in Handle |-> "none"]
    /\ state = [h \in Handle |-> Empty] /\ memory = state
    /\ chain = [h \in Handle |-> <<>>]
    /\ call = [c \in Client |-> Free] /\ answer = "none"
    /\ file = Empty /\ stable = Empty

-----------------------------------------------------------------------------
(* DomainFacility.open *)

Room == Cardinality({h \in Handle : phase[h] # "closed"})
        + Cardinality({c \in Client : call[c] # Free}) < MaxBusy

(* An open of a reserved name, of a unit that has a slot, or on a closed   *)
(* backend fails and leaves everything as it was.                          *)
OpenBeside(h) == \* a variant: an open does not look at the backend's slots
    /\ Room
    /\ phase[h] = "closed" /\ facility # "unmounted" /\ ~reserved
    /\ backend = "open"
    /\ reserved' = TRUE
    /\ opening' = opening \cup {h}
    /\ phase' = [phase EXCEPT ![h] = "opening"]
    /\ UNCHANGED <<facility, orphans, awaited, backend, slots, unit, state, memory, chain, call, medium>>
    /\ Quiet

Open(h) ==
    /\ Room
    /\ phase[h] = "closed" /\ facility # "unmounted" /\ ~reserved
    /\ backend = "open" /\ opening = {} /\ slots = {}
    /\ reserved' = TRUE
    /\ opening' = {h}
    /\ phase' = [phase EXCEPT ![h] = "opening"]
    /\ UNCHANGED <<facility, orphans, awaited, backend, slots, unit, state, memory, chain, call, medium>>
    /\ Quiet

(* The name belongs to the facility the handle was opened by. *)
FreeName(h) ==
    /\ reserved' = (reserved /\ h \in orphans)
    /\ orphans' = orphans \ {h}

(* A handle that is gone leaves nothing to read. *)
Forget(h) ==
    /\ phase' = [phase EXCEPT ![h] = "closed"]
    /\ unit' = [unit EXCEPT ![h] = "none"]
    /\ state' = [state EXCEPT ![h] = Empty]
    /\ memory' = [memory EXCEPT ![h] = Empty]
    /\ UNCHANGED chain

OpenFails(h) == FreeName(h) /\ Forget(h)

(* openUnit: read the file; a backend that closed meanwhile keeps no unit. *)
openUnit(h) ==
    /\ phase[h] = "opening"
    /\ opening' = opening \ {h}
    /\ \/ /\ backend = "open"
          /\ slots' = slots \cup {h}
          /\ phase' = [phase EXCEPT ![h] = "loading"]
          /\ unit' = [unit EXCEPT ![h] = "open"]
          /\ state' = [state EXCEPT ![h] = file]
          /\ UNCHANGED <<reserved, orphans, memory, chain>>
       \/ OpenFails(h) /\ UNCHANGED slots
    /\ UNCHANGED <<facility, awaited, backend, call, medium>>
    /\ Quiet

(* loadAll and the construction of the domain; a closed unit, or a record  *)
(* that does not match its schema, fails the open.                         *)
Load(h) ==
    /\ phase[h] = "loading"
    /\ \/ /\ unit[h] = "open"
          /\ memory' = [memory EXCEPT ![h] = state[h]]
          /\ phase' = [phase EXCEPT ![h] = "open"]
          /\ UNCHANGED <<reserved, orphans, slots, unit, state, chain>>
       \/ OpenFails(h) /\ slots' = slots \ {h}
    /\ UNCHANGED <<facility, awaited, backend, opening, call, medium>>
    /\ Quiet

-----------------------------------------------------------------------------
(* Writes. *)

(* A write on a closing domain is rejected at once. *)
enqueue(c, h, op) ==
    /\ Room
    /\ call[c] = Free /\ phase[h] = "open"
    /\ call' = [call EXCEPT ![c] = [op |-> op, at |-> "queued", was |-> Absent]]
    /\ Quiet
    /\ chain' = [chain EXCEPT ![h] = Append(@, c)]
    /\ UNCHANGED <<plugins, phase, unit, state, memory, medium>>

(* The caller's transform of a current record. *)
Transformed(value) == (value % MaxValue) + 1

After(op, records) ==
    [records EXCEPT ![op.key] =
        CASE op.do = "put" -> op.value
          [] op.do = "delete" -> Absent
          [] op.do = "update" -> Transformed(@)]

Running(c, h, at) == chain[h] # <<>> /\ Head(chain[h]) = c /\ call[c].at = at

Finish(c, h, outcome) ==
    /\ chain' = [chain EXCEPT ![h] = Tail(@)]
    /\ call' = [call EXCEPT ![c] = Free]
    /\ answer' = outcome

(* A job at its slot of the chain: decide existence, compute the record,   *)
(* change the unit's state and start to publish the file.                  *)
Start(c, h) ==
    /\ Running(c, h, "queued")
    /\ LET op == call[c].op
           missing == op.do # "put" /\ memory[h][op.key] = Absent
       IN  \/ /\ missing
              /\ Finish(c, h, "missing")
              /\ UNCHANGED state
           \/ /\ ~missing /\ unit[h] # "open"
              /\ Finish(c, h, "rejected")
              /\ UNCHANGED state
           \/ /\ ~missing /\ unit[h] = "open"
              /\ state' = [state EXCEPT ![h] = After(op, state[h])]
              /\ call' = [call EXCEPT ![c].at = "publishing", ![c].was = state[h][op.key]]
              /\ Quiet
              /\ UNCHANGED chain
    /\ UNCHANGED <<plugins, phase, unit, memory, medium>>

(* publish and writeAtomic: a synced temporary file takes the file's place. *)
Rename(c, h) ==
    /\ Running(c, h, "publishing")
    /\ file' = state[h]
    /\ call' = [call EXCEPT ![c].at = "renamed"]
    /\ UNCHANGED <<plugins, handles, stable>>
    /\ Quiet

(* The directory is synced; then memory takes the write. *)
SyncDirectory(c, h) ==
    /\ Running(c, h, "renamed")
    /\ stable' = file
    /\ memory' = [memory EXCEPT ![h] = After(call[c].op, @)]
    /\ Finish(c, h, "done")
    /\ UNCHANGED <<plugins, phase, unit, state, file>>

(* Either step fails: the unit's state is rolled back and the job rejects. *)
PublishFailsForward(c, h) == \* a variant: the unit keeps the rejected write
    /\ Running(c, h, "publishing") \/ Running(c, h, "renamed")
    /\ Finish(c, h, "rejected")
    /\ UNCHANGED <<plugins, phase, unit, state, memory, medium>>

PublishFails(c, h) ==
    /\ Running(c, h, "publishing") \/ Running(c, h, "renamed")
    /\ state' = [state EXCEPT ![h][call[c].op.key] = call[c].was]
    /\ Finish(c, h, "rejected")
    /\ UNCHANGED <<plugins, phase, unit, memory, medium>>

Publishing(h) == chain[h] # <<>> /\ call[Head(chain[h])].at \in {"publishing", "renamed"}

-----------------------------------------------------------------------------
(* Closing. *)

close(h) ==
    /\ phase[h] = "open"
    /\ phase' = [phase EXCEPT ![h] = "draining"]
    /\ UNCHANGED <<plugins, unit, state, memory, chain, call, medium>>
    /\ Quiet

(* runClose, past the drain: the unit is closed, then its slot freed. *)
MayDrain(h) == phase[h] = "draining" /\ chain[h] = <<>>
Drained(h) ==
    /\ MayDrain(h)
    /\ phase' = [phase EXCEPT ![h] = "releasing"]
    /\ unit' = [unit EXCEPT ![h] = "closed"]
    /\ UNCHANGED <<plugins, state, memory, chain, call, medium>>
    /\ Quiet

Released(h) ==
    /\ phase[h] = "releasing"
    /\ slots' = slots \ {h}
    /\ awaited' = awaited \ {h}
    /\ FreeName(h) /\ Forget(h)
    /\ UNCHANGED <<facility, backend, opening, call, medium>>
    /\ Quiet

(* closeAll sees the domains that finished opening. *)
closeAll ==
    /\ facility = "mounted"
    /\ facility' = "closing"
    /\ awaited' = {h \in Handle \ orphans : phase[h] \in {"open", "draining", "releasing"}}
    /\ phase' = [h \in Handle |-> IF h \in awaited' /\ phase[h] = "open" THEN "draining" ELSE phase[h]]
    /\ UNCHANGED <<reserved, orphans, backend, opening, slots, unit, state, memory, chain, call, medium>>
    /\ Quiet

MayUnmount == facility = "closing" /\ awaited = {}
Unmount ==
    /\ MayUnmount
    /\ facility' = "unmounted"
    /\ UNCHANGED <<reserved, orphans, awaited, backend, opening, slots, handles, call, medium>>
    /\ Quiet

(* The plugin is loaded again: a new facility, which knows no handle. *)
Mount ==
    /\ facility = "unmounted"
    /\ facility' = "mounted" /\ reserved' = FALSE
    /\ orphans' = {h \in Handle : phase[h] # "closed"}
    /\ UNCHANGED <<awaited, backend, opening, slots, handles, call, medium>>
    /\ Quiet

(* JsonStorageBackend.close *)
CloseBackend ==
    /\ backend = "open"
    /\ backend' = "closing"
    /\ UNCHANGED <<facility, reserved, orphans, awaited, opening, slots, handles, call, medium>>
    /\ Quiet

MayCloseUnit(h) == backend = "closing" /\ opening = {} /\ h \in slots /\ unit[h] = "open"
CloseUnit(h) ==
    /\ MayCloseUnit(h)
    /\ unit' = [unit EXCEPT ![h] = "closed"]
    /\ UNCHANGED <<plugins, phase, state, memory, chain, call, medium>>
    /\ Quiet

(* unit.close drains the publish in flight before it frees the slot. *)
MayFreeSlot(h) == backend = "closing" /\ h \in slots /\ unit[h] = "closed" /\ ~Publishing(h)
FreeSlot(h) ==
    /\ MayFreeSlot(h)
    /\ slots' = slots \ {h}
    /\ UNCHANGED <<facility, reserved, orphans, awaited, backend, opening, handles, call, medium>>
    /\ Quiet

MayEndClose == backend = "closing" /\ opening = {} /\ slots = {}
BackendClosed ==
    /\ MayEndClose
    /\ backend' = "closed"
    /\ UNCHANGED <<facility, reserved, orphans, awaited, opening, slots, handles, call, medium>>
    /\ Quiet

RegisterBackend ==
    /\ backend = "closed"
    /\ backend' = "open"
    /\ UNCHANGED <<facility, reserved, orphans, awaited, opening, slots, handles, call, medium>>
    /\ Quiet

(* The process dies; an unsynced rename may be lost with it. *)
Crash ==
    /\ file' \in {file, stable} /\ stable' = file'
    /\ Fresh

-----------------------------------------------------------------------------
HandleStep(h) == openUnit(h) \/ Load(h) \/ Drained(h) \/ Released(h)
Job(c, h) == Start(c, h) \/ Rename(c, h) \/ SyncDirectory(c, h) \/ PublishFails(c, h)
CloseUnits == \E h \in Handle : CloseUnit(h) \/ FreeSlot(h)

Next ==
    \/ \E h \in Handle : Open(h) \/ HandleStep(h) \/ close(h)
    \/ \E c \in Client, h \in Handle :
        (\E op \in Op : enqueue(c, h, op)) \/ Job(c, h)
    \/ closeAll \/ Mount \/ CloseBackend \/ RegisterBackend
    \/ Unmount \/ BackendClosed \/ CloseUnits
    \/ Crash

Spec == Init /\ [][Next]_vars

-----------------------------------------------------------------------------
(* Properties *)

(* A closed backend keeps nothing it could still publish. *)
Live(h) == phase[h] \in {"open", "draining", "releasing"} /\ (unit[h] = "open" \/ Publishing(h))

(* The domain implements the atomic map: queued updates of one record each *)
(* see the one before, a rejected write never shows in memory nor rides    *)
(* along with the next publish, an answered one survives whatever happens  *)
(* to the process, the facility or the backend.                            *)
Promise == INSTANCE AtomicMap WITH
    map <- IF \E h \in Handle : Live(h) THEN memory[CHOOSE h \in Handle : Live(h)] ELSE file,
    medium <- file,
    settled <- stable,
    call <- [c \in Client |-> call[c].op],
    detached <- {c \in Client : \E h \in Handle : ~Live(h) /\ \E i \in DOMAIN chain[h] : chain[h][i] = c}
Refinement == Promise!Spec

(* The file has one writer, across failed opens, closes that overlap opens *)
(* and reloaded plugins; a closed backend left none; and a name that is    *)
(* free has no domain that could answer for it.                            *)
Writer(h) == unit[h] = "open" \/ Publishing(h)
OneWriter ==
    /\ \A g, h \in Handle : Writer(g) /\ Writer(h) => g = h
    /\ backend = "closed" => \A h \in Handle : ~Writer(h)
    /\ facility # "unmounted" /\ ~reserved => \A h \in Handle \ orphans : phase[h] = "closed"

(* When a step of the runtime is possible: past its guard no action asks   *)
(* for more, each covers what it finds.                                    *)
HandleMay(h) == phase[h] \in {"opening", "loading", "releasing"} \/ MayDrain(h)
JobMay(c, h) == \E at \in {"queued", "publishing", "renamed"} : Running(c, h, at)
UnitsMay == \E h \in Handle : MayCloseUnit(h) \/ MayFreeSlot(h)

(* While a write is not answered, an open is under way or a close is not   *)
(* over, some step of the runtime is possible.  A caller, an open or a     *)
(* close has finitely many of them, so each comes to its end.              *)
Outstanding ==
    \/ \E c \in Client : call[c] # Free
    \/ \E h \in Handle : phase[h] \notin {"closed", "open"}
    \/ facility = "closing" \/ backend = "closing"
NeverStuck ==
    Outstanding => \/ \E h \in Handle : HandleMay(h) \/ \E c \in Client : JobMay(c, h)
                   \/ MayUnmount \/ UnitsMay \/ MayEndClose

(* The file has one writer, nothing waits for ever, and every variable has *)
(* its type.                                                               *)
Inv == TypeOK /\ OneWriter /\ NeverStuck

(* What domain.ts:3-7 says: a rejected write leaves memory and the medium  *)
(* equal.                                                                  *)
NoDivergence == \A h \in Handle : Live(h) /\ chain[h] = <<>> => memory[h] = file
=============================================================================
