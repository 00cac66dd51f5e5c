------------------------- MODULE SessionCoordinator -------------------------
(***************************************************************************)
(* The persistence coordinator for one session id                          *)
(* (session-persistence/src/coordinator.ts) with its pool of unpublished   *)
(* preparations (preparations.ts), between the storage backend and the     *)
(* live Sessions of that id.  Everything that touches the stored log is    *)
(* serialized on a chain; whoever waits for a link of the chain, for a     *)
(* shared read or for a reservation goes on in a promise job of its own,   *)
(* and must find out what has changed meanwhile.                           *)
(*                                                                         *)
(* As in WriteBehind, promise jobs run in any order among themselves and   *)
(* a backend answer is a task, which waits until no job is left (Quiet).   *)
(* Several processes may share the backend: Foreign is one of them.        *)
(***************************************************************************)
EXTENDS Naturals, Sequences, FiniteSets, SequencesExt

CONSTANTS
    Caller,   \* concurrent calls of prepare and inspect
    Life,     \* Session objects that are published under this id
    Draft,    \* identities for the preparations in the pool
    None,     \* undefined
    MaxLog,   \* bound: events of one Session
    MaxMishap \* bound: crashes, reloads, I/O failures, evictions, foreign writes

ASSUME BoundsAssumption == MaxLog \in Nat /\ MaxMishap \in Nat
ASSUME NoneAssumption == None \notin Caller \cup Life \cup Draft
ASSUME MarkerAssumption ==
    /\ "untracked" \notin Life \cup {None}
    /\ "closer" \notin Life \cup Draft

VARIABLES
    log,      \* the events stored under the id
    torn,     \* a partial event follows them
    state,    \* this.states.get(id)
    entry,    \* this.preparations' entry for the id
    call,     \* where each caller is
    chain,    \* the operations serialized on the id; the head is running
    step,     \* how far the head has come
    ses,      \* each published Session and its write controller
    retiring, \* this.retirements.get(id)
    mishaps   \* those that have happened

disk == <<log, torn>>
vars == <<log, torn, state, entry, call, chain, step, ses, retiring, mishaps>>

(* An event is told apart by who wrote it.  A turn is open between its     *)
(* "start" and its "end"; a "mark" is the end-seed marker, a "note" any    *)
(* event that opens and closes nothing.                                    *)
Event == [by : Life \cup Draft \cup {"earlier", "closer", "foreign"},
          kind : {"start", "end", "mark", "note"}]

IsOpen(events) ==
    \E i \in 1..Len(events) :
        /\ events[i].kind = "start"
        /\ \A j \in i + 1 .. Len(events) : events[j].kind # "end"

(* The next event of a Session that takes its turns one after the other.   *)
NextOf(events, who) ==
    [by |-> who, kind |-> IF IsOpen(events) THEN "end" ELSE "start"]

(* interruptedTurnClosers: what closes an open tail turn.                  *)
Closers(events) ==
    IF IsOpen(events) THEN <<[by |-> "closer", kind |-> "end"]>> ELSE <<>>

(* The Session that restores a log: its seed, and the marker that says     *)
(* where it ends unless the seed ends with one.                            *)
Restored(events, d) ==
    IF events # <<>> /\ Last(events).kind = "mark"
    THEN events
    ELSE Append(events, [by |-> d, kind |-> "mark"])

(* A PreparedSessionSource; <<log, torn>> stands for its revision.         *)
Source == [log : Seq(Event), torn : BOOLEAN, session : Seq(Event)]

SourceOf(d) ==
    [log |-> log, torn |-> torn, session |-> Restored(log \o Closers(log), d)]

(* The source of a log that is not there or cannot be prepared.            *)
Missing == [log |-> <<>>, torn |-> FALSE, session |-> <<>>]

IsCurrent(s) == <<s.log, s.torn>> = disk

State == [cursor : Nat, materialized : BOOLEAN, owner : Life \cup {None}]
NoState == [cursor |-> 0, materialized |-> FALSE, owner |-> "untracked"]

Entry == [id : Draft, phase : {"loading", "ready", "committing", "reserved"},
          source : Source \cup {None}]
NoEntry == [id |-> None, phase |-> "absent", source |-> None]

Idle == [op |-> "none", at |-> "idle", draft |-> None, source |-> None,
         awaits |-> None, aborted |-> FALSE, outcome |-> "none"]

Place == {"idle", "retirement", "loading", "committing", "committed",
          "checking", "checked", "holding"}

Call == [op : {"none", "prepare", "inspect"}, at : Place,
         draft : Draft \cup {None}, source : Source \cup {None},
         awaits : Life \cup {None}, aborted : BOOLEAN,
         outcome : {"none", "ok", "stale", "error"}]

(* Operations of the chain: "load" a draft; "commit" or "check" for a      *)
(* caller; initialize a Session ("created", "suffix"), write a "batch" of  *)
(* it or "forget" it.  upTo: the events the operation has in hand.         *)
Op == [op : {"load", "commit", "check", "created", "suffix", "batch", "forget"},
       who : Caller \cup Draft \cup Life, upTo : Nat]

Step == {"queued", "revision", "repair", "match", "probe", "recheck",
         "truncate", "append"}

(* "draining": its final flush waits for a write of its own.               *)
Retirement == {"none", "flushing", "draining", "forgetting", "done", "failed"}

Unborn == [at |-> "unborn", events |-> <<>>, init |-> "none", next |-> 1,
           writing |-> FALSE, paused |-> FALSE, retire |-> "none"]

Session == [at : {"unborn", "live", "disposed", "lost"}, events : Seq(Event),
            init : {"none", "pending", "ok", "failed"}, next : Nat,
            writing : BOOLEAN, paused : BOOLEAN, retire : Retirement]

TypeOK ==
    /\ log \in Seq(Event) /\ torn \in BOOLEAN
    /\ state \in State \cup {NoState}
    /\ entry \in Entry \cup {NoEntry}
    /\ call \in [Caller -> Call]
    /\ chain \in Seq(Op) /\ step \in Step
    /\ ses \in [Life -> Session]
    /\ \A l \in Life : Len(ses[l].events) <= MaxLog
    /\ retiring \in Life \cup {None}
    /\ mishaps \in 0..MaxMishap

(* What earlier processes may have left in the store.                      *)
Stored == {<<>>, <<[by |-> "earlier", kind |-> "start"]>>}

Init ==
    /\ log \in Stored
    /\ torn \in {FALSE, log # <<>>}
    /\ state = NoState
    /\ entry = NoEntry
    /\ call = [c \in Caller |-> Idle]
    /\ chain = <<>>
    /\ step = "queued"
    /\ ses = [l \in Life |-> Unborn]
    /\ retiring = None
    /\ mishaps = 0

-----------------------------------------------------------------------------
Live == {l \in Life : ses[l].at = "live"}

(* Life is only a supply of names: the next one that is free.              *)
Unused == {l \in Life : ses[l].at = "unborn"}

(* The controller's pending events, and its hasWork.                       *)
Pending(l) == ses[l].next <= Len(ses[l].events)
HasWork(l) == ses[l].writing \/ Pending(l)

Serialized(op, who, upTo) == [op |-> op, who |-> who, upTo |-> upTo]
Serialize(op, who, upTo) == chain' = Append(chain, Serialized(op, who, upTo))

Running(op, at) == chain # <<>> /\ Head(chain).op = op /\ step = at
Who == Head(chain).who
Pop == chain' = Tail(chain) /\ step' = "queued"
Proceed(to) == step' = to /\ UNCHANGED chain

(* A caller has a promise job to run.  A waiter for the reservation is     *)
(* resumed when the entry is ready or gone (the variant misses the         *)
(* latter).                                                                *)
Retired(l) == l # None => ses[l].retire \in {"done", "failed"}
Loaded(c) == call[c].source # None
HeldUpAnyway(c) == call[c].op = "prepare" /\ entry.phase # "ready"

HeldUp(c) ==
    /\ call[c].op = "prepare"
    /\ call[c].source # Missing
    /\ entry.id = call[c].draft
    /\ entry.phase # "ready"
HasJob(c) ==
    \/ (call[c].at = "retirement" /\ Retired(call[c].awaits))
    \/ (call[c].at = "loading" /\ Loaded(c) /\ ~HeldUp(c))
    \/ call[c].at \in {"committed", "checked"}

(* A retiring Session has one (the variant expects initialization to       *)
(* succeed).                                                               *)
CanDrainOnceInitialized(l) ==
    ses[l].retire = "flushing" /\ ses[l].init = "ok" /\ ~ses[l].writing

CanDrain(l) ==
    /\ ses[l].retire = "flushing"
    /\ ses[l].init = "failed" \/ (ses[l].init = "ok" /\ ~ses[l].writing)

(* The head of the chain has yet to run up to its first await.             *)
Unstarted ==
    /\ chain # <<>>
    /\ step = "queued"
    /\ Head(chain).op \notin {"load", "check"}

Quiet ==
    /\ ~Unstarted
    /\ \A c \in Caller : ~HasJob(c)
    /\ \A l \in Life : ~CanDrain(l)

Mishap == mishaps < MaxMishap /\ mishaps' = mishaps + 1

-----------------------------------------------------------------------------
(* SessionPreparations.                                                    *)

(* remove(entry), when d still is the entry of the id.                     *)
Removed(d) == IF entry.id = d THEN NoEntry ELSE entry

(* makeReady(entry) likewise.                                              *)
MadeReady(d) == IF entry.id = d THEN [entry EXCEPT !.phase = "ready"] ELSE entry

Exclusive == entry.phase \in {"committing", "reserved"}

(* An entry keeps other Sessions of its id from being published, whatever  *)
(* its phase (the variant: while it is reserved).                          *)
VetoedWhileReserved == entry.phase = "reserved"
Vetoed == entry # NoEntry

(* entryFor: share the entry, or start a read of the stored log.  Draft,   *)
(* too, is only a supply of names.                                         *)
FreeDraft == Draft \ ({call[c].draft : c \in Caller} \cup {chain[i].who : i \in 1..Len(chain)})

EntryFor(c) ==
    LET d == IF entry = NoEntry THEN CHOOSE x \in FreeDraft : TRUE ELSE entry.id
    IN  /\ entry = NoEntry => FreeDraft # {}
        /\ call' = [call EXCEPT ![c].at = "loading", ![c].draft = d,
                                ![c].awaits = None, ![c].source = entry.source]
        /\ IF entry = NoEntry
           THEN /\ entry' = [id |-> d, phase |-> "loading", source |-> None]
                /\ Serialize("load", d, 0)
           ELSE UNCHANGED <<entry, chain>>

Leave(c) == call' = [call EXCEPT ![c] = Idle]

(* Another turn of the caller's for (;;) loop.                             *)
Again(c) ==
    call' = [call EXCEPT ![c] = [Idle EXCEPT !.op = call[c].op, !.at = "retirement",
                                             !.awaits = retiring]]

(* prepare, inspect: look up the retirement to wait for.                   *)
Begin(c, op) ==
    /\ call[c].at = "idle"
    /\ call' = [call EXCEPT ![c] = [Idle EXCEPT !.op = op, !.at = "retirement",
                                                !.awaits = retiring]]
    /\ UNCHANGED <<log, torn, state, entry, chain, step, ses, retiring, mishaps>>

(* The retirement is over.  A live Session answers an inspection and turns *)
(* a preparation away; a failed retirement fails both.                     *)
Enter(c) ==
    /\ call[c].at = "retirement"
    /\ Retired(call[c].awaits)
    /\ IF Live # {} \/ \E l \in Life : call[c].awaits = l /\ ses[l].retire = "failed"
       THEN Leave(c) /\ UNCHANGED <<entry, chain>>
       ELSE EntryFor(c)
    /\ UNCHANGED <<log, torn, state, step, ses, retiring, mishaps>>

(* The answer of a read, for everyone who shared it.                       *)
Answered(d, source) ==
    [c \in Caller |-> IF call[c].at = "loading" /\ call[c].draft = d
                      THEN [call[c] EXCEPT !.source = source]
                      ELSE call[c]]

(* prepareCore.  Building a Session under the id of a live one throws.     *)
Load ==
    /\ Quiet
    /\ Running("load", "queued")
    /\ IF log = <<>> \/ Live # {}
       THEN /\ call' = Answered(Who, Missing)
            /\ entry' = Removed(Who)
       ELSE /\ call' = Answered(Who, SourceOf(Who))
            /\ entry' = IF entry.id = Who
                        THEN [entry EXCEPT !.phase = "ready", !.source = SourceOf(Who)]
                        ELSE entry
    /\ Pop
    /\ UNCHANGED <<log, torn, state, ses, retiring, mishaps>>

(* The log cannot be read: nobody who shared the read gets a source.       *)
LoadFails ==
    /\ Quiet
    /\ Running("load", "queued")
    /\ Mishap
    /\ call' = Answered(Who, Missing)
    /\ entry' = Removed(Who)
    /\ Pop
    /\ UNCHANGED <<log, torn, state, ses, retiring>>

(* reserve, once the read is done: wait for whoever holds the entry, start *)
(* over when it is gone, or take it and commit it.                         *)
Reserve(c) ==
    /\ call[c].at = "loading" /\ call[c].op = "prepare"
    /\ Loaded(c) /\ ~HeldUp(c)
    /\ ~Unstarted
    /\ CASE call[c].source = Missing ->
              Leave(c) /\ UNCHANGED <<entry, chain>>
         [] call[c].source # Missing /\ entry.id # call[c].draft ->
              Again(c) /\ UNCHANGED <<entry, chain>>
         [] OTHER ->
              /\ entry' = [entry EXCEPT !.phase = "committing"]
              /\ call' = [call EXCEPT ![c].at = "committing",
                                      ![c].source = entry.source]
              /\ Serialize("commit", c, 0)
    /\ UNCHANGED <<log, torn, state, step, ses, retiring, mishaps>>

(* The state of the id belongs to a Session, be it a disposed one (the     *)
(* variant: a live one).                                                   *)
OwnedWhileLive == state # NoState /\ state.owner \in Live
Owned == state # NoState /\ state.owner # None

(* commitPrepared up to its first await.                                   *)
CommitStarts ==
    /\ Running("commit", "queued")
    /\ IF Owned
       THEN /\ call' = [call EXCEPT ![Who].at = "committed", ![Who].outcome = "error"]
            /\ Pop
       ELSE Proceed("revision") /\ UNCHANGED call
    /\ UNCHANGED <<log, torn, state, entry, ses, retiring, mishaps>>

CommitEnds(outcome) ==
    /\ call' = [call EXCEPT ![Who].at = "committed", ![Who].outcome = outcome]
    /\ Pop

(* The revision is known: give up a stale source, repair the log, or adopt *)
(* the length of the log as the cursor.                                    *)
CommitChecks ==
    /\ Quiet
    /\ Running("commit", "revision")
    /\ LET s == call[Who].source IN
        CASE ~IsCurrent(s) -> CommitEnds("stale") /\ UNCHANGED state
          [] IsCurrent(s) /\ (s.torn \/ IsOpen(s.log)) ->
               Proceed("repair") /\ UNCHANGED <<state, call>>
          [] OTHER ->
               /\ CommitEnds("ok")
               /\ state' = [cursor |-> Len(s.log), materialized |-> TRUE, owner |-> None]
    /\ UNCHANGED <<log, torn, entry, ses, retiring, mishaps>>

(* commitRepair truncates, then appends the closers: two durable steps.    *)
(* Its caller reads the repaired log anew.                                 *)
RepairTruncates ==
    /\ Quiet
    /\ Running("commit", "repair")
    /\ torn
    /\ torn' = FALSE
    /\ IF IsOpen(log) THEN UNCHANGED <<chain, step, call>> ELSE CommitEnds("stale")
    /\ UNCHANGED <<log, state, entry, ses, retiring, mishaps>>

RepairCloses ==
    /\ Quiet
    /\ Running("commit", "repair")
    /\ ~torn
    /\ log' = log \o Closers(log)
    /\ CommitEnds("stale")
    /\ UNCHANGED <<torn, state, entry, ses, retiring, mishaps>>

(* The revision cannot be read, or the repair fails, maybe after it has    *)
(* truncated.                                                              *)
CommitFails ==
    /\ Quiet
    /\ \/ Running("commit", "revision") /\ UNCHANGED torn
       \/ Running("commit", "repair") /\ torn' \in {torn, FALSE}
    /\ Mishap
    /\ CommitEnds("error")
    /\ UNCHANGED <<log, state, entry, ses, retiring>>

(* The entry goes back to the pool for the next one.                       *)
GiveBack(c) == entry' = MadeReady(call[c].draft)
GiveUp(c) == entry' = Removed(call[c].draft)

(* reserve and prepare after the commit.                                   *)
Committed(c) ==
    /\ call[c].at = "committed"
    /\ ~Unstarted
    /\ CASE call[c].outcome = "error" -> GiveUp(c) /\ Leave(c)
         [] call[c].outcome = "stale" ->
              GiveUp(c) /\ (IF call[c].aborted THEN Leave(c) ELSE Again(c))
         [] call[c].outcome = "ok" /\ call[c].aborted -> GiveBack(c) /\ Leave(c)
         [] call[c].outcome = "ok" /\ ~call[c].aborted ->
              IF entry.id # call[c].draft
              THEN Again(c) /\ UNCHANGED entry
              ELSE IF Live # {}
              THEN GiveUp(c) /\ Leave(c)
              ELSE /\ entry' = [entry EXCEPT !.phase = "reserved"]
                   /\ call' = [call EXCEPT ![c].at = "holding"]
    /\ UNCHANGED <<log, torn, state, chain, step, ses, retiring, mishaps>>

(* The caller's signal aborts.  It stops waiting at once; its commit is    *)
(* withdrawn, or, once under way, runs to its end.                         *)
Abort(c) ==
    /\ call[c].op = "prepare"
    /\ ~call[c].aborted
    /\ \/ /\ call[c].at \in {"retirement", "loading"}
          /\ Leave(c)
          /\ UNCHANGED <<entry, chain>>
       \/ /\ call[c].at = "committing"
          /\ step = "queued" \/ Who # c
          /\ \E i \in 1..Len(chain) :
                /\ chain[i] = Serialized("commit", c, 0)
                /\ chain' = RemoveAt(chain, i)
          /\ GiveUp(c)
          /\ Leave(c)
       \/ /\ call[c].at = "committing" /\ step # "queued" /\ Who = c
          /\ call' = [call EXCEPT ![c].aborted = TRUE]
          /\ UNCHANGED <<entry, chain>>
    /\ UNCHANGED <<log, torn, state, step, ses, retiring, mishaps>>

(* inspect, once the read is done: a live Session answers, else the        *)
(* revision of the source is checked on the chain.                         *)
Inspect(c) ==
    /\ call[c].at = "loading" /\ call[c].op = "inspect"
    /\ Loaded(c)
    /\ IF call[c].source = Missing \/ Live # {}
       THEN Leave(c) /\ UNCHANGED chain
       ELSE /\ call' = [call EXCEPT ![c].at = "checking"]
            /\ Serialize("check", c, 0)
    /\ UNCHANGED <<log, torn, state, entry, step, ses, retiring, mishaps>>

Check ==
    /\ Quiet
    /\ Running("check", "queued")
    /\ call' = [call EXCEPT ![Who].at = "checked",
                  ![Who].outcome = IF IsCurrent(call[Who].source) THEN "ok" ELSE "stale"]
    /\ Pop
    /\ UNCHANGED <<log, torn, state, entry, ses, retiring, mishaps>>

(* The revision cannot be read.                                            *)
CheckFails ==
    /\ Quiet
    /\ Running("check", "queued")
    /\ Mishap
    /\ call' = [call EXCEPT ![Who].at = "checked", ![Who].outcome = "error"]
    /\ Pop
    /\ UNCHANGED <<log, torn, state, entry, ses, retiring>>

(* A live Session or a current source answers, and so does an error.  Of a *)
(* stale source a ready entry is discarded and read again; one that is     *)
(* held answers all the same.                                              *)
Checked(c) ==
    /\ call[c].at = "checked"
    /\ LET same == entry.id = call[c].draft IN
        CASE Live # {} \/ call[c].outcome # "stale" -> Leave(c) /\ UNCHANGED entry
          [] Live = {} /\ call[c].outcome = "stale" /\ ~same ->
               Again(c) /\ UNCHANGED entry
          [] Live = {} /\ call[c].outcome = "stale" /\ same ->
               IF entry.phase = "ready" THEN GiveUp(c) /\ Again(c)
                                        ELSE Leave(c) /\ UNCHANGED entry
    /\ UNCHANGED <<log, torn, state, chain, step, ses, retiring, mishaps>>

-----------------------------------------------------------------------------
(* Publication: agent-loop/src/index.ts and the session store.             *)

(* The caller's reservation is the one that the pool knows.                *)
Reserves(c) ==
    /\ call[c].at = "holding"
    /\ entry.id = call[c].draft
    /\ entry.phase = "reserved"

(* The agent's setup appends to the unpublished Session.                   *)
Setup(c) ==
    /\ call[c].at = "holding"
    /\ Len(call[c].source.session) < MaxLog
    /\ LET grown == [call[c].source EXCEPT !.session =
                        Append(@, [by |-> call[c].draft, kind |-> "note"])]
       IN  /\ call' = [call EXCEPT ![c].source = grown]
           /\ entry' = IF Reserves(c) THEN [entry EXCEPT !.source = grown] ELSE entry
    /\ UNCHANGED <<log, torn, state, chain, step, ses, retiring, mishaps>>

(* Only a Session that is as it was when the read returned it is reused    *)
(* (the variant reuses any).                                               *)
PristineEnough(s) == s.session # <<>>
Pristine(s) == Len(s.session) = Len(Restored(s.log \o Closers(s.log), None))

(* The preparation is disposed of without having been published.           *)
Release(c) ==
    /\ call[c].at = "holding"
    /\ entry' = IF ~Reserves(c) THEN entry
                ELSE IF Pristine(call[c].source) /\ state.owner = None
                     THEN MadeReady(entry.id)
                     ELSE NoEntry
    /\ Leave(c)
    /\ UNCHANGED <<log, torn, state, chain, step, ses, retiring, mishaps>>

Born(events, init) ==
    [Unborn EXCEPT !.at = "live", !.events = events, !.init = init,
                   !.next = Len(events) + 1]

NextLife == CHOOSE l \in Unused : TRUE

(* attachPrepared: the Session takes the state over and persists what it   *)
(* has beyond the stored log.  The conditions it checks first always hold: *)
(* ReservationHolds.                                                       *)
Publish(c) ==
    /\ Reserves(c)
    /\ Live = {} /\ Unused # {}
    /\ Len(call[c].source.session) <= MaxLog
    /\ LET s == call[c].source
           n == Len(s.session)
           l == NextLife
       IN  /\ state' = [state EXCEPT !.owner = l]
           /\ ses' = [ses EXCEPT ![l] =
                        Born(s.session, IF n > state.cursor THEN "pending" ELSE "ok")]
           /\ IF n > state.cursor THEN Serialize("suffix", l, n) ELSE UNCHANGED chain
    /\ entry' = NoEntry
    /\ Leave(c)
    /\ UNCHANGED <<log, torn, step, retiring, mishaps>>

(* A reservation that the pool has forgotten (the coordinator was          *)
(* reloaded): the Session is published as one the backend does not know,   *)
(* unless the pool knows the id again.                                     *)
PublishUnknown(c) ==
    /\ call[c].at = "holding"
    /\ ~Reserves(c)
    /\ Live = {} /\ Unused # {}
    /\ Len(call[c].source.session) <= MaxLog
    /\ IF Vetoed
       THEN UNCHANGED <<ses, chain>>
       ELSE LET s == call[c].source.session
                l == NextLife
            IN  /\ ses' = [ses EXCEPT ![l] = Born(s, "pending")]
                /\ Serialize("created", l, Len(s))
    /\ Leave(c)
    /\ UNCHANGED <<log, torn, state, entry, step, retiring, mishaps>>

(* A new Session under the id.  An entry in the pool vetoes it.            *)
Create ==
    /\ Live = {} /\ Unused # {}
    /\ ~Vetoed
    /\ LET l == NextLife IN
        /\ ses' = [ses EXCEPT ![l] = Born(<<>>, "pending")]
        /\ Serialize("created", l, 0)
    /\ UNCHANGED <<log, torn, state, entry, call, step, retiring, mishaps>>

(* session/event: the controller keeps a copy.                             *)
Emit(l) ==
    /\ ses[l].at = "live"
    /\ Len(ses[l].events) < MaxLog
    /\ ses' = [ses EXCEPT ![l].events = Append(@, NextOf(@, l)), ![l].paused = FALSE]
    /\ UNCHANGED <<log, torn, state, entry, call, chain, step, retiring, mishaps>>

(* session/disposed: the final drain starts.                               *)
Dispose(l) ==
    /\ ses[l].at = "live"
    /\ ses' = [ses EXCEPT ![l].at = "disposed", ![l].retire = "flushing"]
    /\ retiring' = l
    /\ UNCHANGED <<log, torn, state, entry, call, chain, step, mishaps>>

-----------------------------------------------------------------------------
(* onCreated, for a Session with upTo events at its creation.              *)
Seed == SubSeq(ses[Who].events, 1, Head(chain).upTo)

InitFails(l) == ses' = [ses EXCEPT ![l].init = "failed"] /\ Pop
InitSucceeds(l) == ses' = [ses EXCEPT ![l].init = "ok"] /\ Pop

(* Ownerless state may be claimed; a Session that never stored anything    *)
(* may be displaced; anything else is a collision.                         *)
CreatedStarts ==
    /\ Running("created", "queued")
    /\ CASE state = NoState -> Proceed("probe") /\ UNCHANGED <<state, ses>>
         [] state # NoState /\ ~Owned ->
              Proceed("match") /\ UNCHANGED <<state, ses>>
         [] Owned ->
              IF ~state.materialized /\ ~HasWork(state.owner)
              THEN state' = NoState /\ Proceed("probe") /\ UNCHANGED ses
              ELSE InitFails(Who) /\ UNCHANGED state
    /\ UNCHANGED <<log, torn, entry, call, retiring, mishaps>>

(* The Session takes over a state and appends what the log lacks of its    *)
(* seed, unless an unpublished Session holds the id by now.                *)
Own(cursor, materialized) ==
    /\ state' = [cursor |-> cursor, materialized |-> materialized, owner |-> Who]
    /\ CASE cursor = Len(Seed) -> InitSucceeds(Who)
         [] cursor # Len(Seed) /\ Exclusive -> InitFails(Who)
         [] OTHER -> Proceed("append") /\ UNCHANGED ses

(* seedMatchesPersisted (the variant compares lengths only).               *)
SeedMatchesLength == state.cursor <= Len(log)
SeedMatches == IsPrefix(SubSeq(log, 1, state.cursor), Seed)

CreatedMatches ==
    /\ Quiet
    /\ Running("created", "match")
    /\ IF SeedMatches
       THEN Own(state.cursor, state.materialized)
       ELSE InitFails(Who) /\ UNCHANGED state
    /\ UNCHANGED <<log, torn, entry, call, retiring, mishaps>>

(* Adopt a stored log that the seed covers, or register a new session.     *)
CreatedProbes ==
    /\ Quiet
    /\ Running("created", "probe")
    /\ CASE log # <<>> /\ ~IsPrefix(log, Seed) -> InitFails(Who) /\ UNCHANGED state
         [] log # <<>> /\ IsPrefix(log, Seed) ->
              IF torn THEN Proceed("truncate") /\ UNCHANGED <<state, ses>>
                      ELSE Own(Len(log), TRUE)
         [] log = <<>> ->
              IF entry # NoEntry THEN InitFails(Who) /\ UNCHANGED state
                                 ELSE Proceed("recheck") /\ UNCHANGED <<state, ses>>
    /\ UNCHANGED <<log, torn, entry, call, retiring, mishaps>>

CreatedTruncates ==
    /\ Quiet
    /\ Running("created", "truncate")
    /\ torn' = FALSE
    /\ Own(Len(log), TRUE)
    /\ UNCHANGED <<log, entry, call, retiring, mishaps>>

CreatedRechecks ==
    /\ Quiet
    /\ Running("created", "recheck")
    /\ IF log # <<>> THEN InitFails(Who) /\ UNCHANGED state ELSE Own(0, FALSE)
    /\ UNCHANGED <<log, torn, entry, call, retiring, mishaps>>

(* A read of the log fails, or the truncation, maybe after its effect.     *)
CreatedFails ==
    /\ Quiet
    /\ \/ \E at \in {"match", "probe", "recheck"} : Running("created", at) /\ UNCHANGED torn
       \/ Running("created", "truncate") /\ torn' \in {torn, FALSE}
    /\ Mishap
    /\ InitFails(Who)
    /\ UNCHANGED <<log, state, entry, call, retiring>>

-----------------------------------------------------------------------------
(* The write controller, as WriteBehind has it: one batch at a time.       *)

(* A deadline passes: the pending events are queued for the chain.         *)
Write(l) ==
    /\ ses[l].at = "live"
    /\ ses[l].init = "ok"
    /\ ~ses[l].writing /\ ~ses[l].paused
    /\ Pending(l)
    /\ ses' = [ses EXCEPT ![l].writing = TRUE]
    /\ Serialize("batch", l, Len(ses[l].events))
    /\ UNCHANGED <<log, torn, state, entry, call, step, retiring, mishaps>>

(* Nothing is left to flush (the variant awaits initialization only).      *)
DrainedAtOnce(l) == ses[l].init = "ok"
Drained(l) == ~Pending(l)

(* retireCore: flush what is left, then release the state on the chain.    *)
Drain(l) ==
    /\ CanDrain(l)
    /\ ses[l].paused => \A c \in Caller : ~HasJob(c)
    /\ CASE ses[l].init = "failed" ->
              /\ ses' = [ses EXCEPT ![l].retire = "failed"]
              /\ retiring' = IF retiring = l THEN None ELSE retiring
              /\ UNCHANGED chain
         [] ses[l].init = "ok" /\ ~Drained(l) ->
              /\ ses' = [ses EXCEPT ![l].writing = TRUE, ![l].retire = "draining"]
              /\ Serialize("batch", l, Len(ses[l].events))
              /\ UNCHANGED retiring
         [] ses[l].init = "ok" /\ Drained(l) ->
              /\ ses' = [ses EXCEPT ![l].retire = "forgetting"]
              /\ Serialize("forget", l, 0)
              /\ UNCHANGED retiring
    /\ UNCHANGED <<log, torn, state, entry, call, step, mishaps>>

(* The events of the head operation that initialization has not stored.    *)
Fresh == SubSeq(ses[Who].events, state.cursor + 1, Head(chain).upTo)

(* The operation is over: an initialization, a batch of the controller or  *)
(* the last batch of a retirement.                                         *)
Written(s) ==
    IF Head(chain).op = "batch"
    THEN [s EXCEPT !.writing = FALSE, !.next = Head(chain).upTo + 1,
                   !.retire = IF @ = "draining" THEN "flushing" ELSE @]
    ELSE [s EXCEPT !.init = "ok"]

Unwritten(s) ==
    IF Head(chain).op = "batch"
    THEN [s EXCEPT !.writing = FALSE, !.paused = TRUE,
                   !.retire = IF @ = "draining" THEN "failed" ELSE @]
    ELSE [s EXCEPT !.init = "failed"]

AppendFailed ==
    /\ ses' = [ses EXCEPT ![Who] = Unwritten(@)]
    /\ retiring' = IF retiring = Who /\ ses[Who].retire = "draining" THEN None
                                                                   ELSE retiring
    /\ Pop

Appending(at) ==
    /\ chain # <<>>
    /\ Head(chain).op \in {"batch", "suffix"} \/ (Head(chain).op = "created" /\ at = "append")
    /\ step = at

(* appendCore up to its first await.                                       *)
Refused == Appending("queued") /\ Fresh # <<>> /\ Exclusive

AppendStarts ==
    /\ Appending("queued")
    /\ CASE Refused -> AppendFailed
         [] Fresh = <<>> ->
              /\ ses' = [ses EXCEPT ![Who] = Written(@)]
              /\ Pop
              /\ UNCHANGED retiring
         [] OTHER -> Proceed("append") /\ UNCHANGED <<ses, retiring>>
    /\ UNCHANGED <<log, torn, state, entry, call, mishaps>>

(* The batch is durable: advance the cursor, discard the prepared view.    *)
AppendEnds ==
    /\ Quiet
    /\ Appending("append")
    /\ log' = log \o Fresh
    /\ state' = [state EXCEPT !.cursor = Head(chain).upTo, !.materialized = TRUE]
    /\ entry' = NoEntry
    /\ ses' = [ses EXCEPT ![Who] = Written(@)]
    /\ Pop
    /\ UNCHANGED <<torn, call, retiring, mishaps>>

AppendFails ==
    /\ Quiet
    /\ Appending("append")
    /\ Mishap
    /\ AppendFailed
    /\ UNCHANGED <<log, torn, state, entry, call>>

(* Only the state of that very Session is deleted.                         *)
Released == IF state.owner = Who THEN NoState ELSE state

Forget ==
    /\ Running("forget", "queued")
    /\ state' = Released
    /\ ses' = [ses EXCEPT ![Who].retire = "done"]
    /\ retiring' = IF retiring = Who THEN None ELSE retiring
    /\ Pop
    /\ UNCHANGED <<log, torn, entry, call, mishaps>>

-----------------------------------------------------------------------------
(* The rest of the world.                                                  *)

(* Other ids fill the pool: the entry is the oldest ready one.             *)
Evict ==
    /\ Mishap
    /\ entry.phase = "ready"
    /\ entry' = NoEntry
    /\ UNCHANGED <<log, torn, state, call, chain, step, ses, retiring>>

(* Another process appends while this one tracks nothing under the id.     *)
Foreign ==
    /\ Mishap
    /\ state = NoState /\ chain = <<>>
    /\ log # <<>> /\ ~torn /\ Len(log) + 1 < MaxLog
    /\ log' = Append(log, NextOf(log, "foreign"))
    /\ UNCHANGED <<torn, state, entry, call, chain, step, ses, retiring>>

(* What a failed append may leave: a part of the events, if the log        *)
(* exists, and the beginning of another one.                               *)
PartlyAppended(events) ==
    \E n \in 0..Len(events) :
        /\ log = <<>> => n \in {0, Len(events)}
        /\ log' = log \o SubSeq(events, 1, n)
        /\ torn' \in {torn, torn \/ (log # <<>> /\ n < Len(events))}

(* What the controllers still hold.                                        *)
Unflushed ==
    IF \E l \in Life : state.owner = l /\ HasWork(l)
    THEN SubSeq(ses[state.owner].events, state.cursor + 1,
                Len(ses[state.owner].events))
    ELSE <<>>

(* The backend plugin is reloaded.  The old coordinator flushes what its   *)
(* controllers hold and runs dry; a flush that fails is rolled back,       *)
(* unless that fails too.  The new one knows nothing and initializes the   *)
(* live Session from its events.                                           *)
Reload ==
    /\ Mishap
    /\ chain = <<>>
    /\ \A c \in Caller : call[c].at \in {"idle", "holding"}
    /\ \A l \in Life : ses[l].retire \in {"none", "done", "failed"}
    /\ PartlyAppended(Unflushed)
    /\ state' = NoState
    /\ entry' = NoEntry
    /\ ses' = [l \in Life |->
                 CASE l \in Live -> Born(ses[l].events, "pending")
                   [] l \in Unused -> Unborn
                   [] OTHER -> [Unborn EXCEPT !.at = "lost"]]
    /\ chain' = SetToSeq({Serialized("created", l, Len(ses[l].events)) : l \in Live})
    /\ UNCHANGED <<call, step, retiring>>

(* What was being written when the process crashed.                        *)
CrashTail ==
    IF Appending("append") THEN Fresh
    ELSE IF Running("commit", "repair") /\ ~torn THEN Closers(log)
    ELSE <<>>

Crash ==
    /\ Mishap
    /\ PartlyAppended(CrashTail)
    /\ state' = NoState
    /\ entry' = NoEntry
    /\ call' = [c \in Caller |-> Idle]
    /\ chain' = <<>>
    /\ step' = "queued"
    /\ ses' = [l \in Life |-> IF ses[l].at = "unborn" THEN Unborn
                              ELSE [Unborn EXCEPT !.at = "lost"]]
    /\ retiring' = None

Next ==
    \/ \E c \in Caller :
        \/ Begin(c, "prepare") \/ Begin(c, "inspect")
        \/ Enter(c) \/ Reserve(c) \/ Committed(c) \/ Abort(c)
        \/ Inspect(c) \/ Checked(c)
        \/ Setup(c) \/ Release(c) \/ Publish(c) \/ PublishUnknown(c)
    \/ Load \/ LoadFails
    \/ CommitStarts \/ CommitChecks
    \/ RepairTruncates \/ RepairCloses \/ CommitFails
    \/ Check \/ CheckFails
    \/ Create
    \/ CreatedStarts \/ CreatedMatches \/ CreatedProbes \/ CreatedTruncates
    \/ CreatedRechecks \/ CreatedFails
    \/ \E l \in Life : Emit(l) \/ Dispose(l) \/ Write(l) \/ Drain(l)
    \/ AppendStarts \/ AppendEnds \/ AppendFails
    \/ Forget
    \/ Evict \/ Foreign \/ Reload \/ Crash

Spec == Init /\ [][Next]_vars

(* The head of the chain goes on.                                          *)
ChainAdvances ==
    \/ Load \/ Check
    \/ CommitStarts \/ CommitChecks \/ RepairTruncates \/ RepairCloses
    \/ CreatedStarts \/ CreatedMatches \/ CreatedProbes \/ CreatedTruncates
    \/ CreatedRechecks
    \/ AppendStarts \/ AppendEnds
    \/ Forget

(* Promise jobs run, the event loop turns however often anybody calls, and *)
(* the backend answers; whoever holds a preparation publishes or releases  *)
(* it.  A caller that waits for a reservation is resumed by a job queued   *)
(* when it settles, ahead of whoever comes back for another one: hence the *)
(* strong fairness of Reserve.  Nothing obliges anyone to call, create,    *)
(* emit, dispose or abort.                                                 *)
Fairness ==
    /\ SF_vars(ChainAdvances)
    /\ \A c \in Caller :
        /\ WF_vars(Enter(c) \/ Inspect(c) \/ Checked(c) \/ Committed(c))
        /\ SF_vars(Reserve(c))
        /\ WF_vars(Release(c) \/ Publish(c) \/ PublishUnknown(c))
    /\ \A l \in Life : WF_vars(Drain(l))

FairSpec == Spec /\ Fairness

-----------------------------------------------------------------------------
(* A Session whose writes are under way owns the state they advance, and   *)
(* the stored log is the beginning of the owner's history, up to the       *)
(* cursor: whatever is appended next continues it, exactly where it ends.  *)
OneHistory ==
    \A l \in Life :
        /\ ses[l].init = "ok" /\ HasWork(l) => state.owner = l
        /\ state.owner = l => /\ state.cursor = Len(log)
                              /\ IsPrefix(log, ses[l].events)

(* What a controller has written stays in the log, once and in order,      *)
(* whatever is published, repaired or reloaded afterwards; and a Session   *)
(* whose retirement succeeded is durable to its last event.                *)
WrittenStays ==
    \A l \in Life :
        /\ ses[l].init = "ok" =>
               IsPrefix(SubSeq(ses[l].events, 1, ses[l].next - 1), log)
        /\ ses[l].retire = "done" => IsPrefix(ses[l].events, log)

(* The conditions that attachPrepared checks hold of every reservation     *)
(* until it is used: the log, the cursor and the Session are as committed. *)
(* And the pool offers a Session as the read returned it, without what the *)
(* setup of an abandoned resume appended.                                  *)
ReservationHolds ==
    /\ \A c \in Caller : Reserves(c) =>
        /\ <<call[c].source.log, FALSE>> = disk
        /\ state.owner = None
        /\ state.cursor = Len(log)
        /\ IsPrefix(log, call[c].source.session)
    /\ entry.phase = "ready" =>
        \A i \in Len(entry.source.log) + 1 .. Len(entry.source.session) :
            entry.source.session[i].kind # "note"

(* An id is either prepared or live: while the pool knows the id no        *)
(* Session of it is published but the one prepared.                        *)
PreparedOrLive == entry # NoEntry => Live = {}

(* Prepared and live exclude each other, and every variable has its type.  *)
Inv == TypeOK /\ PreparedOrLive

(* Crash repair is cold-only: nobody closes a turn of a Session that is    *)
(* live or has events left to write.                                       *)
ColdRepairOnly ==
    [][ \A n \in Len(log) + 1 .. Len(log') : log'[n].by = "closer" =>
            \A l \in Life : ses[l].at # "live" /\ (ses[l].init = "ok" => ~HasWork(l))
      ]_log

(* Once no further calls arrive, every prepare, inspect and retirement     *)
(* comes to an end: waiters never wait for each other in a circle, and     *)
(* nobody is sent back to start over for ever by what the others leave     *)
(* behind.                                                                 *)
CallsCease == <>[][\A c \in Caller : call[c].at = "idle" => call'[c].at = "idle"]_call

WaitersServed ==
    CallsCease =>
        /\ \A c \in Caller : call[c].at # "idle" ~> call[c].at = "idle"
        /\ \A l \in Life : ses[l].retire = "flushing" ~>
                               ses[l].retire \in {"none", "done", "failed"}

(* As long as the backend does not fail, a Session that was initialized is *)
(* drained and released when it is disposed of.                            *)
FinalDrain ==
    mishaps = 0 => \A l \in Life : ses[l].retire = "failed" => ses[l].init = "failed"
=============================================================================
