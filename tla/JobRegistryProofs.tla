------------------------- MODULE JobRegistryProofs --------------------------
(***************************************************************************)
(* What holds of the background-job registry for every set of jobs, owners *)
(* and waiting callers.  The inductive invariant adds to the checked ones  *)
(* what they silently rest on: which records are still in the store, that  *)
(* only a kill or a teardown claims the report of a job that is not        *)
(* terminal, where a wait stands once its job settles, and that a disposal *)
(* awaits every record it will drop.                                       *)
(***************************************************************************)
EXTENDS JobRegistry, FiniteSetTheorems, TLAPS

(* A live job is in the store, and what is in the store was started.  A    *)
(* stopped job is reported; before its outcome a job is reported only by   *)
(* being stopped, and no listener has heard of it.                         *)
Records ==
    \A j \in Job :
      /\ status[j] \in Active => j \in store
      /\ j \in store => status[j] # "unborn"
      /\ j \in stopped => reported[j]
      /\ ~Terminal(j) => (reported[j] => j \in stopped)
      /\ ~Terminal(j) => announced[j] = 0 /\ noticed[j] = 0

(* A wait names a started job; it is counted unless it was rejected; a     *)
(* settlement releases it, and nothing else does.                          *)
Waits ==
    \A w \in Waiter :
      /\ wait[w].at = "free" => wait[w] = Idle
      /\ wait[w].at # "free" => wait[w].job \in Job /\ status[wait[w].job] # "unborn"
      /\ wait[w].counted <=> wait[w].at \in {"waiting", "timedOut", "released"}
      /\ wait[w].at = "waiting" => ~Terminal(wait[w].job)
      /\ wait[w].at = "released" => Terminal(wait[w].job)

(* Whoever disposes awaits every record it is going to drop, and once the  *)
(* service is being disposed every live job has been told to stop.         *)
Disposals ==
    /\ \A o \in Owner : cleanup[o] = "disposing" =>
                          \A j \in store : owner[j] = o => j \in awaited[o]
    /\ service = "disposing" => store \subseteq awaited[Unowned]
    /\ service # "open" => \A j \in Job : status[j] \in Active => j \in stopped

IInv == Inv /\ GivenOnce /\ Records /\ Waits /\ Disposals

-----------------------------------------------------------------------------
(* The waits counted for j, and how their number follows one of them.      *)
Counting(j) == {w \in Waiter : wait[w].job = j /\ wait[w].at # "rejected"}

LEMMA CountFacts ==
    ASSUME NEW j
    PROVE  /\ Cardinality(Counting(j)) \in 0..Cardinality(Waiter)
           /\ \A w \in Waiter \ Counting(j) :
                 Cardinality(Counting(j) \cup {w}) = Cardinality(Counting(j)) + 1
           /\ \A w \in Counting(j) :
                 Cardinality(Counting(j) \ {w}) = Cardinality(Counting(j)) - 1
           /\ Counting(j) # {} <=> Cardinality(Counting(j)) > 0
<1>1. Counting(j) \in SUBSET Waiter
  BY DEF Counting
<1>2. IsFiniteSet(Counting(j)) /\ Cardinality(Counting(j)) <= Cardinality(Waiter)
  BY <1>1, FS_Subset, WaiterAssumption
<1>3. Cardinality(Counting(j)) \in Nat /\ Cardinality(Waiter) \in Nat
  BY <1>2, FS_CardinalityType, WaiterAssumption
<1>4. \A w \in Waiter \ Counting(j) :
         Cardinality(Counting(j) \cup {w}) = Cardinality(Counting(j)) + 1
  BY <1>2, FS_AddElement
<1>5. \A w \in Counting(j) :
         Cardinality(Counting(j) \ {w}) = Cardinality(Counting(j)) - 1
  BY <1>2, FS_RemoveElement
<1>6. Counting(j) # {} <=> Cardinality(Counting(j)) > 0
  BY <1>2, <1>3, FS_EmptySet
<1> QED
  BY <1>2, <1>3, <1>4, <1>5, <1>6

(* The same after a step: the count of live waits stays within its type.   *)
LEMMA CountType ==
    ASSUME waiters' \in [Job -> Int], WaitersCounted'
    PROVE  waiters' \in [Job -> 0..Cardinality(Waiter)]
<1>1. ASSUME NEW j \in Job
      PROVE  waiters'[j] \in 0..Cardinality(Waiter)
  <2>1. Counting(j)' \in SUBSET Waiter
    BY DEF Counting
  <2>2. IsFiniteSet(Counting(j)') /\ Cardinality(Counting(j)') <= Cardinality(Waiter)
    BY <2>1, FS_Subset, WaiterAssumption
  <2>3. Cardinality(Counting(j)') \in Nat /\ Cardinality(Waiter) \in Nat
    BY <2>2, FS_CardinalityType, WaiterAssumption
  <2> QED
    BY <2>2, <2>3 DEF WaitersCounted, Counting
<1> QED
  BY <1>1

-----------------------------------------------------------------------------
(* What a teardown does to the jobs of S: a live one is claimed, and is    *)
(* either stopping or, when its cancel threw, failed; the waits of the     *)
(* failed ones are released.                                               *)
Torn(S, throwing) ==
    /\ throwing \subseteq {j \in S : ~Terminal(j)}
    /\ status' \in [Job -> Active \cup Outcome \cup {"unborn"}]
    /\ reported' \in [Job -> BOOLEAN]
    /\ announced' \in [Job -> Nat]
    /\ wait' = Released(throwing)
    /\ stopped' = stopped \cup {j \in S : ~Terminal(j)}
    /\ \A j \in Job :
          /\ status'[j] = CASE j \in throwing -> "failed"
                            [] j \in S /\ ~Terminal(j) /\ j \notin throwing -> "stopping"
                            [] OTHER -> status[j]
          /\ reported'[j] = (reported[j] \/ (j \in S /\ ~Terminal(j)))
          /\ announced'[j] = IF j \in throwing /\ service' = "open"
                             THEN announced[j] + 1 ELSE announced[j]

LEMMA TeardownFacts ==
    ASSUME TypeOK, NEW S \in SUBSET Job, CancelForTeardown(S)
    PROVE  \E throwing \in SUBSET Job : Torn(S, throwing)
<1>1. PICK throwing \in SUBSET {j \in S : ~Terminal(j)} :
          /\ status' = [j \in Job |-> CASE j \in throwing -> ForcedFailure
                                        [] j \in {i \in S : ~Terminal(i)} \ throwing -> "stopping"
                                        [] OTHER -> status[j]]
          /\ reported' = [j \in Job |-> reported[j] \/ j \in {i \in S : ~Terminal(i)}]
          /\ wait' = Released(throwing)
          /\ announced' = [j \in Job |-> IF j \in throwing /\ service' = "open"
                                         THEN announced[j] + 1 ELSE announced[j]]
          /\ stopped' = stopped \cup {i \in S : ~Terminal(i)}
  BY DEF CancelForTeardown
<1>2. status' \in [Job -> Active \cup Outcome \cup {"unborn"}]
  BY <1>1 DEF TypeOK, ForcedFailure, Active, Outcome
<1>3. reported' \in [Job -> BOOLEAN] /\ announced' \in [Job -> Nat]
  BY <1>1 DEF TypeOK
<1>4. Torn(S, throwing)
  BY <1>1, <1>2, <1>3 DEF Torn, ForcedFailure
<1> QED
  BY <1>1, <1>4

(* A settlement keeps every wait but for releasing those of the settled.   *)
LEMMA ReleasedFacts ==
    ASSUME TypeOK, NEW S, wait' = Released(S)
    PROVE  /\ wait' \in [Waiter -> [job : Job \cup {NoJob},
                                    at : {"free", "waiting", "timedOut", "released", "rejected"},
                                    counted : BOOLEAN]]
           /\ \A w \in Waiter :
                 /\ wait'[w].job = wait[w].job
                 /\ wait'[w].counted = wait[w].counted
                 /\ wait'[w].at = IF wait[w].job \in S /\ wait[w].at = "waiting"
                                  THEN "released" ELSE wait[w].at
                 /\ wait[w].at # "waiting" => wait'[w] = wait[w]
  BY DEF TypeOK, Released

(* Which variables of type a step may leave to the count of waits.         *)
TypeButWaiters ==
    /\ status' \in [Job -> Active \cup Outcome \cup {"unborn"}]
    /\ owner' \in [Job -> Owner \cup {Unowned}]
    /\ reported' \in [Job -> BOOLEAN]
    /\ waiters' \in [Job -> Int]
    /\ store' \subseteq Job
    /\ wait' \in [Waiter -> [job : Job \cup {NoJob},
                             at : {"free", "waiting", "timedOut", "released", "rejected"},
                             counted : BOOLEAN]]
    /\ cleanup' \in [Owner -> {"none", "attached", "disposing", "gone"}]
    /\ service' \in {"open", "disposing", "disposed"}
    /\ awaited' \in [Owner \cup {Unowned} -> SUBSET Job]
    /\ announced' \in [Job -> Nat] /\ noticed' \in [Job -> Nat]
    /\ told' \subseteq Job /\ stopped' \subseteq Job

(* Every action takes well-typed states to well-typed states.              *)
LEMMA TypeStep ==
    ASSUME TypeOK, Waits, [Next]_vars PROVE TypeButWaiters
<1> USE DEF TypeOK, TypeButWaiters, jobs, scopes, listeners
<1>0. waiters \in [Job -> Int]
  BY DEF TypeOK
<1>1. ASSUME NEW j \in Job, NEW o \in Owner \cup {Unowned}, Start(j, o)
      PROVE  TypeButWaiters
  BY <1>0, <1>1 DEF Start, Active
<1>2. ASSUME NEW o \in Owner, StartFails(o) PROVE TypeButWaiters
  BY <1>0, <1>2 DEF StartFails
<1>3. ASSUME NEW j \in Job, Settle(j) PROVE TypeButWaiters
  <2>1. status' \in [Job -> Active \cup Outcome \cup {"unborn"}]
    BY <1>3 DEF Settle
  <2>2. reported' \in [Job -> BOOLEAN]
    BY <1>3 DEF Settle, ReportedAt
  <2>3. announced' \in [Job -> Nat] /\ noticed' \in [Job -> Nat]
    BY <1>3 DEF Settle
  <2> QED
    BY <1>0, <1>3, <2>1, <2>2, <2>3, ReleasedFacts DEF Settle
<1>4. ASSUME NEW j \in Job, Read(j) PROVE TypeButWaiters
  BY <1>0, <1>4 DEF Read
<1>5. ASSUME NEW j \in Job, Kill(j) PROVE TypeButWaiters
  BY <1>0, <1>5 DEF Kill, Active
<1>6. ASSUME NEW w \in Waiter, NEW j \in Job, Wait(w, j) PROVE TypeButWaiters
  BY <1>0, <1>6 DEF Wait
<1>7. ASSUME NEW w \in Waiter, WaitTimeout(w) PROVE TypeButWaiters
  BY <1>0, <1>7 DEF WaitTimeout, TimedOut
<1>8. ASSUME NEW w \in Waiter, WaitAbort(w) PROVE TypeButWaiters
  <2>1. wait[w].job \in Job
    BY <1>8 DEF WaitAbort, Abortable, Waits
  <2> QED
    BY <1>0, <1>8, <2>1 DEF WaitAbort, AbortUncounts, Uncounted
<1>9. ASSUME NEW w \in Waiter, WaitReturns(w) PROVE TypeButWaiters
  <2>1. wait[w].job \in Job
    BY <1>9 DEF WaitReturns, Waits
  <2>2. reported' \in [Job -> BOOLEAN]
    BY <1>9, <2>1 DEF WaitReturns
  <2>3. wait' \in [Waiter -> [job : Job \cup {NoJob},
                             at : {"free", "waiting", "timedOut", "released", "rejected"},
                             counted : BOOLEAN]]
    BY <1>9 DEF WaitReturns, Idle
  <2>4. waiters' \in [Job -> Int] /\ told' \subseteq Job
    BY <1>0, <1>9, <2>1 DEF WaitReturns, Uncounted
  <2> QED
    BY <1>9, <2>2, <2>3, <2>4 DEF WaitReturns
<1>10. ASSUME NEW o \in Owner, DisposeOwner(o) PROVE TypeButWaiters
  <2> DEFINE owned == {j \in store : owner[j] = o}
  <2>1. PICK throwing \in SUBSET Job : Torn(owned, throwing)
    BY <1>10, TeardownFacts DEF DisposeOwner
  <2> QED
    BY <1>0, <1>10, <2>1, ReleasedFacts DEF DisposeOwner, Torn
<1>11. ASSUME NEW o \in Owner, DropOwned(o) PROVE TypeButWaiters
  BY <1>0, <1>11 DEF DropOwned
<1>12. CASE DisposeAll
  <2>1. PICK throwing \in SUBSET Job : Torn(store, throwing)
    BY <1>12, TeardownFacts DEF DisposeAll
  <2> QED
    BY <1>0, <1>12, <2>1, ReleasedFacts DEF DisposeAll, Torn
<1>13. CASE DropAll
  BY <1>0, <1>13 DEF DropAll
<1>14. CASE UNCHANGED vars
  BY <1>0, <1>14 DEF vars
<1> QED
  BY <1>1, <1>2, <1>3, <1>4, <1>5, <1>6, <1>7, <1>8, <1>9, <1>10, <1>11,
     <1>12, <1>13, <1>14 DEF Next

-----------------------------------------------------------------------------
(* The record of each job stays consistent.                                *)
LEMMA RecordsStep ==
    ASSUME IInv, [Next]_vars PROVE Records'
<1> USE DEF IInv, Inv, TypeOK, Records, Terminal, jobs, scopes, listeners
<1>1. ASSUME NEW j \in Job, NEW o \in Owner \cup {Unowned}, Start(j, o)
      PROVE  Records'
  BY <1>1 DEF Start, Active, Outcome, Disposals
<1>2. ASSUME NEW o \in Owner, StartFails(o) PROVE Records'
  BY <1>2 DEF StartFails
<1>3. ASSUME NEW j \in Job, Settle(j) PROVE Records'
  BY <1>3 DEF Settle, MaySettle, ReportedAt, Active, Outcome
<1>4. ASSUME NEW j \in Job, Read(j) PROVE Records'
  BY <1>4 DEF Read
<1>5. ASSUME NEW j \in Job, Kill(j) PROVE Records'
  BY <1>5 DEF Kill, Active, Outcome
<1>6. ASSUME NEW w \in Waiter, NEW j \in Job, Wait(w, j) PROVE Records'
  BY <1>6 DEF Wait
<1>7. ASSUME NEW w \in Waiter, WaitTimeout(w) PROVE Records'
  BY <1>7 DEF WaitTimeout
<1>8. ASSUME NEW w \in Waiter, WaitAbort(w) PROVE Records'
  BY <1>8 DEF WaitAbort
<1>9. ASSUME NEW w \in Waiter, WaitReturns(w) PROVE Records'
  BY <1>9 DEF WaitReturns
<1>10. ASSUME NEW o \in Owner, DisposeOwner(o) PROVE Records'
  <2> DEFINE owned == {j \in store : owner[j] = o}
  <2>1. PICK throwing \in SUBSET Job : Torn(owned, throwing)
    BY <1>10, TeardownFacts DEF DisposeOwner
  <2> QED
    BY <1>10, <2>1 DEF DisposeOwner, Torn, Active, Outcome
<1>11. ASSUME NEW o \in Owner, DropOwned(o) PROVE Records'
  BY <1>11 DEF DropOwned, AllSettled, Active, Outcome
<1>12. CASE DisposeAll
  <2>1. PICK throwing \in SUBSET Job : Torn(store, throwing)
    BY <1>12, TeardownFacts DEF DisposeAll
  <2> QED
    BY <1>12, <2>1 DEF DisposeAll, Torn, Active, Outcome
<1>13. CASE DropAll
  BY <1>13 DEF DropAll, AllSettled, Disposals, Active, Outcome
<1>14. CASE UNCHANGED vars
  BY <1>14 DEF vars
<1> QED
  BY <1>1, <1>2, <1>3, <1>4, <1>5, <1>6, <1>7, <1>8, <1>9, <1>10, <1>11,
     <1>12, <1>13, <1>14 DEF Next

(* A settlement of the jobs of S, and of no other, leaves the waits in     *)
(* their place.                                                            *)
LEMMA WaitsReleased ==
    ASSUME TypeOK, Waits, NEW S \in SUBSET Job, wait' = Released(S),
           status' \in [Job -> Active \cup Outcome \cup {"unborn"}],
           \A j \in S : status'[j] \in Outcome,
           \A j \in Job \ S : status'[j] \in Outcome <=> status[j] \in Outcome,
           \A j \in Job : status[j] # "unborn" => status'[j] # "unborn"
    PROVE  Waits'
<1> SUFFICES ASSUME NEW w \in Waiter
             PROVE  /\ wait'[w].at = "free" => wait'[w] = Idle
                    /\ wait'[w].at # "free" => wait'[w].job \in Job
                                               /\ status'[wait'[w].job] # "unborn"
                    /\ wait'[w].counted <=> wait'[w].at \in {"waiting", "timedOut", "released"}
                    /\ wait'[w].at = "waiting" => status'[wait'[w].job] \notin Outcome
                    /\ wait'[w].at = "released" => status'[wait'[w].job] \in Outcome
  BY DEF Waits, Terminal, Idle
<1> USE DEF Waits, Terminal
<1>1. /\ wait'[w].job = wait[w].job
      /\ wait'[w].counted = wait[w].counted
      /\ wait'[w].at = IF wait[w].job \in S /\ wait[w].at = "waiting"
                       THEN "released" ELSE wait[w].at
      /\ wait[w].at # "waiting" => wait'[w] = wait[w]
  BY ReleasedFacts
<1>2. CASE wait[w].at = "waiting" /\ wait[w].job \in S
  BY <1>1, <1>2
<1>3. CASE wait[w].at = "waiting" /\ wait[w].job \notin S
  BY <1>1, <1>3
<1>4. CASE wait[w].at = "released"
  BY <1>1, <1>4
<1>5. CASE wait[w].at \notin {"waiting", "released"}
  BY <1>1, <1>5
<1> QED
  BY <1>2, <1>3, <1>4, <1>5

(* Every wait stands where its job's status puts it.                       *)
LEMMA WaitsStep ==
    ASSUME IInv, TypeButWaiters, [Next]_vars PROVE Waits'
<1> USE DEF IInv, Inv, TypeOK, Waits, Terminal, jobs, scopes, listeners
<1>1. ASSUME NEW j \in Job, NEW o \in Owner \cup {Unowned}, Start(j, o)
      PROVE  Waits'
  BY <1>1 DEF Start, Outcome
<1>2. ASSUME NEW o \in Owner, StartFails(o) PROVE Waits'
  BY <1>2 DEF StartFails
<1>3. ASSUME NEW j \in Job, Settle(j) PROVE Waits'
  <2>1. status'[j] \in Outcome /\ \A i \in Job \ {j} : status'[i] = status[i]
    BY <1>3 DEF Settle
  <2>2. /\ \A i \in {j} : status'[i] \in Outcome
        /\ \A i \in Job \ {j} : status'[i] \in Outcome <=> status[i] \in Outcome
        /\ \A i \in Job : status[i] # "unborn" => status'[i] # "unborn"
    BY <2>1 DEF Outcome
  <2>3. wait' = Released({j})
    BY <1>3 DEF Settle
  <2>4. TypeOK /\ Waits /\ {j} \in SUBSET Job
    OBVIOUS
  <2>5. status' \in [Job -> Active \cup Outcome \cup {"unborn"}]
    BY DEF TypeButWaiters
  <2> HIDE DEF IInv, Inv, TypeOK, Waits
  <2> QED
    BY <2>2, <2>3, <2>4, <2>5, WaitsReleased
<1>4. ASSUME NEW j \in Job, Read(j) PROVE Waits'
  BY <1>4 DEF Read
<1>5. ASSUME NEW j \in Job, Kill(j) PROVE Waits'
  BY <1>5 DEF Kill, Outcome
<1>6. ASSUME NEW w \in Waiter, NEW j \in Job, Wait(w, j) PROVE Waits'
  BY <1>6 DEF Wait, Records
<1>7. ASSUME NEW w \in Waiter, WaitTimeout(w) PROVE Waits'
  BY <1>7 DEF WaitTimeout, TimedOut
<1>8. ASSUME NEW w \in Waiter, WaitAbort(w) PROVE Waits'
  BY <1>8 DEF WaitAbort, Abortable, AbortUncounts, Uncounted
<1>9. ASSUME NEW w \in Waiter, WaitReturns(w) PROVE Waits'
  BY <1>9 DEF WaitReturns, Idle
<1>10. ASSUME NEW o \in Owner, DisposeOwner(o) PROVE Waits'
  <2> DEFINE owned == {j \in store : owner[j] = o}
  <2>1. PICK throwing \in SUBSET Job : Torn(owned, throwing)
    BY <1>10, TeardownFacts DEF DisposeOwner
  <2> QED
    BY <2>1, WaitsReleased DEF Torn, Outcome
<1>11. ASSUME NEW o \in Owner, DropOwned(o) PROVE Waits'
  BY <1>11 DEF DropOwned
<1>12. CASE DisposeAll
  <2>1. PICK throwing \in SUBSET Job : Torn(store, throwing)
    BY <1>12, TeardownFacts DEF DisposeAll
  <2> QED
    BY <2>1, WaitsReleased DEF Torn, Outcome
<1>13. CASE DropAll
  BY <1>13 DEF DropAll
<1>14. CASE UNCHANGED vars
  BY <1>14 DEF vars
<1> QED
  BY <1>1, <1>2, <1>3, <1>4, <1>5, <1>6, <1>7, <1>8, <1>9, <1>10, <1>11,
     <1>12, <1>13, <1>14 DEF Next

(* A disposal drops what it awaited, and that is everything of its owner.  *)
LEMMA DisposalsStep ==
    ASSUME IInv, [Next]_vars PROVE Disposals' /\ DisposalDrains'
<1> USE DEF IInv, Inv, TypeOK, Disposals, DisposalDrains, Terminal, jobs, scopes, listeners
<1> DEFINE P == Disposals' /\ DisposalDrains'
<1>1. ASSUME NEW j \in Job, NEW o \in Owner \cup {Unowned}, Start(j, o) PROVE P
  <2>1. /\ service = "open" /\ service' = "open" /\ awaited' = awaited
        /\ store' = store \cup {j} /\ owner'[j] = o
        /\ \A i \in Job \ {j} : owner'[i] = owner[i]
    BY <1>1 DEF Start
  <2>2. \A p \in Owner : cleanup'[p] \in {"disposing", "gone"} =>
                           cleanup[p] = cleanup'[p] /\ p # o
    BY <1>1, MarkerAssumption DEF Start, Attaches
  <2>3. j \notin store
    BY <1>1 DEF Start, Records
  <2>4. ASSUME NEW p \in Owner, cleanup'[p] \in {"disposing", "gone"}, NEW i \in store',
               owner'[i] = p
        PROVE  i \in store /\ owner[i] = p /\ cleanup[p] = cleanup'[p]
    BY <2>1, <2>2, <2>3, <2>4
  <2> QED
    BY <2>1, <2>4
<1>2. ASSUME NEW o \in Owner, StartFails(o) PROVE P
  BY <1>2 DEF StartFails
<1>3. ASSUME NEW j \in Job, Settle(j) PROVE P
  BY <1>3 DEF Settle, Active, Outcome
<1>4. ASSUME NEW j \in Job, Read(j) PROVE P
  BY <1>4 DEF Read
<1>5. ASSUME NEW j \in Job, Kill(j) PROVE P
  BY <1>5 DEF Kill, Active, Outcome
<1>6. ASSUME NEW w \in Waiter, NEW j \in Job, Wait(w, j) PROVE P
  BY <1>6 DEF Wait
<1>7. ASSUME NEW w \in Waiter, WaitTimeout(w) \/ WaitAbort(w) \/ WaitReturns(w) PROVE P
  BY <1>7 DEF WaitTimeout, WaitAbort, WaitReturns
<1>8. ASSUME NEW o \in Owner, DisposeOwner(o) PROVE P
  <2> DEFINE owned == {j \in store : owner[j] = o}
  <2>1. PICK throwing \in SUBSET Job : Torn(owned, throwing)
    BY <1>8, TeardownFacts DEF DisposeOwner
  <2>2. service' # "open" => \A j \in Job : status'[j] \in Active => j \in stopped'
    BY <1>8, <2>1 DEF DisposeOwner, Torn, Active, Outcome
  <2>3. awaited'[o] = owned /\ \A p \in (Owner \cup {Unowned}) \ {o} : awaited'[p] = awaited[p]
    BY <1>8 DEF DisposeOwner
  <2> QED
    BY <1>8, <2>2, <2>3, MarkerAssumption DEF DisposeOwner
<1>9. ASSUME NEW o \in Owner, DropOwned(o) PROVE P
  BY <1>9, MarkerAssumption DEF DropOwned
<1>10. CASE DisposeAll
  <2>1. PICK throwing \in SUBSET Job : Torn(store, throwing)
    BY <1>10, TeardownFacts DEF DisposeAll
  <2>2. \A j \in Job : status'[j] \in Active => j \in stopped'
    BY <2>1 DEF Torn, Active, Outcome, Records
  <2> QED
    BY <1>10, <2>2, MarkerAssumption DEF DisposeAll
<1>11. CASE DropAll
  BY <1>11, MarkerAssumption DEF DropAll
<1>12. CASE UNCHANGED vars
  BY <1>12 DEF vars
<1> QED
  BY <1>1, <1>2, <1>3, <1>4, <1>5, <1>6, <1>7, <1>8, <1>9, <1>10, <1>11,
     <1>12 DEF Next

-----------------------------------------------------------------------------
(* The number of waits counted for a job follows its waits, in the four    *)
(* ways a step can change one of them.                                     *)
LEMMA SameCount ==
    ASSUME NEW j, \A w \in Waiter : wait'[w].job = wait[w].job
                                    /\ (wait'[w].at = "rejected" <=> wait[w].at = "rejected")
    PROVE  Counting(j)' = Counting(j)
  BY DEF Counting

(* Inv without the count is kept, and so is the count: the waits of a job  *)
(* are counted exactly.                                                    *)
LEMMA CountedStep ==
    ASSUME IInv, [Next]_vars PROVE WaitersCounted'
<1> USE DEF IInv, Inv, TypeOK
<1>0. SUFFICES ASSUME NEW i \in Job PROVE waiters'[i] = Cardinality(Counting(i)')
  BY DEF WaitersCounted, Counting
<1>a. waiters[i] = Cardinality(Counting(i))
  BY DEF WaitersCounted, Counting
<1>1. ASSUME NEW S, wait' = Released(S), waiters' = waiters
      PROVE  waiters'[i] = Cardinality(Counting(i)')
  BY <1>a, <1>1, ReleasedFacts, SameCount
<1>2. ASSUME UNCHANGED <<wait, waiters>>
      PROVE  waiters'[i] = Cardinality(Counting(i)')
  BY <1>a, <1>2, SameCount
<1>3. ASSUME NEW w \in Waiter, NEW j \in Job, Wait(w, j)
      PROVE  waiters'[i] = Cardinality(Counting(i)')
  <2>1. w \notin Counting(i)
    BY <1>3, MarkerAssumption DEF Wait, Counting, Waits, Idle
  <2>2. CASE i = j
    <3>1. Counting(i)' = Counting(i) \cup {w}
      BY <1>3, <2>2 DEF Wait, Counting
    <3> QED
      BY <1>3, <1>a, <2>1, <2>2, <3>1, CountFacts DEF Wait
  <2>3. CASE i # j
    <3>1. Counting(i)' = Counting(i)
      BY <1>3, <2>1, <2>3 DEF Wait, Counting
    <3> QED
      BY <1>3, <1>a, <2>3, <3>1 DEF Wait
  <2> QED
    BY <2>2, <2>3
<1>4. ASSUME NEW w \in Waiter, WaitTimeout(w)
      PROVE  waiters'[i] = Cardinality(Counting(i)')
  <2>1. Counting(i)' = Counting(i)
    BY <1>4 DEF WaitTimeout, Counting, TimedOut
  <2> QED
    BY <1>4, <1>a, <2>1 DEF WaitTimeout, jobs
<1>5. ASSUME NEW w \in Waiter, WaitAbort(w)
      PROVE  waiters'[i] = Cardinality(Counting(i)')
  <2>1. wait[w].job \in Job /\ wait[w].counted /\ AbortUncounts(w) = 1
    BY <1>5 DEF WaitAbort, Abortable, Waits, AbortUncounts, Uncounted
  <2>2. CASE i = wait[w].job
    <3>1. w \in Counting(i) /\ Counting(i)' = Counting(i) \ {w}
      BY <1>5, <2>2 DEF WaitAbort, Abortable, Counting
    <3> QED
      BY <1>5, <1>a, <2>1, <2>2, <3>1, CountFacts DEF WaitAbort
  <2>3. CASE i # wait[w].job
    <3>1. Counting(i)' = Counting(i)
      BY <1>5, <2>3 DEF WaitAbort, Counting
    <3> QED
      BY <1>5, <1>a, <2>1, <2>3, <3>1 DEF WaitAbort
  <2> QED
    BY <2>2, <2>3
<1>6. ASSUME NEW w \in Waiter, WaitReturns(w)
      PROVE  waiters'[i] = Cardinality(Counting(i)')
  <2>1. /\ wait[w].job \in Job
        /\ Uncounted(w) = IF wait[w].at = "rejected" THEN 0 ELSE 1
    BY <1>6 DEF WaitReturns, Waits, Uncounted
  <2>2. wait'[w] = Idle /\ \A v \in Waiter \ {w} : wait'[v] = wait[v]
    BY <1>6 DEF WaitReturns
  <2>3. CASE i = wait[w].job /\ wait[w].at # "rejected"
    <3>1. w \in Counting(i) /\ Counting(i)' = Counting(i) \ {w}
      BY <2>2, <2>3, MarkerAssumption DEF Counting, Idle
    <3> QED
      BY <1>6, <1>a, <2>1, <2>3, <3>1, CountFacts DEF WaitReturns
  <2>4. CASE ~(i = wait[w].job /\ wait[w].at # "rejected")
    <3>1. Counting(i)' = Counting(i)
      <4>1. w \notin Counting(i) /\ w \notin Counting(i)'
        BY <2>2, <2>4, MarkerAssumption DEF Counting, Idle
      <4>2. \A v \in Waiter \ {w} : v \in Counting(i)' <=> v \in Counting(i)
        BY <2>2 DEF Counting
      <4>3. Counting(i) \subseteq Waiter /\ Counting(i)' \subseteq Waiter
        BY DEF Counting
      <4>4. \A v : v \in Counting(i)' <=> v \in Counting(i)
        BY <4>1, <4>2, <4>3
      <4> QED
        BY <4>4
    <3>2. waiters'[i] = waiters[i]
      BY <1>6, <2>1, <2>4 DEF WaitReturns
    <3> QED
      BY <1>a, <3>1, <3>2
  <2> QED
    BY <2>3, <2>4
<1>7. ASSUME NEW j \in Job, Settle(j) PROVE waiters'[i] = Cardinality(Counting(i)')
  BY <1>1, <1>7 DEF Settle
<1>8. ASSUME NEW o \in Owner, DisposeOwner(o) PROVE waiters'[i] = Cardinality(Counting(i)')
  BY <1>1, <1>8 DEF DisposeOwner, CancelForTeardown
<1>9. CASE DisposeAll
  BY <1>1, <1>9 DEF DisposeAll, CancelForTeardown
<1>10. ASSUME NEW j \in Job, NEW o \in Owner \cup {Unowned}, Start(j, o)
       PROVE waiters'[i] = Cardinality(Counting(i)')
  BY <1>2, <1>10 DEF Start
<1>11. ASSUME NEW j \in Job, Read(j) \/ Kill(j)
       PROVE waiters'[i] = Cardinality(Counting(i)')
  BY <1>2, <1>11 DEF Read, Kill
<1>12. ASSUME NEW o \in Owner, StartFails(o) \/ DropOwned(o)
       PROVE waiters'[i] = Cardinality(Counting(i)')
  BY <1>2, <1>12 DEF StartFails, DropOwned, jobs
<1>13. CASE DropAll \/ UNCHANGED vars
  BY <1>2, <1>13 DEF DropAll, vars
<1> QED
  BY <1>3, <1>4, <1>5, <1>6, <1>7, <1>8, <1>9, <1>10, <1>11, <1>12, <1>13 DEF Next

-----------------------------------------------------------------------------
(* A settled job's outcome was collected, announced or is owed.            *)
Collected(j) == \/ j \in stopped \cup told
                \/ noticed[j] > 0
                \/ \E w \in Waiter : Owed(w, j)

(* The step that settles j by its producer: a live wait owes the outcome   *)
(* from now on, and without one the listeners hear of it unreported.       *)
LEMMA SettleGives ==
    ASSUME IInv, NEW j \in Job, Settle(j), [Next]_vars PROVE GivenOnce'
<1> USE DEF IInv, Inv, TypeOK
<1>1. /\ j \in store /\ ~Terminal(j) /\ status'[j] \in Outcome
      /\ \A i \in Job \ {j} : status'[i] = status[i]
      /\ wait' = Released({j})
      /\ announced' = IF Announces THEN [announced EXCEPT ![j] = @ + 1] ELSE announced
      /\ noticed' = IF Announces /\ ~ReportedAt(j)
                    THEN [noticed EXCEPT ![j] = @ + 1] ELSE noticed
      /\ UNCHANGED <<told, stopped>>
  BY DEF Settle, MaySettle, Records, Active, Outcome, Terminal
<1>r. \A w \in Waiter : /\ wait'[w].job = wait[w].job
                        /\ wait'[w].at = IF wait[w].job = j /\ wait[w].at = "waiting"
                                         THEN "released" ELSE wait[w].at
  <2> DEFINE S == {j}
  <2>1. wait' = Released(S) /\ \A i : i \in S <=> i = j
    BY <1>1
  <2> HIDE DEF S
  <2> QED
    BY <2>1, ReleasedFacts
<1>w. waiters[j] = Cardinality(Counting(j))
  BY DEF WaitersCounted, Counting
<1>2. \A w \in Waiter, i \in Job \ {j} : Owed(w, i)' <=> Owed(w, i)
  BY <1>r DEF Owed
<1>3. ReportedAt(j) => j \in stopped \/ \E w \in Waiter : Owed(w, j)'
  <2>1. CASE reported[j]
    BY <1>1, <2>1 DEF Records
  <2>2. CASE waiters[j] > 0
    <3>0. Counting(j) # {}
      BY <2>2, <1>w, CountFacts
    <3>1. PICK w \in Waiter : wait[w].job = j /\ wait[w].at # "rejected"
      BY <3>0 DEF Counting
    <3>2. wait[w].at \in {"waiting", "timedOut", "released"}
      BY <3>1, MarkerAssumption DEF Waits, Idle
    <3> QED
      BY <1>r, <3>1, <3>2 DEF Owed
  <2> QED
    BY <2>1, <2>2 DEF ReportedAt
<1>4. ~Announces => j \in stopped
  BY <1>1 DEF Announces, Disposals, Settle, MaySettle
<1>5. ~ReportedAt(j) => j \notin stopped /\ \A w \in Waiter : ~Owed(w, j)'
  <2> SUFFICES ASSUME ~ReportedAt(j)
               PROVE  j \notin stopped /\ \A w \in Waiter : ~Owed(w, j)'
    OBVIOUS
  <2>0. waiters[j] \in Nat
    BY <1>w, CountFacts
  <2>1. j \notin stopped /\ waiters[j] = 0
    BY <2>0 DEF ReportedAt, Records
  <2>2. Counting(j) = {}
    BY <2>1, <1>w, CountFacts
  <2> QED
    BY <1>r, <2>1, <2>2 DEF Counting, Owed
<1>6. announced[j] = 0 /\ noticed[j] = 0
  BY <1>1 DEF Records
<1>7. NoLostCompletion'
  BY <1>1, <1>2, <1>3, <1>4, <1>6 DEF GivenOnce, NoLostCompletion, Terminal
<1>8. ReportedOnce'
  BY <1>1, <1>2, <1>5, <1>6 DEF GivenOnce, ReportedOnce
<1> QED
  BY <1>7, <1>8 DEF GivenOnce

(* A teardown claims the live jobs of S, so it owes nobody their outcome.  *)
LEMMA TeardownGives ==
    ASSUME IInv, NEW S \in SUBSET Job, NEW throwing \in SUBSET Job, Torn(S, throwing),
           UNCHANGED <<noticed, told>>
    PROVE  GivenOnce'
<1> USE DEF IInv, Inv, TypeOK
<1>1. /\ \A j \in throwing : j \in S /\ ~Terminal(j)
      /\ stopped' = stopped \cup {j \in S : ~Terminal(j)}
      /\ \A j \in Job : ~Terminal(j) /\ Terminal(j)' => j \in stopped'
      /\ \A j \in Job : announced'[j] = announced[j]
                        \/ (~Terminal(j) /\ announced'[j] = announced[j] + 1)
  <2>1. /\ \A j \in throwing : j \in S /\ ~Terminal(j)
        /\ stopped' = stopped \cup {j \in S : ~Terminal(j)}
    BY DEF Torn
  <2>2. \A j \in Job : ~(j \in S /\ ~Terminal(j)) => status'[j] = status[j]
    BY <2>1 DEF Torn
  <2>3. \A j \in Job : announced'[j] = announced[j]
                       \/ (~Terminal(j) /\ announced'[j] = announced[j] + 1)
    <3>1. \A j \in Job : announced'[j] = IF j \in throwing /\ service' = "open"
                                         THEN announced[j] + 1 ELSE announced[j]
      BY DEF Torn
    <3> QED
      BY <2>1, <3>1
  <2> QED
    <3>1. \A j \in Job : ~Terminal(j) /\ Terminal(j)' => j \in S /\ ~Terminal(j)
      BY <2>2 DEF Terminal
    <3>2. \A j \in Job : j \in S /\ ~Terminal(j) => j \in stopped'
      BY <2>1
    <3> QED
      BY <2>1, <2>3, <3>1, <3>2
<1>2. \A w \in Waiter : /\ wait'[w].job = wait[w].job
                        /\ wait'[w].at = IF wait[w].job \in throwing /\ wait[w].at = "waiting"
                                         THEN "released" ELSE wait[w].at
  BY ReleasedFacts DEF Torn
<1>3. \A w \in Waiter, j \in Job :
        /\ Owed(w, j) => Owed(w, j)'
        /\ Owed(w, j)' => Owed(w, j) \/ ~Terminal(j)
  BY <1>1, <1>2 DEF Owed
<1>4. NoLostCompletion'
  BY <1>1, <1>3 DEF GivenOnce, NoLostCompletion
<1>5. ReportedOnce'
  BY <1>1, <1>3 DEF GivenOnce, ReportedOnce, Records
<1> QED
  BY <1>4, <1>5 DEF GivenOnce

(* Each outcome is given once, whatever step is taken.                     *)
LEMMA GivenStep ==
    ASSUME IInv, [Next]_vars PROVE GivenOnce'
<1> USE DEF IInv, Inv, TypeOK, GivenOnce, NoLostCompletion, ReportedOnce, Owed, Terminal,
            jobs, scopes, listeners
<1>1. ASSUME NEW j \in Job, NEW o \in Owner \cup {Unowned}, Start(j, o)
      PROVE  GivenOnce'
  BY <1>1 DEF Start, Outcome, Records, Waits
<1>2. ASSUME NEW o \in Owner, StartFails(o) \/ DropOwned(o) PROVE GivenOnce'
  BY <1>2 DEF StartFails, DropOwned
<1>3. ASSUME NEW j \in Job, Settle(j) PROVE GivenOnce'
  BY <1>3, SettleGives
<1>4. ASSUME NEW j \in Job, Read(j) PROVE GivenOnce'
  BY <1>4 DEF Read
<1>5. ASSUME NEW j \in Job, Kill(j) PROVE GivenOnce'
  BY <1>5 DEF Kill, Outcome, Records
<1>6. ASSUME NEW w \in Waiter, NEW j \in Job, Wait(w, j) PROVE GivenOnce'
  BY <1>6 DEF Wait, Waits, Records
<1>7. ASSUME NEW w \in Waiter, WaitTimeout(w) PROVE GivenOnce'
  BY <1>7 DEF WaitTimeout, TimedOut, Waits, Records
<1>8. ASSUME NEW w \in Waiter, WaitAbort(w) PROVE GivenOnce'
  <2>1. /\ UNCHANGED <<status, told, stopped, announced, noticed>>
        /\ wait[w].at = "waiting" /\ wait'[w].at = "rejected"
        /\ \A v \in Waiter \ {w} : wait'[v] = wait[v]
    BY <1>8 DEF WaitAbort, Abortable
  <2> QED
    BY <2>1
<1>9. ASSUME NEW w \in Waiter, WaitReturns(w) PROVE GivenOnce'
  BY <1>9, MarkerAssumption DEF WaitReturns, Idle
<1>10. ASSUME NEW o \in Owner, DisposeOwner(o) PROVE GivenOnce'
  <2> DEFINE owned == {j \in store : owner[j] = o}
  <2>1. PICK throwing \in SUBSET Job : Torn(owned, throwing)
    BY <1>10, TeardownFacts DEF DisposeOwner
  <2> QED
    BY <1>10, <2>1, TeardownGives DEF DisposeOwner
<1>11. CASE DisposeAll
  <2>1. PICK throwing \in SUBSET Job : Torn(store, throwing)
    BY <1>11, TeardownFacts DEF DisposeAll
  <2> QED
    BY <1>11, <2>1, TeardownGives DEF DisposeAll
<1>12. CASE DropAll \/ UNCHANGED vars
  BY <1>12 DEF DropAll, vars
<1> QED
  BY <1>1, <1>2, <1>3, <1>4, <1>5, <1>6, <1>7, <1>8, <1>9, <1>10, <1>11, <1>12 DEF Next

-----------------------------------------------------------------------------
(* The registry starts empty.                                              *)
LEMMA InitInv == Init => IInv
<1> SUFFICES ASSUME Init PROVE IInv
  OBVIOUS
<1>1. \A j \in Job : Counting(j) = {}
  BY MarkerAssumption DEF Init, Counting, Idle
<1>2. WaitersCounted
  BY <1>1, FS_EmptySet DEF WaitersCounted, Counting, Init
<1>3. Cardinality(Waiter) \in Nat
  BY FS_CardinalityType, WaiterAssumption
<1>4. TypeOK
  BY <1>3 DEF Init, TypeOK, Idle
<1>5. Records /\ Disposals /\ GivenOnce
  BY MarkerAssumption DEF Init, Records, Disposals, GivenOnce, NoLostCompletion, ReportedOnce,
     Terminal, Active, Outcome, Owed, Idle
<1>6. Waits /\ DisposalDrains
  BY DEF Init, Waits, DisposalDrains, Idle
<1> QED
  BY <1>2, <1>4, <1>5, <1>6 DEF IInv, Inv

(* The inductive invariant, from which the theorems below follow.          *)
THEOREM Invariance == Spec => []IInv
<1>1. IInv /\ [Next]_vars => IInv'
  <2> SUFFICES ASSUME IInv, [Next]_vars PROVE IInv'
    OBVIOUS
  <2>1. TypeButWaiters
    BY TypeStep DEF IInv, Inv
  <2>2. TypeOK'
    BY <2>1, CountedStep, CountType DEF TypeButWaiters, TypeOK
  <2> QED
    BY <2>1, <2>2, CountedStep, RecordsStep, WaitsStep, DisposalsStep, GivenStep DEF IInv, Inv
<1> QED
  BY InitInv, <1>1, PTL DEF Spec

(* For any jobs, owners and callers, the counts of live waits and the      *)
(* disposals are exact.                                                    *)
THEOREM CountsCorrect == Spec => []Inv
  BY Invariance, PTL DEF IInv

(* Each outcome reaches the model once: through a caller, a notice or the  *)
(* one who stopped the job, never through none and never twice.            *)
THEOREM GivenCorrect == Spec => []GivenOnce
  BY Invariance, PTL DEF IInv

(* What DropsOnlySettled asks of one step.                                 *)
Keeps == /\ \A j \in store \ store' : Terminal(j)
         /\ \A j \in Job : Terminal(j) => status'[j] = status[j]

LEMMA KeepsStep ==
    ASSUME IInv, [Next]_vars PROVE Keeps
<1> USE DEF IInv, Inv, TypeOK, Keeps, Terminal, jobs
<1>1. ASSUME NEW j \in Job, NEW o \in Owner \cup {Unowned}, Start(j, o) PROVE Keeps
  BY <1>1 DEF Start, Outcome
<1>2. ASSUME NEW j \in Job, Settle(j) PROVE Keeps
  BY <1>2 DEF Settle, MaySettle, Active, Outcome
<1>3. ASSUME NEW j \in Job, Read(j) \/ Kill(j) PROVE Keeps
  BY <1>3 DEF Read, Kill
<1>4. ASSUME NEW w \in Waiter, NEW j \in Job, Wait(w, j) PROVE Keeps
  BY <1>4 DEF Wait
<1>5. ASSUME NEW w \in Waiter, WaitTimeout(w) \/ WaitAbort(w) \/ WaitReturns(w)
      PROVE  Keeps
  BY <1>5 DEF WaitTimeout, WaitAbort, WaitReturns
<1>6. ASSUME NEW o \in Owner, DisposeOwner(o) PROVE Keeps
  <2> DEFINE owned == {j \in store : owner[j] = o}
  <2>1. PICK throwing \in SUBSET Job : Torn(owned, throwing)
    BY <1>6, TeardownFacts DEF DisposeOwner
  <2> QED
    BY <1>6, <2>1 DEF DisposeOwner, Torn
<1>7. ASSUME NEW o \in Owner, StartFails(o) \/ DropOwned(o) PROVE Keeps
  BY <1>7 DEF StartFails, DropOwned, AllSettled
<1>8. CASE DisposeAll
  <2>1. PICK throwing \in SUBSET Job : Torn(store, throwing)
    BY <1>8, TeardownFacts DEF DisposeAll
  <2> QED
    BY <1>8, <2>1 DEF DisposeAll, Torn
<1>9. CASE DropAll
  BY <1>9 DEF DropAll, AllSettled, Disposals
<1>10. CASE UNCHANGED vars
  BY <1>10 DEF vars
<1> QED
  BY <1>1, <1>2, <1>3, <1>4, <1>5, <1>6, <1>7, <1>8, <1>9, <1>10 DEF Next

(* Only settled records are dropped, and an outcome is never overwritten.  *)
THEOREM DropsCorrect == Spec => DropsOnlySettled
  BY Invariance, KeepsStep, PTL DEF Spec, DropsOnlySettled, Keeps
=============================================================================
