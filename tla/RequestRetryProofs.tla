------------------------- MODULE RequestRetryProofs -------------------------
(***************************************************************************)
(* What holds of the recovery of failed requests for every set of routes   *)
(* and every budget: the retries of a step are numbered without a gap and  *)
(* within the policy, the requests of a step stay within the two budgets,  *)
(* and a stopped step or plugin records nothing.  The inductive invariant  *)
(* adds what a recovery at each stage knows of its route, its retry and    *)
(* its plugin, that the log belongs to steps up to this one, and how the   *)
(* requests sent, the waits completed and the retries granted balance.     *)
(***************************************************************************)
EXTENDS RequestRetry, SequenceTheorems, FiniteSetTheorems, TLAPS

(* A wait reported complete, of the retry of route r that has number n.    *)
IsStarted(i, r, n) ==
    log[i].is = "started" /\ log[i].step = step /\ log[i].route = r /\ log[i].retry = n

(* Always mode alone asks the rest first; a wait has a policy, and its     *)
(* retry is the newest and not reported complete; a listener of a disposed *)
(* plugin is stale, and what ran at the disposal has ended when it is over.*)
Stage ==
    /\ recovery = "first" => route \in Always
    /\ recovery = "waiting" =>
          /\ route \notin Bare /\ Scheduled(step, route) # {}
          /\ \A i \in DOMAIN log : ~IsStarted(i, route, Cardinality(Scheduled(step, route)))
    /\ plugin # "live" => recovery # "captured"
    /\ plugin = "gone" => ~Active

(* The log is of the steps so far, and each group of retries has a newest. *)
Newest ==
    /\ \A i \in DOMAIN log : log[i].step <= step
    /\ \A s \in 1..MaxSteps, r \in Route : Scheduled(s, r) # {} =>
          \E i \in Scheduled(s, r) : \A j \in Scheduled(s, r) : j <= i

(* A request is paid by the step, a completed wait or a granted retry;     *)
(* what is paid and not sent is at most the decision to retry.             *)
Paid == granted + Cardinality(Started)

Budget ==
    /\ Paid <= sent /\ sent <= 1 + Paid
    /\ loop \in {"stream", "dispatch"} => sent = 1 + Paid
    /\ loop = "prepare" \/ decision = "retry" => sent = Paid
    /\ decision # "none" => loop = "decided"
    /\ granted <= MaxOverflowRetries
    /\ loop # "between" => granted <= overflow

IInv == TypeOK /\ RetriesNumbered /\ Stage /\ Newest /\ Budget

-----------------------------------------------------------------------------
(* The places of the log.                                                  *)
LEMMA LogFacts ==
    ASSUME TypeOK
    PROVE  /\ Len(log) \in Nat /\ DOMAIN log = 1..Len(log) /\ IsFiniteSet(DOMAIN log)
           /\ \A i \in DOMAIN log : log[i] \in Entry
           /\ \A s, r : /\ Scheduled(s, r) \subseteq DOMAIN log
                       /\ IsFiniteSet(Scheduled(s, r)) /\ Cardinality(Scheduled(s, r)) \in Nat
           /\ Started \subseteq DOMAIN log /\ IsFiniteSet(Started) /\ Cardinality(Started) \in Nat
           /\ Paid \in Nat
<1>1. Len(log) \in Nat /\ DOMAIN log = 1..Len(log) /\ \A i \in DOMAIN log : log[i] \in Entry
  BY LenProperties, ElementOfSeq DEF TypeOK
<1>2. IsFiniteSet(DOMAIN log)
  BY <1>1, FS_Interval
<1>3. ASSUME NEW s, NEW r
      PROVE  /\ Scheduled(s, r) \subseteq DOMAIN log
             /\ IsFiniteSet(Scheduled(s, r)) /\ Cardinality(Scheduled(s, r)) \in Nat
  <2>1. Scheduled(s, r) \subseteq DOMAIN log
    BY DEF Scheduled
  <2> QED
    BY <1>2, <2>1, FS_Subset, FS_CardinalityType
<1>4. Started \subseteq DOMAIN log
  BY DEF Started
<1>5. IsFiniteSet(Started) /\ Cardinality(Started) \in Nat
  BY <1>2, <1>4, FS_Subset, FS_CardinalityType
<1>6. granted \in Nat
  BY BoundsAssumption DEF TypeOK
<1> QED
  BY <1>1, <1>2, <1>3, <1>4, <1>5, <1>6 DEF Paid

(* An event is appended.                                                   *)
LEMMA AppendFacts ==
    ASSUME TypeOK, NEW e \in Entry, log' = Append(log, e)
    PROVE  LET n == Len(log) + 1
           IN  /\ n \in Nat /\ log' \in Seq(Entry)
               /\ DOMAIN log' = DOMAIN log \cup {n} /\ n \notin DOMAIN log
               /\ log'[n] = e
               /\ \A i \in DOMAIN log : i \in Nat /\ i < n /\ log'[i] = log[i]
<1>1. log \in Seq(Entry) /\ Len(log) \in Nat /\ DOMAIN log = 1..Len(log)
  BY LogFacts DEF TypeOK
<1>2. /\ log' \in Seq(Entry) /\ Len(log') = Len(log) + 1
      /\ \A i \in 1..Len(log) : log'[i] = log[i]
      /\ log'[Len(log) + 1] = e
  BY <1>1, AppendProperties
<1>3. DOMAIN log' = 1..(Len(log) + 1)
  BY <1>2, LenProperties
<1> QED
  BY <1>1, <1>2, <1>3

(* The newest retry of a group carries the number of retries scheduled.    *)
LEMMA CountFacts ==
    ASSUME IInv, NEW s \in 1..MaxSteps, NEW r \in Route
    PROVE  /\ priorPolicyRetry(s, r) = Cardinality(Scheduled(s, r))
           /\ Scheduled(s, r) # {} =>
                /\ Cardinality(Scheduled(s, r)) >= 1
                /\ \E m \in Scheduled(s, r) : log[m].retry = Cardinality(Scheduled(s, r))
           /\ \A i \in Scheduled(s, r) : log[i].retry <= Cardinality(Scheduled(s, r))
<1>1. TypeOK /\ RetriesNumbered /\ Newest
  BY DEF IInv
<1>2. /\ IsFiniteSet(Scheduled(s, r)) /\ Cardinality(Scheduled(s, r)) \in Nat
      /\ Scheduled(s, r) \subseteq Nat
  BY <1>1, LogFacts
<1>3. ASSUME NEW m \in Scheduled(s, r), \A j \in Scheduled(s, r) : j <= m
      PROVE  log[m].retry = Cardinality(Scheduled(s, r))
  <2>1. {j \in Scheduled(s, r) : j <= m} = Scheduled(s, r)
    BY <1>3
  <2> QED
    BY <1>1, <2>1 DEF RetriesNumbered
<1>4. ASSUME NEW i \in Scheduled(s, r)
      PROVE  log[i].retry <= Cardinality(Scheduled(s, r))
  <2>1. {j \in Scheduled(s, r) : j <= i} \in SUBSET Scheduled(s, r)
    OBVIOUS
  <2>2. Cardinality({j \in Scheduled(s, r) : j <= i}) <= Cardinality(Scheduled(s, r))
    BY <1>2, <2>1, FS_Subset
  <2> QED
    BY <1>1, <2>2 DEF RetriesNumbered
<1>5. CASE Scheduled(s, r) = {}
  <2>1. priorPolicyRetry(s, r) = 0
    BY <1>5 DEF priorPolicyRetry, Scheduled
  <2> QED
    BY <1>5, <2>1, FS_EmptySet
<1>6. CASE Scheduled(s, r) # {}
  <2>1. PICK m \in Scheduled(s, r) : \A j \in Scheduled(s, r) : j <= m
    BY <1>1, <1>6 DEF Newest
  <2> DEFINE k == CHOOSE i \in Scheduled(s, r) : \A j \in Scheduled(s, r) : j <= i
  <2>2. k \in Scheduled(s, r) /\ \A j \in Scheduled(s, r) : j <= k
    BY <2>1
  <2>3. priorPolicyRetry(s, r) = log[k].retry
    BY <1>6 DEF priorPolicyRetry, Scheduled
  <2>4. log[k].retry = Cardinality(Scheduled(s, r))
    BY <1>3, <2>2
  <2>5. Cardinality(Scheduled(s, r)) >= 1
    BY <1>2, <1>6, FS_EmptySet
  <2> QED
    BY <1>4, <2>2, <2>3, <2>4, <2>5
<1> QED
  BY <1>5, <1>6

(* A step that leaves the log alone.                                       *)
LEMMA LogKept ==
    ASSUME IInv, UNCHANGED <<log, step>>
    PROVE  /\ RetriesNumbered' /\ Newest'
           /\ Paid' = granted' + Cardinality(Started)
           /\ \A r \in Route : Scheduled(step, r)' = Scheduled(step, r)
<1>1. \A s, r : Scheduled(s, r)' = Scheduled(s, r)
  BY DEF Scheduled
<1>2. RetriesNumbered' /\ Newest'
  BY <1>1 DEF IInv, RetriesNumbered, Newest
<1>3. Started' = Started
  BY DEF Started
<1> QED
  BY <1>1, <1>2, <1>3 DEF Paid

(* A retry is scheduled: it is the newest of its group, and no wait of its *)
(* number was completed.                                                   *)
LEMMA ScheduledFacts ==
    ASSUME IInv, UNCHANGED <<step, route>>, route \notin Bare,
           log' = Record("scheduled", Cardinality(Scheduled(step, route)) + 1),
           route \in Normal => Cardinality(Scheduled(step, route)) < MaxRetries
    PROVE  /\ log' \in Seq(Entry) /\ RetriesNumbered' /\ Newest' /\ Paid' = granted' + Cardinality(Started)
           /\ Scheduled(step, route)' # {}
           /\ Cardinality(Scheduled(step, route)') = Cardinality(Scheduled(step, route)) + 1
           /\ \A i \in DOMAIN log' :
                 ~(/\ log'[i].is = "started" /\ log'[i].step = step /\ log'[i].route = route
                   /\ log'[i].retry = Cardinality(Scheduled(step, route)'))
<1> DEFINE n == Len(log) + 1
           k == Cardinality(Scheduled(step, route))
           e == [is |-> "scheduled", step |-> step, route |-> route, retry |-> k + 1]
<1>0. TypeOK /\ RetriesNumbered /\ Newest /\ step \in 1..MaxSteps /\ route \in Route
  BY DEF IInv, TypeOK
<1>1. k \in Nat /\ e \in Entry /\ log' = Append(log, e)
  BY <1>0, LogFacts DEF Entry, Record
<1>2. /\ n \in Nat /\ log' \in Seq(Entry)
      /\ DOMAIN log' = DOMAIN log \cup {n} /\ n \notin DOMAIN log
      /\ log'[n] = e
      /\ \A i \in DOMAIN log : i \in Nat /\ i < n /\ log'[i] = log[i]
  BY <1>0, <1>1, AppendFacts
<1> HIDE DEF n, k
<1>3. ASSUME NEW s, NEW r
      PROVE  /\ s = step /\ r = route => Scheduled(s, r)' = Scheduled(s, r) \cup {n}
             /\ ~(s = step /\ r = route) => Scheduled(s, r)' = Scheduled(s, r)
  <2>1. \A i : i \in Scheduled(s, r)' <=>
                i \in Scheduled(s, r) \/ (i = n /\ s = step /\ r = route)
    BY <1>2 DEF Scheduled
  <2> QED
    BY <2>1
<1>4. \A s, r : /\ Scheduled(s, r) \subseteq DOMAIN log
               /\ IsFiniteSet(Scheduled(s, r)) /\ Cardinality(Scheduled(s, r)) \in Nat
  BY <1>0, LogFacts
<1>5. ASSUME NEW s \in 1..MaxSteps, NEW r \in Route, NEW i \in Scheduled(s, r)
      PROVE  {j \in Scheduled(s, r)' : j <= i} = {j \in Scheduled(s, r) : j <= i} /\ log'[i] = log[i]
  <2>1. i \in Nat /\ i < n
    BY <1>2, <1>4
  <2> QED
    BY <1>2, <1>3, <1>4, <2>1
<1>6. ASSUME NEW s, NEW r, s = step, r = route
      PROVE  /\ Cardinality(Scheduled(s, r)') = k + 1
             /\ n \in Scheduled(s, r)' /\ \A j \in Scheduled(s, r)' : j <= n
             /\ {j \in Scheduled(s, r)' : j <= n} = Scheduled(s, r)'
  <2>1. Scheduled(s, r)' = Scheduled(s, r) \cup {n} /\ n \notin Scheduled(s, r)
    BY <1>2, <1>3, <1>4, <1>6
  <2>2. Cardinality(Scheduled(s, r)') = Cardinality(Scheduled(s, r)) + 1
    BY <1>4, <2>1, FS_AddElement
  <2>3. \A j \in Scheduled(s, r)' : j <= n
    BY <1>2, <1>4, <2>1
  <2> QED
    BY <1>6, <2>1, <2>2, <2>3 DEF k
<1>8. ASSUME NEW s \in 1..MaxSteps, NEW r \in Route, NEW i \in Scheduled(s, r)'
      PROVE  /\ log'[i].retry = Cardinality({j \in Scheduled(s, r)' : j <= i})
             /\ r \notin Bare /\ (r \in Normal => log'[i].retry <= MaxRetries)
  <2>1. CASE i \in Scheduled(s, r)
    <3>1. /\ log[i].retry = Cardinality({j \in Scheduled(s, r) : j <= i})
          /\ r \notin Bare /\ (r \in Normal => log[i].retry <= MaxRetries)
      BY <1>0, <2>1 DEF RetriesNumbered
    <3> QED
      BY <1>5, <2>1, <3>1
  <2>2. CASE i \notin Scheduled(s, r)
    <3>1. s = step /\ r = route /\ i = n /\ log'[i].retry = k + 1
      BY <1>2, <1>3, <2>2
    <3>2. r \in Normal => k + 1 <= MaxRetries
      BY <1>1, <3>1, BoundsAssumption DEF k
    <3>3. r \notin Bare
      BY <3>1
    <3> QED
      BY <1>1, <1>6, <3>1, <3>2, <3>3
  <2> QED
    BY <2>1, <2>2
<1>9. ASSUME NEW i \in DOMAIN log', log'[i].is = "started"
      PROVE  /\ i \in DOMAIN log /\ log'[i] = log[i]
             /\ \E j \in 1..i : log'[j] = [log'[i] EXCEPT !.is = "scheduled"]
             /\ \A j \in DOMAIN log' : log'[j] = log'[i] => j = i
  <2>1. i \in DOMAIN log /\ log'[i] = log[i]
    BY <1>2, <1>9
  <2>2. PICK j \in 1..i : log[j] = [log[i] EXCEPT !.is = "scheduled"]
    BY <1>0, <1>9, <2>1 DEF RetriesNumbered
  <2>3. j \in DOMAIN log
    BY <1>0, <2>1, LogFacts
  <2>4. \A m \in DOMAIN log : log[m] = log[i] => m = i
    BY <1>0, <1>9, <2>1 DEF RetriesNumbered
  <2>5. log'[n] # log'[i]
    BY <1>2, <1>9
  <2> QED
    BY <1>2, <2>1, <2>2, <2>3, <2>4, <2>5
<1>10. RetriesNumbered'
  BY <1>8, <1>9 DEF RetriesNumbered
<1>11. Newest'
  <2>1. \A i \in DOMAIN log' : log'[i].step <= step'
    BY <1>0, <1>2 DEF Newest
  <2>2. ASSUME NEW s \in 1..MaxSteps, NEW r \in Route, Scheduled(s, r)' # {}
        PROVE  \E i \in Scheduled(s, r)' : \A j \in Scheduled(s, r)' : j <= i
    <3>1. CASE s = step /\ r = route
      BY <1>6, <3>1
    <3>2. CASE ~(s = step /\ r = route)
      <4>1. Scheduled(s, r)' = Scheduled(s, r)
        BY <1>3, <3>2
      <4> QED
        BY <1>0, <2>2, <4>1 DEF Newest
    <3> QED
      BY <3>1, <3>2
  <2> QED
    BY <2>1, <2>2 DEF Newest
<1>12. Started' = Started
  BY <1>2 DEF Started
<1>13. ASSUME NEW i \in DOMAIN log', log'[i].is = "started", log'[i].step = step, log'[i].route = route
       PROVE  log'[i].retry # k + 1
  <2>1. i \in DOMAIN log /\ log'[i] = log[i] /\ log[i] \in Entry
    BY <1>0, <1>9, <1>13, LogFacts
  <2>2. PICK j \in 1..i : log[j] = [log[i] EXCEPT !.is = "scheduled"]
    BY <1>0, <1>13, <2>1 DEF RetriesNumbered
  <2>3. j \in Scheduled(step, route) /\ log[j].retry = log[i].retry
    <3>1. j \in DOMAIN log
      BY <1>0, <2>1, LogFacts
    <3> QED
      BY <1>13, <2>1, <2>2, <3>1 DEF Scheduled, Entry
  <2>4. log[j].retry <= k
    BY <1>0, <2>3, CountFacts DEF k
  <2> QED
    BY <1>1, <2>1, <2>3, <2>4 DEF Entry
<1> QED
  <2>0. PICK s \in 1..MaxSteps, r \in Route : s = step /\ r = route
    BY <1>0
  <2>1. Scheduled(step, route)' # {} /\ Cardinality(Scheduled(step, route)') = k + 1
    BY <1>6, <2>0
  <2>2. Paid' = granted' + Cardinality(Started)
    BY <1>12 DEF Paid
  <2> QED
    BY <1>2, <1>10, <1>11, <1>13, <2>1, <2>2 DEF k

(* A wait is reported complete, once.                                      *)
LEMMA StartedFacts ==
    ASSUME IInv, UNCHANGED step, recovery = "waiting",
           log' = Record("started", priorPolicyRetry(step, route))
    PROVE  /\ log' \in Seq(Entry) /\ RetriesNumbered' /\ Newest'
           /\ Paid' = granted' + (Cardinality(Started) + 1)
<1> DEFINE n == Len(log) + 1
           k == Cardinality(Scheduled(step, route))
           e == [is |-> "started", step |-> step, route |-> route, retry |-> k]
<1>0. TypeOK /\ RetriesNumbered /\ Newest /\ Stage /\ step \in 1..MaxSteps /\ route \in Route
  BY DEF IInv, TypeOK
<1>1. /\ priorPolicyRetry(step, route) = k /\ k >= 1
      /\ \E m \in Scheduled(step, route) : log[m].retry = k
  BY <1>0, CountFacts DEF Stage
<1>2. k \in Nat /\ e \in Entry /\ log' = Append(log, e)
  BY <1>0, <1>1, LogFacts DEF Entry, Record
<1>3. /\ n \in Nat /\ log' \in Seq(Entry)
      /\ DOMAIN log' = DOMAIN log \cup {n} /\ n \notin DOMAIN log
      /\ log'[n] = e
      /\ \A i \in DOMAIN log : i \in Nat /\ i < n /\ log'[i] = log[i]
  BY <1>0, <1>2, AppendFacts
<1>4. \A i \in DOMAIN log : ~IsStarted(i, route, k)
  BY <1>0 DEF Stage
<1> HIDE DEF n, k
<1>5. ASSUME NEW s, NEW r PROVE Scheduled(s, r)' = Scheduled(s, r)
  BY <1>3 DEF Scheduled
<1>6. \A s, r : \A i \in Scheduled(s, r) : i \in DOMAIN log /\ log'[i] = log[i]
  BY <1>3 DEF Scheduled
<1>7. \A s \in 1..MaxSteps, r \in Route : \A i \in Scheduled(s, r)' :
        /\ log'[i].retry = Cardinality({j \in Scheduled(s, r)' : j <= i})
        /\ r \notin Bare /\ (r \in Normal => log'[i].retry <= MaxRetries)
  BY <1>0, <1>5, <1>6 DEF RetriesNumbered
<1>8. ASSUME NEW i \in DOMAIN log, log[i].is = "started"
      PROVE  /\ \E j \in 1..i : log'[j] = [log'[i] EXCEPT !.is = "scheduled"]
             /\ \A j \in DOMAIN log' : log'[j] = log'[i] => j = i
  <2>1. PICK j \in 1..i : log[j] = [log[i] EXCEPT !.is = "scheduled"]
    BY <1>0, <1>8 DEF RetriesNumbered
  <2>2. j \in DOMAIN log
    BY <1>0, <1>8, LogFacts
  <2>3. \A m \in DOMAIN log : log[m] = log[i] => m = i
    BY <1>0, <1>8 DEF RetriesNumbered
  <2>4. log'[n] # log'[i]
    BY <1>3, <1>4 DEF IsStarted
  <2> QED
    BY <1>3, <2>1, <2>2, <2>3, <2>4
<1>9. /\ \E j \in 1..n : log'[j] = [log'[n] EXCEPT !.is = "scheduled"]
      /\ \A j \in DOMAIN log' : log'[j] = log'[n] => j = n
  <2>1. PICK m \in Scheduled(step, route) : log[m].retry = k
    BY <1>1
  <2>2. m \in DOMAIN log /\ log'[m] = log[m] /\ log[m] \in Entry
    BY <1>0, <1>6, <2>1, LogFacts
  <2>3. log[m] = [e EXCEPT !.is = "scheduled"]
    BY <2>1, <2>2 DEF Scheduled, Entry
  <2>4. m \in 1..n
    BY <1>0, <1>3, <2>2, LogFacts
  <2>5. \A j \in DOMAIN log : log'[j] # log'[n]
    BY <1>3, <1>4 DEF IsStarted
  <2>6. \A j \in DOMAIN log' : log'[j] = log'[n] => j = n
    BY <1>3, <2>5
  <2>7. log'[m] = [log'[n] EXCEPT !.is = "scheduled"]
    BY <1>3, <2>2, <2>3
  <2> QED
    BY <2>4, <2>6, <2>7
<1>10. RetriesNumbered'
  <2>1. ASSUME NEW i \in DOMAIN log', log'[i].is = "started"
        PROVE  /\ \E j \in 1..i : log'[j] = [log'[i] EXCEPT !.is = "scheduled"]
               /\ \A j \in DOMAIN log' : log'[j] = log'[i] => j = i
    <3>1. CASE i = n
      BY <1>9, <3>1
    <3>2. CASE i \in DOMAIN log
      <4>1. log[i].is = "started"
        BY <1>3, <2>1, <3>2
      <4> QED
        BY <1>8, <3>2, <4>1
    <3> QED
      BY <1>3, <3>1, <3>2
  <2> QED
    BY <1>7, <2>1 DEF RetriesNumbered
<1>11. Newest'
  <2>1. \A i \in DOMAIN log' : log'[i].step <= step'
    BY <1>0, <1>3 DEF Newest
  <2> QED
    BY <1>0, <1>5, <2>1 DEF Newest
<1>12. Started' = Started \cup {n} /\ n \notin Started
  BY <1>3 DEF Started
<1>13. Cardinality(Started') = Cardinality(Started) + 1
  BY <1>0, <1>12, LogFacts, FS_AddElement
<1>14. Paid' = granted' + (Cardinality(Started) + 1)
  BY <1>13 DEF Paid
<1> QED
  BY <1>3, <1>10, <1>11, <1>14

(* Steps that schedule and complete nothing keep what a stage knows.       *)
LEMMA StageKept ==
    ASSUME IInv, UNCHANGED <<log, step>>,
           recovery' \in {"first", "waiting"} =>
              \/ recovery' = recovery /\ route' = route
              \/ recovery' = "first" /\ route' \in Always,
           plugin' # "live" => recovery' # "captured",
           plugin' = "gone" => recovery' \notin {"tail", "first", "waiting"}
    PROVE  Stage'
<1>1. Stage
  BY DEF IInv
<1>2. recovery' = "first" => route' \in Always
  BY <1>1 DEF Stage
<1>3. ASSUME recovery' = "waiting"
      PROVE  /\ route' \notin Bare /\ Scheduled(step, route)' # {}
             /\ \A i \in DOMAIN log' : ~IsStarted(i, route, Cardinality(Scheduled(step, route)))'
  <2>1. recovery = "waiting" /\ route' = route
    BY <1>3
  <2>2. Scheduled(step, route)' = Scheduled(step, route)
    BY <2>1 DEF Scheduled
  <2> QED
    BY <1>1, <2>1, <2>2 DEF Stage, IsStarted
<1> QED
  BY <1>2, <1>3 DEF Stage, Active

(* The loop's own steps. *)
LEMMA LoopSteps ==
    ASSUME IInv, Send \/ Answer \/ Fail \/ Throw \/ Decided \/ Idle \/ Abort
    PROVE  IInv'
<1>0. UNCHANGED <<log, step>> /\ plugin' = plugin
  BY DEF Send, Answer, Fail, Throw, Decided, Idle, Abort
<1>1. /\ RetriesNumbered' /\ Newest' /\ Paid' = granted' + Cardinality(Started)
      /\ Paid = granted + Cardinality(Started) /\ Cardinality(Started) \in Nat
  BY <1>0, LogKept, LogFacts DEF IInv, Paid
<1>2. TypeOK'
  <2> USE DEF IInv, TypeOK, Stages, Decisions, Codes
  <2>0. /\ MaxRequests \in Nat /\ MaxOverflowRetries \in Nat /\ 0 \in 0..MaxOverflowRetries
        /\ step' \in 1..MaxSteps /\ log' \in Seq(Entry)
    BY <1>0, BoundsAssumption
  <2>1. CASE Send
    BY <2>0, <2>1 DEF Send
  <2>2. CASE Answer \/ Throw
    BY <2>0, <2>2 DEF Answer, Throw
  <2>3. CASE Fail
    BY <2>0, <2>3 DEF Fail
  <2>4. CASE Decided
    BY <2>0, <2>4 DEF Decided
  <2>5. CASE Idle \/ Abort
    BY <2>0, <2>5 DEF Idle, Abort
  <2> QED
    BY <2>1, <2>2, <2>3, <2>4, <2>5
<1>3. Stage'
  <2>1. CASE recovery' = recovery /\ (recovery = "none" \/ route' = route)
    BY <1>0, <2>1, StageKept DEF IInv, Stage, Active
  <2>2. CASE Fail
    BY <1>0, <2>2, StageKept DEF Fail
  <2> QED
    BY <2>1, <2>2 DEF Send, Answer, Throw, Decided, Idle, Abort, IInv, TypeOK
<1>4. Budget'
  <2>1. CASE Send
    BY <1>1, <2>1, BoundsAssumption DEF Send, IInv, Budget, TypeOK
  <2>2. CASE Answer \/ Throw
    BY <1>1, <2>2, BoundsAssumption DEF Answer, Throw, IInv, Budget, TypeOK
  <2>3. CASE Fail
    BY <1>1, <2>3, BoundsAssumption DEF Fail, IInv, Budget, TypeOK
  <2>4. CASE Decided
    BY <1>1, <2>4, BoundsAssumption DEF Decided, IInv, Budget, TypeOK
  <2>5. CASE Idle \/ Abort
    BY <1>1, <2>5, BoundsAssumption DEF Idle, Abort, IInv, Budget, TypeOK
  <2> QED
    BY <2>1, <2>2, <2>3, <2>4, <2>5
<1> QED
  BY <1>1, <1>2, <1>3, <1>4 DEF IInv

LEMMA NextStepStep ==
    ASSUME IInv, NextStep
    PROVE  IInv'
<1>1. \A s, r : Scheduled(s, r)' = Scheduled(s, r)
  BY DEF NextStep, Scheduled
<1>2. RetriesNumbered' /\ Newest'
  <2>1. \A i \in DOMAIN log : log[i].step <= step /\ log[i] \in Entry
    BY LogFacts DEF IInv, Newest
  <2>2. \A i \in DOMAIN log' : log'[i].step <= step'
    BY <2>1, BoundsAssumption DEF NextStep, IInv, TypeOK, Entry
  <2>3. log' = log
    BY DEF NextStep
  <2> QED
    BY <1>1, <2>2, <2>3 DEF IInv, RetriesNumbered, Newest
<1>3. Started' = {}
  <2>1. \A i \in DOMAIN log : log[i].step <= step /\ log[i] \in Entry
    BY LogFacts DEF IInv, Newest
  <2> QED
    BY <2>1, BoundsAssumption DEF NextStep, Started, IInv, TypeOK, Entry
<1>4. Paid' = 0
  BY <1>3, FS_EmptySet DEF NextStep, Paid
<1>5. TypeOK'
  BY BoundsAssumption DEF NextStep, IInv, TypeOK
<1>6. Stage'
  BY DEF NextStep, IInv, TypeOK, Stage, Active
<1>7. Budget'
  BY <1>4, BoundsAssumption DEF NextStep, IInv, TypeOK, Budget
<1> QED
  BY <1>2, <1>5, <1>6, <1>7 DEF IInv

(* recover() returns or hands on without an event.                         *)
LEMMA Handed ==
    ASSUME IInv, loop = "dispatch", UNCHANGED <<log, step, route, code, late, sent, aborted, plugin>>,
           \/ \E d \in Decisions : /\ decision' = d /\ loop' = "decided" /\ recovery' = "none"
                                   /\ d = "retry" => granted' = granted + 1
           \/ /\ recovery' \in {"tail", "first"} /\ UNCHANGED <<loop, decision>>
              /\ plugin # "gone" /\ (recovery' = "first" => route \in Always)
              /\ granted' = granted,
           \/ overflow' = overflow /\ granted' = granted
           \/ overflow' = overflow + 1 /\ granted' = granted + 1 /\ overflow < MaxOverflowRetries
    PROVE  IInv'
<1>1. /\ RetriesNumbered' /\ Newest' /\ Paid' = granted' + Cardinality(Started)
      /\ Paid = granted + Cardinality(Started) /\ Cardinality(Started) \in Nat
  BY LogKept, LogFacts DEF IInv, Paid
<1>2. /\ overflow \in Nat /\ granted \in Nat /\ sent \in Nat /\ MaxOverflowRetries \in Nat
      /\ MaxRequests \in Nat
      /\ sent = 1 + Paid /\ granted <= MaxOverflowRetries /\ granted <= overflow
      /\ sent <= MaxRequests /\ overflow <= MaxOverflowRetries
  BY BoundsAssumption DEF IInv, TypeOK, Budget
<1>3. Budget'
  BY <1>1, <1>2 DEF IInv, Budget
<1>4. TypeOK'
  <2>1. overflow' \in 0..MaxOverflowRetries /\ granted' \in 0..MaxRequests
    BY <1>1, <1>2
  <2>2. recovery' \in Stages /\ (recovery' # "none" <=> loop' = "dispatch") /\ decision' \in Decisions
    BY DEF Stages, IInv, TypeOK
  <2> QED
    BY <2>1, <2>2 DEF IInv, TypeOK
<1>5. Stage'
  BY StageKept
<1> QED
  BY <1>1, <1>3, <1>4, <1>5 DEF IInv

LEMMA BackoffStep ==
    ASSUME IInv, loop = "dispatch", backoff, route \notin Bare, recovery # "stale", plugin # "gone",
           UNCHANGED <<step, route, code, late, sent, aborted, overflow, granted, plugin>>
    PROVE  IInv'
<1> DEFINE k == Cardinality(Scheduled(step, route))
<1>0. step \in 1..MaxSteps /\ route \in Route
  BY DEF IInv, TypeOK
<1>1. priorPolicyRetry(step, route) = k /\ k \in Nat
  BY <1>0, CountFacts, LogFacts DEF IInv
<1>2. CASE route \in Normal /\ (k >= MaxRetries \/ late)
  BY <1>1, <1>2, Handed DEF backoff, Await
<1>3. CASE ~(route \in Normal /\ (k >= MaxRetries \/ late)) /\ Stopped
  BY <1>1, <1>3, Handed DEF backoff, Return, Decisions
<1>4. CASE ~(route \in Normal /\ (k >= MaxRetries \/ late)) /\ ~Stopped
  <2>1. /\ log' = Record("scheduled", k + 1) /\ recovery' = "waiting"
        /\ UNCHANGED <<loop, decision>> /\ plugin = "live"
    BY <1>1, <1>4 DEF backoff, Stopped
  <2>2. route \in Normal => k < MaxRetries
    BY <1>1, <1>4, BoundsAssumption
  <2>3. /\ log' \in Seq(Entry) /\ RetriesNumbered' /\ Newest' /\ Paid' = granted' + Cardinality(Started)
        /\ Scheduled(step, route)' # {}
        /\ \A i \in DOMAIN log' :
              ~(/\ log'[i].is = "started" /\ log'[i].step = step /\ log'[i].route = route
                /\ log'[i].retry = Cardinality(Scheduled(step, route)'))
    BY <2>1, <2>2, ScheduledFacts
  <2>4. TypeOK'
    BY <2>1, <2>3 DEF IInv, TypeOK, Stages
  <2>5. Stage'
    BY <2>1, <2>3 DEF Stage, IsStarted, Active
  <2>6. Budget'
    BY <2>1, <2>3 DEF IInv, Budget, Paid
  <2> QED
    BY <2>3, <2>4, <2>5, <2>6 DEF IInv
<1> QED
  BY <1>2, <1>3, <1>4

(* A recovery runs while the loop dispatches the failure, and one that     *)
(* runs has a plugin that is not gone.                                     *)
LEMMA Recovering ==
    ASSUME IInv, recovery # "none"
    PROVE  /\ loop = "dispatch"
           /\ recovery \in {"captured", "tail", "first", "waiting"} => plugin # "gone"
           /\ recovery \in {"first", "waiting"} => route \notin Bare
  BY RouteAssumption DEF IInv, TypeOK, Stage, Active

LEMMA RecoverSteps ==
    ASSUME IInv, Recover
    PROVE  IInv'
<1>1. CASE Enter
  <2>0. loop = "dispatch" /\ UNCHANGED <<step, route, code, late, sent, aborted, overflow, granted, plugin>>
    BY <1>1, Recovering DEF Enter
  <2>1. CASE \E d \in Decisions : d # "retry" /\ Return(d)
    BY <2>0, <2>1, Handed DEF Return
  <2>2. CASE recovery = "captured" /\ \/ Await("tail")
                                      \/ Await("first") /\ route \in Always
    BY <2>0, <2>2, Recovering, Handed DEF Await
  <2>3. CASE recovery = "captured" /\ route \notin Bare /\ backoff
    BY <2>0, <2>3, Recovering, BackoffStep
  <2> QED
    BY <1>1, <2>1, <2>2, <2>3 DEF Enter, Decisions
<1>2. CASE Compact
  <2>1. loop = "dispatch"
    BY <1>2, Recovering DEF Compact, Below
  <2> QED
    BY <1>2, <2>1, Handed DEF Compact, Return, Decisions
<1>3. CASE Downstream
  <2>0. loop = "dispatch" /\ UNCHANGED <<step, route, code, late, sent, aborted, overflow, granted, plugin>>
    BY <1>3, Recovering DEF Downstream, Below
  <2>1. CASE \E d \in Decisions : d # "retry" /\ Return(d)
    BY <2>0, <2>1, Handed DEF Return
  <2>2. CASE recovery = "first" /\ backoff
    BY <2>0, <2>2, Recovering, BackoffStep
  <2> QED
    BY <1>3, <2>1, <2>2 DEF Downstream, Decisions
<1>4. CASE TimerFires
  <2>0. /\ recovery = "waiting" /\ loop = "dispatch"
        /\ log' = Record("started", priorPolicyRetry(step, route))
        /\ decision' = "retry" /\ loop' = "decided" /\ recovery' = "none"
        /\ UNCHANGED <<step, route, code, late, sent, aborted, overflow, granted, plugin>>
    BY <1>4, Recovering DEF TimerFires
  <2>1. /\ log' \in Seq(Entry) /\ RetriesNumbered' /\ Newest'
        /\ Paid' = granted' + (Cardinality(Started) + 1)
    BY <2>0, StartedFacts
  <2>2. TypeOK'
    BY <2>0, <2>1 DEF IInv, TypeOK, Stages, Decisions
  <2>3. Stage'
    BY <2>0 DEF IInv, Stage, Active
  <2>4. Budget'
    <3>1. Cardinality(Started) \in Nat /\ granted \in Nat /\ sent \in Nat /\ sent = 1 + Paid
      BY <2>0, LogFacts, BoundsAssumption DEF IInv, TypeOK, Budget
    <3>2. sent' = Paid'
      BY <2>0, <2>1, <3>1 DEF Paid
    <3> QED
      BY <2>0, <2>1, <3>1, <3>2 DEF IInv, Budget
  <2> QED
    BY <2>1, <2>2, <2>3, <2>4 DEF IInv
<1>5. CASE DelayAborted
  <2>1. loop = "dispatch"
    BY <1>5, Recovering DEF DelayAborted
  <2> QED
    BY <1>5, <2>1, Handed DEF DelayAborted, Return, Decisions
<1> QED
  BY <1>1, <1>2, <1>3, <1>4, <1>5 DEF Recover

LEMMA PluginSteps ==
    ASSUME IInv, Dispose \/ Disposed \/ Load \/ UNCHANGED vars
    PROVE  IInv'
<1>0. UNCHANGED <<log, step, route, loop, sent, decision, granted, overflow>>
  BY DEF Dispose, Disposed, Load, vars
<1>1. /\ RetriesNumbered' /\ Newest' /\ Paid' = granted' + Cardinality(Started)
      /\ Paid = granted + Cardinality(Started)
  BY <1>0, LogKept DEF Paid
<1>2. TypeOK'
  BY DEF Dispose, Disposed, Load, vars, IInv, TypeOK, Stages
<1>3. Stage'
  <2>1. \/ recovery' = recovery /\ route' = route
        \/ recovery' = "stale"
    BY <1>0 DEF Dispose, Disposed, Load, vars
  <2>2. plugin' # "live" => recovery' # "captured"
    BY DEF Dispose, Disposed, Load, vars, IInv, Stage
  <2>3. plugin' = "gone" => recovery' \notin {"tail", "first", "waiting"}
    BY DEF Dispose, Disposed, Load, vars, IInv, Stage, Active
  <2> QED
    BY <1>0, <2>1, <2>2, <2>3, StageKept
<1>4. Budget'
  BY <1>0, <1>1 DEF IInv, Budget
<1> QED
  BY <1>1, <1>2, <1>3, <1>4 DEF IInv

LEMMA InitInv == Init => IInv
<1> SUFFICES ASSUME Init PROVE IInv
  OBVIOUS
<1>1. DOMAIN log = {} /\ log \in Seq(Entry)
  BY DEF Init
<1>2. Paid = 0
  BY <1>1, FS_EmptySet DEF Init, Paid, Started
<1>3. TypeOK
  <2>1. /\ 1 \in 1..MaxSteps /\ 0 \in 0..MaxRequests /\ 0 \in 0..MaxOverflowRetries
    BY BoundsAssumption
  <2> QED
    BY <1>1, <2>1 DEF Init, TypeOK, Stages, Decisions, Codes
<1>4. RetriesNumbered /\ Newest
  BY <1>1 DEF RetriesNumbered, Newest, Scheduled
<1>5. Stage /\ Budget
  BY <1>2, BoundsAssumption DEF Init, Stage, Active, Budget
<1> QED
  BY <1>3, <1>4, <1>5 DEF IInv

LEMMA Step == IInv /\ [Next]_vars => IInv'
  BY LoopSteps, NextStepStep, RecoverSteps, PluginSteps DEF Next

THEOREM Invariance == Spec => []IInv
BY InitInv, Step, PTL DEF Spec

(* The retries of one step under one provider and policy count 1, 2, ...   *)
(* up to the policy's limit, and a wait is completed once, after it was    *)
(* scheduled.                                                              *)
THEOREM NumbersCorrect == Spec => []Inv
<1>1. IInv => Inv
  BY DEF IInv, Inv
<1> QED
  BY <1>1, Invariance, PTL

(* The requests of a step: one, one more for each completed wait and each  *)
(* retry the compaction granted; the compaction grants no more than its    *)
(* budget, and the completed waits of the bounded policies are no more     *)
(* than these have retries.                                                *)
LEMMA WithinBudget ==
    ASSUME IInv
    PROVE  RequestsBounded
<1> DEFINE W == {i \in Started : log[i].route \notin Always}
           T == Normal \X (1..MaxRetries)
           f == [i \in W |-> <<log[i].route, log[i].retry>>]
<1>0. TypeOK /\ RetriesNumbered /\ Budget /\ step \in 1..MaxSteps /\ MaxRetries \in Nat
  BY BoundsAssumption DEF IInv, TypeOK
<1>1. ASSUME NEW i \in W
      PROVE  /\ i \in DOMAIN log /\ log[i].is = "started" /\ log[i].step = step /\ log[i] \in Entry
             /\ log[i].route \in Normal /\ log[i].retry \in 1..MaxRetries
  <2>1. i \in DOMAIN log /\ log[i].is = "started" /\ log[i].step = step /\ log[i] \in Entry
    BY <1>0, LogFacts DEF Started
  <2>2. PICK j \in 1..i : log[j] = [log[i] EXCEPT !.is = "scheduled"]
    BY <1>0, <2>1 DEF RetriesNumbered
  <2>3. j \in DOMAIN log
    BY <1>0, <2>1, LogFacts
  <2>4. j \in Scheduled(step, log[i].route) /\ log[j].retry = log[i].retry /\ log[i].route \in Route
    BY <2>1, <2>2, <2>3 DEF Scheduled, Entry
  <2>5. log[i].route \notin Bare
    BY <1>0, <2>4 DEF RetriesNumbered
  <2>6. log[i].route \in Normal
    BY <2>4, <2>5 DEF Normal
  <2>7. log[j].retry <= MaxRetries
    BY <1>0, <2>4, <2>6 DEF RetriesNumbered
  <2> QED
    BY <1>0, <2>1, <2>4, <2>6, <2>7 DEF Entry
<1>2. ASSUME NEW i \in W, NEW j \in W, f[i] = f[j] PROVE i = j
  <2>1. log[i] = log[j]
    BY <1>1, <1>2 DEF Entry
  <2> QED
    BY <1>0, <1>1, <2>1 DEF RetriesNumbered
<1>3. f \in Injection(W, T)
  BY <1>1, <1>2 DEF Injection, IsInjective
<1>4. IsFiniteSet(Normal) /\ IsFiniteSet(1..MaxRetries) /\ Cardinality(1..MaxRetries) = MaxRetries
  <2>1. Normal \in SUBSET Route
    BY DEF Normal
  <2> QED
    BY <1>0, <2>1, RouteAssumption, FS_Subset, FS_Interval
<1>5. IsFiniteSet(T) /\ Cardinality(T) = Cardinality(Normal) * MaxRetries
  BY <1>4, FS_Product
<1>6. Cardinality(W) <= Cardinality(T)
  BY <1>3, <1>5, FS_Injection
<1>7. Cardinality(Normal) \in Nat /\ Cardinality(Normal) * MaxRetries = MaxRetries * Cardinality(Normal)
  BY <1>0, <1>4, FS_CardinalityType
<1>8. Cardinality({i \in Started : log[i].route \notin Always}) <= MaxRetries * Cardinality(Normal)
  BY <1>5, <1>6, <1>7
<1>9. sent <= 1 + granted + Cardinality(Started) /\ granted <= MaxOverflowRetries
  BY <1>0, LogFacts, BoundsAssumption DEF Budget, Paid, TypeOK
<1> QED
  BY <1>8, <1>9 DEF RequestsBounded

THEOREM BudgetCorrect == Spec => []RequestsBounded
BY Invariance, WithinBudget, PTL

(* Once the step is aborted nothing is recorded, granted or sent for it,   *)
(* a plugin that is being disposed records nothing, and one that is gone   *)
(* has no recovery left.                                                   *)
LEMMA QuietStep ==
    ASSUME IInv, [Next]_vars
    PROVE  /\ aborted => UNCHANGED <<log, granted>> /\ sent' <= sent
           /\ plugin # "live" => UNCHANGED log
<1>0. sent \in Nat
  BY BoundsAssumption DEF IInv, TypeOK
<1>1. CASE Send \/ Answer \/ Fail \/ Throw \/ Decided \/ NextStep \/ Idle \/ Abort
  BY <1>0, <1>1 DEF Send, Answer, Fail, Throw, Decided, NextStep, Idle, Abort
<1>2. ASSUME backoff, UNCHANGED <<sent, granted>>
      PROVE  (aborted \/ plugin # "live") => UNCHANGED <<log, granted, sent>>
  BY <1>2 DEF backoff, Await, Return, Stopped
<1>3. CASE Enter
  BY <1>0, <1>2, <1>3 DEF Enter, Await, Return
<1>4. CASE Downstream
  BY <1>0, <1>2, <1>4 DEF Downstream, Return
<1>5. CASE Compact \/ TimerFires \/ DelayAborted
  BY <1>0, <1>5 DEF Compact, TimerFires, DelayAborted, Return, Stopped
<1>6. CASE Dispose \/ Disposed \/ Load \/ UNCHANGED vars
  BY <1>0, <1>6 DEF Dispose, Disposed, Load, vars
<1> QED
  BY <1>1, <1>3, <1>4, <1>5, <1>6 DEF Next, Recover

THEOREM StopCorrect == Spec => QuietAfterStop
<1>1. IInv => (plugin = "gone" => ~Active)
  BY DEF IInv, Stage
<1>2. IInv /\ [Next]_vars =>
        [/\ aborted => UNCHANGED <<log, granted>> /\ sent' <= sent
         /\ plugin # "live" => UNCHANGED log]_vars
  BY QuietStep
<1> QED
  BY <1>1, <1>2, Invariance, PTL DEF Spec, QuietAfterStop
=============================================================================
