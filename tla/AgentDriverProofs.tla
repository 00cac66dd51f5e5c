------------------------- MODULE AgentDriverProofs --------------------------
(***************************************************************************)
(* What holds of one agent for every set of messages.  The inductive       *)
(* invariant adds to Inv who serves each waking message that nobody left   *)
(* behind on purpose: a driver that will still look at the queue, the send *)
(* that is about to wake one, or a latch that is replayed when the current *)
(* activity ends.                                                          *)
(***************************************************************************)
EXTENDS AgentDriver, SequenceTheorems, TLAPS

(* A driver is somewhere in its code just when the phase is running, a     *)
(* turn publishes under no open send, only a proposed or an opening step   *)
(* holds claimed messages, the prompt being claimed is still queued, and a *)
(* resolved activity is idle.                                              *)
Links ==
    /\ pc = "none" <=> phase # "running"
    /\ pc \in Publishing => delivery = "none"
    /\ pc \notin {"preStep", "claimPrompt", "opening"} => claimed = {}
    /\ pc = "claimPrompt" => nextTurn # <<>>
    /\ settled => phase = "idle"

(* The queued waking messages nobody has an excuse for.                    *)
Owed == (Pending \cap waking) \ (parked \cup late)

(* A live driver that has not looked at the queue for the last time ...    *)
Looking == pc \notin {"none", "stopped"} /\ aborted = "no"

(* ... or a send or a retirement whose wake is still to come, or a latch   *)
(* that maintenance or an aborted driver will replay.                      *)
Latched ==
    \/ phase = "idle" /\ (delivery # "none" \/ unwinding = "replay")
    \/ /\ phase = "maintenance" /\ aborted # "disposed"
       /\ wakeRequested \/ delivery # "none" \/ unwinding = "replay"
    \/ phase = "running" /\ aborted = "user" /\ (wakeRequested \/ delivery = "wakeAfterAbort")

WakesServed == Owed = {} \/ Looking \/ Latched

IInv == TypeOK /\ MessagesAccounted /\ Links /\ WakesServed

-----------------------------------------------------------------------------
(* A queue that holds each of its messages once.                           *)
Once(q) == \A i, j \in DOMAIN q : q[i] = q[j] => i = j

LEMMA QueueTypes ==
    ASSUME NEW q \in Seq(Msg)
    PROVE  /\ Len(q) \in Nat /\ DOMAIN q = 1..Len(q)
           /\ \A i \in 1..Len(q) : q[i] \in Msg
           /\ ToSet(q) \subseteq Msg
<1>1. Len(q) \in Nat /\ DOMAIN q = 1..Len(q) /\ \A i \in 1..Len(q) : q[i] \in Msg
  BY LenProperties, ElementOfSeq
<1>2. QED
  BY <1>1 DEF ToSet

(* The empty queue holds nothing.                                          *)
LEMMA EmptyQueue == <<>> \in Seq(Msg) /\ Once(<<>>) /\ ToSet(<<>>) = {}
<1>1. <<>> \in Seq(Msg) /\ DOMAIN <<>> = {}
  BY EmptySeq
<1>2. QED
  BY <1>1 DEF Once, ToSet

(* A new message joins a queue.                                            *)
LEMMA Joins ==
    ASSUME NEW q \in Seq(Msg), NEW m \in Msg, Once(q), m \notin ToSet(q)
    PROVE  /\ Append(q, m) \in Seq(Msg)
           /\ Once(Append(q, m))
           /\ ToSet(Append(q, m)) = ToSet(q) \cup {m}
<1> DEFINE a == Append(q, m)
<1>1. Len(q) \in Nat /\ DOMAIN q = 1..Len(q)
  BY QueueTypes
<1>2. /\ a \in Seq(Msg) /\ DOMAIN a = 1..(Len(q) + 1)
      /\ \A i \in 1..Len(q) : a[i] = q[i]
      /\ a[Len(q) + 1] = m
  BY <1>1, AppendProperties
<1>3. \A i \in 1..Len(q) : q[i] # m
  BY <1>1 DEF ToSet
<1>4. Once(a)
  BY <1>1, <1>2, <1>3 DEF Once
<1>5. ToSet(a) = ToSet(q) \cup {m}
  <2>1. ASSUME NEW x \in ToSet(a) PROVE x \in ToSet(q) \cup {m}
    BY <1>1, <1>2 DEF ToSet
  <2>2. ASSUME NEW x \in ToSet(q) \cup {m} PROVE x \in ToSet(a)
    BY <1>1, <1>2 DEF ToSet
  <2>3. QED
    BY <2>1, <2>2
<1>6. QED
  BY <1>2, <1>4, <1>5

(* The message at a position leaves a queue.                               *)
LEMMA Leaves ==
    ASSUME NEW q \in Seq(Msg), NEW i \in DOMAIN q, Once(q)
    PROVE  /\ RemoveAt(q, i) \in Seq(Msg)
           /\ Once(RemoveAt(q, i))
           /\ ToSet(RemoveAt(q, i)) = ToSet(q) \ {q[i]}
<1> DEFINE r == RemoveAt(q, i)
<1>1. PICK n \in Nat : n = Len(q) /\ DOMAIN q = 1..n /\ i \in 1..n
  BY QueueTypes
<1>2. /\ SubSeq(q, 1, i - 1) \in Seq(Msg)
      /\ Len(SubSeq(q, 1, i - 1)) = i - 1
      /\ \A j \in 1..(i - 1) : SubSeq(q, 1, i - 1)[j] = q[j]
  BY <1>1, SubSeqProperties, 1 \in Int, i - 1 \in Int
<1>3. /\ SubSeq(q, i + 1, n) \in Seq(Msg)
      /\ Len(SubSeq(q, i + 1, n)) = n - i
      /\ \A j \in 1..(n - i) : SubSeq(q, i + 1, n)[j] = q[i + j]
  BY <1>1, SubSeqProperties, i + 1 \in Int, n \in Int
<1>4. /\ r \in Seq(Msg) /\ Len(r) = n - 1
      /\ \A j \in 1..(n - 1) : r[j] = IF j < i THEN q[j] ELSE q[j + 1]
  <2>1. PICK a \in Seq(Msg), b \in Seq(Msg) : a = SubSeq(q, 1, i - 1) /\ b = SubSeq(q, i + 1, n)
    BY <1>2, <1>3
  <2>2. r = a \o b
    BY <1>1, <2>1 DEF RemoveAt
  <2>3. /\ r \in Seq(Msg) /\ Len(r) = n - 1
        /\ \A j \in 1..(n - 1) : r[j] = IF j <= i - 1 THEN a[j] ELSE b[j - (i - 1)]
    <3>1. Len(a) = i - 1 /\ Len(b) = n - i
      BY <1>2, <1>3, <2>1
    <3>2. /\ a \o b \in Seq(Msg) /\ Len(a \o b) = Len(a) + Len(b)
          /\ \A j \in 1..(Len(a) + Len(b)) : (a \o b)[j] = IF j <= Len(a) THEN a[j]
                                                                 ELSE b[j - Len(a)]
      BY ConcatProperties
    <3>3. Len(a) + Len(b) = n - 1
      BY <1>1, <3>1
    <3>4. QED
      BY <2>2, <3>1, <3>2, <3>3
  <2>4. ASSUME NEW j \in 1..(n - 1) PROVE r[j] = IF j < i THEN q[j] ELSE q[j + 1]
    <3>1. CASE j < i
      BY <1>1, <1>2, <2>1, <2>3, <3>1
    <3>2. CASE j >= i
      <4>1. PICK k \in 1..(n - i) : k = j - (i - 1)
        BY <1>1, <3>2
      <4>2. r[j] = b[k] /\ b[k] = q[i + k] /\ i + k = j + 1
        <5>1. ~(j <= i - 1)
          BY <1>1, <3>2
        <5>2. r[j] = b[j - (i - 1)]
          BY <2>3, <5>1
        <5>3. b[k] = q[i + k]
          BY <1>3, <2>1
        <5>4. QED
          BY <1>1, <4>1, <5>2, <5>3
      <4>3. QED
        BY <1>1, <3>2, <4>2
    <3>3. QED
      BY <1>1, <3>1, <3>2
  <2>5. QED
    BY <1>1, <2>3, <2>4
<1>5. DOMAIN r = 1..(n - 1)
  BY <1>4, LenProperties
<1>6. Once(r)
  <2>1. ASSUME NEW j \in 1..(n - 1)
        PROVE  \E a \in 1..n : r[j] = q[a] /\ a = IF j < i THEN j ELSE j + 1
    <3>1. CASE j < i
      BY <1>1, <1>4, <3>1
    <3>2. CASE ~(j < i)
      BY <1>1, <1>4, <3>2
    <3>3. QED
      BY <3>1, <3>2
  <2>2. ASSUME NEW j \in DOMAIN r, NEW k \in DOMAIN r, r[j] = r[k]
        PROVE  j = k
    <3>1. j \in 1..(n - 1) /\ k \in 1..(n - 1)
      BY <1>5
    <3>2. PICK a \in 1..n : r[j] = q[a] /\ a = IF j < i THEN j ELSE j + 1
      BY <2>1, <3>1
    <3>3. PICK b \in 1..n : r[k] = q[b] /\ b = IF k < i THEN k ELSE k + 1
      BY <2>1, <3>1
    <3>4. a = b
      BY <1>1, <2>2, <3>2, <3>3 DEF Once
    <3>5. QED
      BY <1>1, <3>1, <3>2, <3>3, <3>4
  <2>3. QED
    BY <2>2 DEF Once
<1>7. ASSUME NEW x \in ToSet(r) PROVE x \in ToSet(q) \ {q[i]}
  <2>1. PICK j \in 1..(n - 1) : x = r[j]
    BY <1>5 DEF ToSet
  <2>2. PICK k \in 1..n : k # i /\ x = q[k]
    BY <1>1, <1>4, <2>1
  <2>3. QED
    BY <1>1, <2>2 DEF ToSet, Once
<1>8. ASSUME NEW x \in ToSet(q) \ {q[i]} PROVE x \in ToSet(r)
  <2>1. PICK k \in 1..n : k # i /\ x = q[k]
    BY <1>1 DEF ToSet
  <2>2. PICK j \in 1..(n - 1) : j = IF k < i THEN k ELSE k - 1
    BY <1>1, <2>1
  <2>3. x = r[j]
    BY <1>1, <1>4, <2>1, <2>2
  <2>4. QED
    BY <1>5, <2>3 DEF ToSet
<1>9. QED
  BY <1>4, <1>6, <1>7, <1>8

(* A claim cuts a queue in two: what it takes and what it leaves.          *)
LEMMA Cuts ==
    ASSUME NEW q \in Seq(Msg), NEW n \in Nat, n <= Len(q), Once(q)
    PROVE  /\ SubSeq(q, n + 1, Len(q)) \in Seq(Msg)
           /\ Once(SubSeq(q, n + 1, Len(q)))
           /\ ToSet(SubSeq(q, 1, n)) \cup ToSet(SubSeq(q, n + 1, Len(q))) = ToSet(q)
           /\ ToSet(SubSeq(q, 1, n)) \cap ToSet(SubSeq(q, n + 1, Len(q))) = {}
<1>1. PICK l \in Nat : l = Len(q) /\ DOMAIN q = 1..l
  BY QueueTypes
<1> DEFINE a == SubSeq(q, 1, n)
           b == SubSeq(q, n + 1, l)
<1>2. DOMAIN a = 1..n /\ \A j \in 1..n : a[j] = q[j]
  <2>1. a \in Seq(Msg) /\ Len(a) = n /\ \A j \in 1..n : a[j] = q[j]
    BY <1>1, SubSeqProperties, 1 \in Int, n \in Int
  <2>2. QED
    BY <2>1, LenProperties
<1>3. b \in Seq(Msg) /\ DOMAIN b = 1..(l - n) /\ \A j \in 1..(l - n) : b[j] = q[n + j]
  <2>1. b \in Seq(Msg) /\ Len(b) = l - n /\ \A j \in 1..(l - n) : b[j] = q[n + j]
    BY <1>1, SubSeqProperties, n + 1 \in Int, l \in Int
  <2>2. QED
    BY <2>1, LenProperties
<1>4. Once(b)
  BY <1>1, <1>3 DEF Once
<1>5. ASSUME NEW x \in ToSet(q) PROVE x \in ToSet(a) \cup ToSet(b)
  <2>1. PICK k \in 1..l : x = q[k]
    BY <1>1 DEF ToSet
  <2>2. CASE k <= n
    <3>1. k \in 1..n /\ x = a[k]
      BY <1>2, <2>1, <2>2
    <3>2. x \in ToSet(a)
      BY <1>2, <3>1 DEF ToSet
    <3>3. QED
      BY <3>2
  <2>3. CASE k > n
    <3>1. PICK j \in 1..(l - n) : j = k - n
      BY <1>1, <2>3
    <3>2. QED
      <4>1. x = b[j]
        BY <1>1, <1>3, <2>1, <3>1
      <4>2. x \in ToSet(b)
        BY <1>3, <4>1 DEF ToSet
      <4>3. QED
        BY <4>2
  <2>4. QED
    BY <1>1, <2>2, <2>3
<1>6. ToSet(a) \subseteq ToSet(q) /\ ToSet(b) \subseteq ToSet(q)
  <2>1. ASSUME NEW x \in ToSet(a) PROVE x \in ToSet(q)
    <3>1. PICK j \in 1..n : x = a[j]
      BY <1>2 DEF ToSet
    <3>2. j \in DOMAIN q /\ x = q[j]
      BY <1>1, <1>2, <3>1
    <3>3. QED
      BY <3>2 DEF ToSet
  <2>2. ASSUME NEW x \in ToSet(b) PROVE x \in ToSet(q)
    <3>1. PICK j \in 1..(l - n) : x = b[j]
      BY <1>3 DEF ToSet
    <3>2. PICK k \in 1..l : k = n + j
      BY <1>1
    <3>3. k \in DOMAIN q /\ x = q[k]
      BY <1>1, <1>3, <3>1, <3>2
    <3>4. QED
      BY <3>3 DEF ToSet
  <2>3. QED
    BY <2>1, <2>2
<1>7. ASSUME NEW x \in ToSet(a), x \in ToSet(b) PROVE FALSE
  <2>1. PICK j \in 1..n : x = q[j]
    BY <1>2 DEF ToSet
  <2>2. PICK k \in 1..(l - n) : x = q[n + k]
    BY <1>3, <1>7 DEF ToSet
  <2>3. QED
    <3>1. PICK i \in 1..l : i = n + k /\ i # j
      BY <1>1, <2>1, <2>2
    <3>2. j \in 1..l /\ q[i] = q[j]
      BY <1>1, <2>1, <2>2, <3>1
    <3>3. QED
      BY <1>1, <3>1, <3>2 DEF Once
<1>8. QED
  BY <1>1, <1>3, <1>4, <1>5, <1>6, <1>7

(* Five pairwise disjoint places, spelled out.                             *)
Spread(A, B, C, D, E) ==
    /\ A \cap B = {} /\ A \cap C = {} /\ A \cap D = {} /\ A \cap E = {}
    /\ B \cap C = {} /\ B \cap D = {} /\ B \cap E = {}
    /\ C \cap D = {} /\ C \cap E = {} /\ D \cap E = {}

LEMMA Apart ==
    ASSUME NEW A, NEW B, NEW C, NEW D, NEW E
    PROVE  (\A i, j \in 1..5 : i # j => <<A, B, C, D, E>>[i] \cap <<A, B, C, D, E>>[j] = {})
             <=> Spread(A, B, C, D, E)
<1> DEFINE p == <<A, B, C, D, E>>
<1>1. 1..5 = {1, 2, 3, 4, 5}
  OBVIOUS
<1>2. p[1] = A /\ p[2] = B /\ p[3] = C /\ p[4] = D /\ p[5] = E
  OBVIOUS
<1>3. QED
  BY <1>1, <1>2 DEF Spread

LEMMA AccountedMeans ==
    /\ MessagesAccounted <=>
         /\ Once(nextTurn) /\ Once(nextStep)
         /\ Spread(ToSet(nextTurn), ToSet(nextStep), claimed, entered, gone)
         /\ waking \subseteq ToSet(nextTurn) \cup ToSet(nextStep) \cup claimed \cup entered \cup gone
    /\ MessagesAccounted' <=>
         /\ Once(nextTurn') /\ Once(nextStep')
         /\ Spread(ToSet(nextTurn'), ToSet(nextStep'), claimed', entered', gone')
         /\ waking' \subseteq ToSet(nextTurn') \cup ToSet(nextStep') \cup claimed'
                               \cup entered' \cup gone'
<1>1. (\A q \in {nextTurn, nextStep} : Once(q)) <=> Once(nextTurn) /\ Once(nextStep)
  OBVIOUS
<1>2. (\A q \in {nextTurn', nextStep'} : Once(q)) <=> Once(nextTurn') /\ Once(nextStep')
  OBVIOUS
<1>3. MessagesAccounted <=>
         /\ \A q \in {nextTurn, nextStep} : Once(q)
         /\ \A i, j \in 1..5 : i # j => Places[i] \cap Places[j] = {}
         /\ waking \subseteq ToSet(nextTurn) \cup ToSet(nextStep) \cup claimed \cup entered \cup gone
  BY Zenon DEF MessagesAccounted, Once, Sent, Pending
<1>4. MessagesAccounted' <=>
         /\ \A q \in {nextTurn', nextStep'} : Once(q)
         /\ \A i, j \in 1..5 : i # j => Places'[i] \cap Places'[j] = {}
         /\ waking' \subseteq ToSet(nextTurn') \cup ToSet(nextStep') \cup claimed'
                               \cup entered' \cup gone'
  BY Zenon DEF MessagesAccounted, Once, Sent, Pending
<1>5. (\A i, j \in 1..5 : i # j => Places[i] \cap Places[j] = {})
        <=> Spread(ToSet(nextTurn), ToSet(nextStep), claimed, entered, gone)
  BY Apart, Zenon DEF Places
<1>6. (\A i, j \in 1..5 : i # j => Places'[i] \cap Places'[j] = {})
        <=> Spread(ToSet(nextTurn'), ToSet(nextStep'), claimed', entered', gone')
  BY Apart, Zenon DEF Places
<1>7. QED
  BY <1>1, <1>2, <1>3, <1>4, <1>5, <1>6, Zenon

(* A claim of a prompt takes the first of the queue.                       *)
LEMMA TakesPrompt ==
    ASSUME TypeOK, MessagesAccounted, Links, ClaimPrompt
    PROVE  /\ nextTurn' \in Seq(Msg) /\ Once(nextTurn')
           /\ nextTurn[1] \in Msg
           /\ ToSet(nextTurn) = {nextTurn[1]} \cup ToSet(nextTurn')
           /\ nextTurn[1] \notin ToSet(nextTurn')
<1>1. nextTurn \in Seq(Msg) /\ nextTurn # <<>> /\ Once(nextTurn)
  BY AccountedMeans DEF TypeOK, Links, ClaimPrompt
<1>2. Len(nextTurn) \in Nat /\ 1 <= Len(nextTurn) /\ nextTurn[1] \in Msg
  BY <1>1, QueueTypes, EmptySeq, LenProperties
<1>3. nextTurn' = SubSeq(nextTurn, 1 + 1, Len(nextTurn))
  BY DEF ClaimPrompt, PromptsLeft
<1>4. /\ nextTurn' \in Seq(Msg) /\ Once(nextTurn')
      /\ ToSet(SubSeq(nextTurn, 1, 1)) \cup ToSet(nextTurn') = ToSet(nextTurn)
      /\ ToSet(SubSeq(nextTurn, 1, 1)) \cap ToSet(nextTurn') = {}
  BY <1>1, <1>2, <1>3, Cuts, 1 \in Nat
<1>5. ToSet(SubSeq(nextTurn, 1, 1)) = {nextTurn[1]}
  <2> DEFINE s == SubSeq(nextTurn, 1, 1)
  <2>1. /\ s \in Seq(Msg) /\ Len(s) = 1
        /\ \A j \in 1..1 : s[j] = nextTurn[j]
    BY <1>1, <1>2, SubSeqProperties, 1 \in Int
  <2>2. DOMAIN s = 1..1
    BY <2>1, LenProperties
  <2>3. QED
    BY <2>1, <2>2 DEF ToSet
<1>6. QED
  BY <1>2, <1>4, <1>5

(* Where a turn goes on to claim.                                          *)
LEMMA ClaimsNext ==
    /\ FirstClaim \in {"claimSteps", "claimPrompt", "preStep"}
    /\ AfterSteps \in {"claimPrompt", "preStep"}
    /\ FirstClaim = "claimPrompt" \/ AfterSteps = "claimPrompt" => nextTurn # <<>>
  BY DEF FirstClaim, AfterSteps

(* An empty inbox has no prompt to claim.                                  *)
LEMMA NoPrompt == TypeOK /\ Pending = {} => nextTurn = <<>>
<1>1. ASSUME TypeOK, nextTurn # <<>> PROVE Pending # {}
  <2>1. 1 \in DOMAIN nextTurn
    BY <1>1, QueueTypes, EmptySeq, LenProperties DEF TypeOK
  <2>2. nextTurn[1] \in ToSet(nextTurn)
    BY <2>1 DEF ToSet
  <2>3. QED
    BY <2>2 DEF Pending
<1>2. QED
  BY <1>1

LEMMA PendingTypes == TypeOK => Pending \subseteq Msg
  BY QueueTypes DEF TypeOK, Pending

(* A driver starts with fresh records of its own.                          *)
LEMMA StartTypes ==
    ASSUME TypeOK, StartDriver, UNCHANGED <<nextTurn, nextStep, entered, gone, waking>>,
           delivery' \in {"none", delivery}, unwinding' \in {"none", unwinding}
    PROVE  TypeOK'
  BY DEF TypeOK, StartDriver, NewActivity, Pc

LEMMA LatchTypes ==
    ASSUME NEW kind, wakeRequested' = (wakeRequested \/ Latches(kind))
    PROVE  wakeRequested' \in BOOLEAN
<1>1. (wakeRequested \/ Latches(kind)) \in BOOLEAN
  BY Zenon
<1>2. QED
  BY <1>1, Zenon

LEMMA CancelTypes ==
    ASSUME TypeOK, NEW cause \in {"user", "disposed"}, NEW keepInbox \in BOOLEAN,
           Cancel(cause, keepInbox), disposed' \in BOOLEAN
    PROVE  TypeOK'
<1>1. nextTurn' \in Seq(Msg) /\ nextStep' \in Seq(Msg) /\ wakeRequested' \in BOOLEAN
  BY EmptyQueue DEF Cancel, TypeOK, inbox
<1>2. gone' \subseteq Msg
  BY PendingTypes DEF Cancel, TypeOK
<1>3. aborted' \in {"no", "user", "disposed"}
  BY DEF Cancel, TypeOK
<1>4. parked' \subseteq Msg
  BY PendingTypes DEF Cancel, TypeOK
<1>5. UNCHANGED <<phase, step, pc, claimed, ending, delivery, unwinding,
                  settled, waiter, entered, waking, late>>
  BY DEF Cancel
<1>6. QED
  BY <1>1, <1>2, <1>3, <1>4, <1>5 DEF TypeOK

-----------------------------------------------------------------------------
(* Every step keeps the types.                                             *)
LEMMA TypesKept ==
    ASSUME TypeOK, MessagesAccounted, Links, [Next]_vars
    PROVE  TypeOK'
<1>1. ASSUME NEW m \in Msg, NEW target \in {"next-turn", "next-step"}, NEW wakeup \in BOOLEAN,
             Send(m, target, wakeup)
      PROVE TypeOK'
  <2>1. CASE nextTurn' = Append(nextTurn, m) /\ UNCHANGED nextStep
    <3>1. nextTurn' \in Seq(Msg)
      BY <2>1, AppendProperties DEF TypeOK
    <3>2. QED
      BY <1>1, <2>1, <3>1 DEF TypeOK, Send, driver, activity, fates
  <2>2. CASE nextStep' = Append(nextStep, m) /\ UNCHANGED nextTurn
    <3>1. nextStep' \in Seq(Msg)
      BY <2>2, AppendProperties DEF TypeOK
    <3>2. QED
      BY <1>1, <2>2, <3>1 DEF TypeOK, Send, driver, activity, fates
  <2>3. QED
    BY <1>1, <2>1, <2>2 DEF Send
<1>2. ASSUME NEW m \in Msg, Withdraw(m) PROVE TypeOK'
  <2>1. nextTurn' \in Seq(Msg) /\ nextStep' \in Seq(Msg)
    BY <1>2, Leaves, AccountedMeans DEF TypeOK, Withdraw
  <2>2. QED
    BY <1>2, <2>1 DEF TypeOK, Withdraw, driver, activity, history
<1>3. ASSUME Wake PROVE TypeOK'
  <2>1. CASE phase = "idle"
    BY <1>3, <2>1, StartTypes DEF Wake, WakeDriver, inbox, fates
  <2>2. CASE phase # "idle"
    <3>1. wakeRequested' \in BOOLEAN
      BY <1>3, <2>2, LatchTypes DEF Wake, WakeDriver
    <3>2. QED
      BY <1>3, <2>2, <3>1 DEF TypeOK, Wake, WakeDriver, inbox, fates, activity
  <2>3. QED
    BY <2>1, <2>2
<1>4. ASSUME CancelTurn PROVE TypeOK'
  <2>1. PICK keepInbox \in BOOLEAN : Cancel("user", keepInbox)
    BY <1>4 DEF CancelTurn
  <2>2. disposed' \in BOOLEAN
    BY <1>4 DEF CancelTurn, TypeOK
  <2>3. QED
    BY <2>1, <2>2, CancelTypes
<1>5. ASSUME Dispose PROVE TypeOK'
  <2>1. Cancel("disposed", FALSE) /\ disposed' \in BOOLEAN
    BY <1>5 DEF Dispose
  <2>2. QED
    BY <2>1, CancelTypes
<1>6. ASSUME MaintenanceStart PROVE TypeOK'
  BY <1>6 DEF TypeOK, MaintenanceStart, NewActivity, inbox, fates, history
<1>7. ASSUME MaintenanceEnd PROVE TypeOK'
  <2>1. CASE wakeRequested /\ Pending # {}
    BY <1>7, <2>1, StartTypes DEF MaintenanceEnd, inbox, fates
  <2>2. CASE ~(wakeRequested /\ Pending # {})
    BY <1>7, <2>2 DEF TypeOK, MaintenanceEnd, inbox, fates
  <2>3. QED
    BY <2>1, <2>2
<1>8. ASSUME BeginTurn PROVE TypeOK'
  BY <1>8, ClaimsNext DEF TypeOK, BeginTurn, inbox, fates, bystanders, activity, Pc, Publishing,
                          Claiming
<1>8a. ASSUME ClaimSteps PROVE TypeOK'
  <2>1. nextStep' \in Seq(Msg) /\ claimed' \subseteq Msg
    BY <1>8a, EmptyQueue, QueueTypes DEF TypeOK, ClaimSteps
  <2>2. QED
    BY <1>8a, <2>1, ClaimsNext DEF TypeOK, ClaimSteps, activity, fates, history, Pc, Publishing,
                                   Claiming
<1>8b. ASSUME ClaimPrompt PROVE TypeOK'
  <2>1. nextTurn' \in Seq(Msg) /\ nextTurn[1] \in Msg
    BY <1>8b, TakesPrompt
  <2>2. claimed' \subseteq Msg
    BY <1>8b, <2>1 DEF TypeOK, ClaimPrompt
  <2>3. QED
    BY <1>8b, <2>1, <2>2 DEF TypeOK, ClaimPrompt, activity, fates, history, Pc
<1>9. ASSUME PreStepAborts PROVE TypeOK'
  BY <1>9 DEF TypeOK, PreStepAborts, LeaveTurn, inbox, bystanders, activity, Pc
<1>10. ASSUME PreStepFails PROVE TypeOK'
  BY <1>10 DEF TypeOK, PreStepFails, LeaveTurn, inbox, bystanders, activity, Pc
<1>11. ASSUME PreStepEnters PROVE TypeOK'
  BY <1>11 DEF TypeOK, PreStepEnters, EndTurn, LeaveTurn, OpenStep, StepNumber, inbox, bystanders,
                activity, Pc, Publishing
<1>11a. ASSUME EnterMessages PROVE TypeOK'
  BY <1>11a DEF TypeOK, EnterMessages, inbox, bystanders, activity, Pc
<1>12. ASSUME StepReturns PROVE TypeOK'
  <2>1. pc' \in Pc
    BY <1>12, ClaimsNext DEF StepReturns, Pc, Publishing, Claiming
  <2>2. ending' \in {"none", "completed", "max-tokens"}
    BY <1>12 DEF StepReturns, TypeOK
  <2>3. QED
    BY <1>12, <2>1, <2>2 DEF TypeOK, StepReturns, inbox, fates, bystanders, activity
<1>13. ASSUME StepAborts PROVE TypeOK'
  BY <1>13 DEF TypeOK, StepAborts, LeaveTurn, inbox, bystanders, activity, Pc
<1>14. ASSUME StepFails PROVE TypeOK'
  BY <1>14 DEF TypeOK, StepFails, LeaveTurn, inbox, bystanders, activity, Pc
<1>15. ASSUME StoppingDone PROVE TypeOK'
  BY <1>15, ClaimsNext DEF TypeOK, StoppingDone, EndTurn, inbox, fates, bystanders, activity, Pc,
                           Publishing, Claiming
<1>16. ASSUME StoppingAborts PROVE TypeOK'
  BY <1>16 DEF TypeOK, StoppingAborts, LeaveTurn, inbox, bystanders, activity, Pc
<1>17. ASSUME StoppingFails PROVE TypeOK'
  BY <1>17 DEF TypeOK, StoppingFails, LeaveTurn, inbox, bystanders, activity, Pc
<1>18. ASSUME CloseTurn PROVE TypeOK'
  <2>1. CASE Pending = {}
    BY <1>18, <2>1 DEF TypeOK, CloseTurn, inbox, fates, bystanders, activity, Pc
  <2>2. CASE Pending # {}
    <3>1. pc' = "again" /\ aborted' = "no" /\ wakeRequested' = FALSE /\ step' = 0
      BY <1>18, <2>2 DEF CloseTurn
    <3>2. UNCHANGED <<nextTurn, nextStep, phase, claimed, ending, entered, gone, parked, late, delivery,
                      unwinding, settled, waiter, disposed, waking>>
      BY <1>18 DEF CloseTurn, inbox, fates, bystanders, activity
    <3>3. QED
      BY <3>1, <3>2 DEF TypeOK, Pc
  <2>3. QED
    BY <2>1, <2>2
<1>19. ASSUME Retire PROVE TypeOK'
  BY <1>19 DEF TypeOK, Retire, Unwinding, inbox, activity, fates, history, Pc
<1>20. ASSUME Replay PROVE TypeOK'
  <2>1. CASE unwinding = "replay" /\ Pending # {} /\ phase = "idle"
    BY <1>20, <2>1, StartTypes DEF Replay, WakeDriver, inbox, fates
  <2>2. CASE unwinding = "replay" /\ Pending # {} /\ phase # "idle"
    <3>1. wakeRequested' \in BOOLEAN
      BY <1>20, <2>2, LatchTypes DEF Replay, WakeDriver
    <3>2. QED
      BY <1>20, <2>2, <3>1 DEF TypeOK, Replay, WakeDriver, inbox, fates, activity
  <2>3. CASE ~(unwinding = "replay" /\ Pending # {})
    <3>1. settled' \in BOOLEAN
      <4>1. settled' = (settled \/ phase = "idle")
        BY <1>20, <2>3 DEF Replay, Resolved
      <4>2. QED
        BY <4>1
    <3>2. QED
      BY <1>20, <2>3, <3>1 DEF TypeOK, Replay, inbox, fates, driver
  <2>4. QED
    BY <2>1, <2>2, <2>3
<1>21. ASSUME WhenIdle PROVE TypeOK'
  BY <1>21 DEF TypeOK, WhenIdle, inbox, driver, fates, history
<1>22. ASSUME WaiterResumes PROVE TypeOK'
  BY <1>22 DEF TypeOK, WaiterResumes, AfterPrevious, inbox, driver, fates, history
<1>23. ASSUME UNCHANGED vars PROVE TypeOK'
  BY <1>23 DEF TypeOK, vars
<1>24. QED
  BY <1>1, <1>2, <1>3, <1>4, <1>5, <1>6, <1>7, <1>8, <1>8a, <1>8b, <1>9, <1>10, <1>11, <1>11a, <1>12, <1>13, <1>14, <1>15, <1>16, <1>17, <1>18, <1>19, <1>20, <1>21, <1>22, <1>23 DEF Next, Driver

(* Nothing moves.                                                          *)
LEMMA SamePlaces ==
    ASSUME MessagesAccounted, UNCHANGED <<nextTurn, nextStep, claimed, entered, gone, waking>>
    PROVE  MessagesAccounted'
  BY AccountedMeans

(* Claimed messages become input of a step, stay for it, or are gone.      *)
LEMMA BatchSettles ==
    ASSUME MessagesAccounted, UNCHANGED <<nextTurn, nextStep, waking>>, NEW batch \in SUBSET claimed,
           \/ claimed' = {} /\ entered' = entered /\ gone' = gone \cup claimed
           \/ claimed' = batch /\ entered' = entered /\ gone' = gone \cup (claimed \ batch)
           \/ claimed' = claimed \ batch /\ entered' = entered \cup batch /\ gone' = gone
    PROVE  MessagesAccounted'
  BY AccountedMeans DEF Spread

(* No step loses or doubles a message.                                     *)
LEMMA AccountedKept ==
    ASSUME TypeOK, MessagesAccounted, Links, [Next]_vars
    PROVE  MessagesAccounted'
<1>1. ASSUME NEW m \in Msg, NEW target \in {"next-turn", "next-step"}, NEW wakeup \in BOOLEAN,
             Send(m, target, wakeup)
      PROVE MessagesAccounted'
  <2>1. m \notin ToSet(nextTurn) \cup ToSet(nextStep) \cup claimed \cup entered \cup gone
    BY <1>1 DEF Send, Sent, Pending
  <2>2. /\ nextTurn \in Seq(Msg) /\ nextStep \in Seq(Msg) /\ Once(nextTurn) /\ Once(nextStep)
        /\ Spread(ToSet(nextTurn), ToSet(nextStep), claimed, entered, gone)
        /\ waking \subseteq ToSet(nextTurn) \cup ToSet(nextStep) \cup claimed \cup entered \cup gone
    BY AccountedMeans DEF TypeOK
  <2>3. waking' \subseteq waking \cup {m} /\ UNCHANGED <<claimed, entered, gone>>
    BY <1>1 DEF Send, driver, fates
  <2>4. CASE nextTurn' = Append(nextTurn, m) /\ UNCHANGED nextStep
    <3>1. Once(nextTurn') /\ ToSet(nextTurn') = ToSet(nextTurn) \cup {m}
      BY <2>1, <2>2, <2>4, Joins
    <3>2. QED
      BY <2>1, <2>2, <2>3, <2>4, <3>1, AccountedMeans DEF Spread
  <2>5. CASE nextStep' = Append(nextStep, m) /\ UNCHANGED nextTurn
    <3>1. Once(nextStep') /\ ToSet(nextStep') = ToSet(nextStep) \cup {m}
      BY <2>1, <2>2, <2>5, Joins
    <3>2. QED
      BY <2>1, <2>2, <2>3, <2>5, <3>1, AccountedMeans DEF Spread
  <2>6. QED
    BY <1>1, <2>4, <2>5 DEF Send
<1>2. ASSUME NEW m \in Msg, Withdraw(m) PROVE MessagesAccounted'
  <2>1. /\ nextTurn \in Seq(Msg) /\ nextStep \in Seq(Msg) /\ Once(nextTurn) /\ Once(nextStep)
        /\ Spread(ToSet(nextTurn), ToSet(nextStep), claimed, entered, gone)
        /\ waking \subseteq ToSet(nextTurn) \cup ToSet(nextStep) \cup claimed \cup entered \cup gone
    BY AccountedMeans DEF TypeOK
  <2>2. gone' = gone \cup {m} /\ UNCHANGED <<claimed, entered, waking>>
    BY <1>2 DEF Withdraw, driver, history
  <2>3. CASE \E i \in DOMAIN nextTurn : /\ nextTurn[i] = m /\ nextTurn' = RemoveAt(nextTurn, i)
                                       /\ UNCHANGED nextStep
    <3>1. /\ Once(nextTurn') /\ ToSet(nextTurn') = ToSet(nextTurn) \ {m}
          /\ m \in ToSet(nextTurn) /\ UNCHANGED nextStep
      <4>1. PICK i \in DOMAIN nextTurn : /\ nextTurn[i] = m /\ nextTurn' = RemoveAt(nextTurn, i)
                                        /\ UNCHANGED nextStep
        BY <2>3
      <4>2. Once(nextTurn') /\ ToSet(nextTurn') = ToSet(nextTurn) \ {nextTurn[i]}
        BY <2>1, <4>1, Leaves
      <4>3. m \in ToSet(nextTurn)
        BY <4>1 DEF ToSet
      <4>4. QED
        BY <4>1, <4>2, <4>3
    <3>2. QED
      BY <2>1, <2>2, <3>1, AccountedMeans DEF Spread
  <2>4. CASE \E i \in DOMAIN nextStep : /\ nextStep[i] = m /\ nextStep' = RemoveAt(nextStep, i)
                                       /\ UNCHANGED nextTurn
    <3>1. /\ Once(nextStep') /\ ToSet(nextStep') = ToSet(nextStep) \ {m}
          /\ m \in ToSet(nextStep) /\ UNCHANGED nextTurn
      <4>1. PICK i \in DOMAIN nextStep : /\ nextStep[i] = m /\ nextStep' = RemoveAt(nextStep, i)
                                        /\ UNCHANGED nextTurn
        BY <2>4
      <4>2. Once(nextStep') /\ ToSet(nextStep') = ToSet(nextStep) \ {nextStep[i]}
        BY <2>1, <4>1, Leaves
      <4>3. m \in ToSet(nextStep)
        BY <4>1 DEF ToSet
      <4>4. QED
        BY <4>1, <4>2, <4>3
    <3>2. QED
      BY <2>1, <2>2, <3>1, AccountedMeans DEF Spread
  <2>5. QED
    BY <1>2, <2>3, <2>4 DEF Withdraw
<1>3. ASSUME Wake PROVE MessagesAccounted'
  BY <1>3, SamePlaces DEF Wake, WakeDriver, StartDriver, inbox, fates
<1>4. ASSUME CancelTurn PROVE MessagesAccounted'
  <2>1. CASE UNCHANGED <<nextTurn, nextStep, claimed, entered, gone, waking>>
    BY <2>1, SamePlaces
  <2>2. CASE /\ nextTurn' = <<>> /\ nextStep' = <<>> /\ gone' = gone \cup Pending
             /\ UNCHANGED <<claimed, entered, waking>>
    BY <2>2, EmptyQueue, AccountedMeans DEF Spread, Pending
  <2>3. QED
    BY <1>4, <2>1, <2>2 DEF CancelTurn, Cancel, inbox
<1>5. ASSUME Dispose PROVE MessagesAccounted'
  <2>1. CASE UNCHANGED <<nextTurn, nextStep, claimed, entered, gone, waking>>
    BY <2>1, SamePlaces
  <2>2. CASE /\ nextTurn' = <<>> /\ nextStep' = <<>> /\ gone' = gone \cup Pending
             /\ UNCHANGED <<claimed, entered, waking>>
    BY <2>2, EmptyQueue, AccountedMeans DEF Spread, Pending
  <2>3. QED
    BY <1>5, <2>1, <2>2 DEF Dispose, Cancel, inbox
<1>6. ASSUME MaintenanceStart PROVE MessagesAccounted'
  BY <1>6, SamePlaces DEF MaintenanceStart, inbox, fates, history
<1>7. ASSUME MaintenanceEnd PROVE MessagesAccounted'
  BY <1>7, SamePlaces DEF MaintenanceEnd, StartDriver, inbox, fates
<1>8. ASSUME BeginTurn PROVE MessagesAccounted'
  BY <1>8, SamePlaces DEF BeginTurn, inbox, bystanders, fates
<1>8a. ASSUME ClaimSteps PROVE MessagesAccounted'
  <2>1. claimed = {} /\ claimed' = ToSet(nextStep) /\ nextStep' = <<>>
    BY <1>8a DEF Links, ClaimSteps
  <2>2. UNCHANGED <<nextTurn, entered, gone, waking>>
    BY <1>8a DEF ClaimSteps, fates, history
  <2>3. QED
    BY <2>1, <2>2, EmptyQueue, AccountedMeans DEF Spread
<1>8b. ASSUME ClaimPrompt PROVE MessagesAccounted'
  <2>1. claimed' = claimed \cup {nextTurn[1]} /\ UNCHANGED <<nextStep, entered, gone, waking>>
    BY <1>8b DEF ClaimPrompt, fates, history
  <2>2. /\ Once(nextTurn')
        /\ ToSet(nextTurn) = {nextTurn[1]} \cup ToSet(nextTurn')
        /\ nextTurn[1] \notin ToSet(nextTurn')
    BY <1>8b, TakesPrompt
  <2>3. QED
    BY <2>1, <2>2, AccountedMeans DEF Spread
<1>9. ASSUME PreStepAborts PROVE MessagesAccounted'
  BY <1>9, BatchSettles DEF PreStepAborts, LeaveTurn, inbox, bystanders
<1>10. ASSUME PreStepFails PROVE MessagesAccounted'
  BY <1>10, BatchSettles DEF PreStepFails, LeaveTurn, inbox, bystanders
<1>11. ASSUME PreStepEnters PROVE MessagesAccounted'
  <2>1. PICK batch \in {claimed, {}} :
             \/ EndTurn
             \/ LeaveTurn(TRUE)
             \/ OpenStep(batch)
    BY <1>11 DEF PreStepEnters
  <2>2. waking' = waking
    BY <1>11 DEF PreStepEnters, bystanders
  <2>3. QED
    BY <2>1, <2>2, BatchSettles DEF EndTurn, LeaveTurn, OpenStep, inbox
<1>11a. ASSUME EnterMessages PROVE MessagesAccounted'
  <2>1. CASE UNCHANGED <<claimed, entered>>
    BY <1>11a, <2>1, SamePlaces DEF EnterMessages, inbox, bystanders
  <2>2. CASE \E m \in claimed : claimed' = claimed \ {m} /\ entered' = entered \cup {m}
    BY <1>11a, <2>2, BatchSettles DEF EnterMessages, inbox, bystanders
  <2>3. QED
    BY <1>11a, <2>1, <2>2 DEF EnterMessages
<1>12. ASSUME StepReturns PROVE MessagesAccounted'
  BY <1>12, SamePlaces DEF StepReturns, inbox, bystanders, fates
<1>13. ASSUME StepAborts PROVE MessagesAccounted'
  BY <1>13, BatchSettles DEF StepAborts, LeaveTurn, inbox, bystanders
<1>14. ASSUME StepFails PROVE MessagesAccounted'
  BY <1>14, BatchSettles DEF StepFails, LeaveTurn, inbox, bystanders
<1>15. ASSUME StoppingDone PROVE MessagesAccounted'
  <2>1. claimed = {} /\ waking' = waking
    BY <1>15 DEF Links, StoppingDone, bystanders
  <2>2. CASE EndTurn
    BY <2>1, <2>2, SamePlaces DEF EndTurn, inbox
  <2>3. CASE ~EndTurn
    BY <1>15, <2>3, SamePlaces DEF StoppingDone, inbox, bystanders, fates
  <2>4. QED
    BY <2>2, <2>3
<1>16. ASSUME StoppingAborts PROVE MessagesAccounted'
  BY <1>16, BatchSettles DEF StoppingAborts, LeaveTurn, inbox, bystanders
<1>17. ASSUME StoppingFails PROVE MessagesAccounted'
  BY <1>17, BatchSettles DEF StoppingFails, LeaveTurn, inbox, bystanders
<1>18. ASSUME CloseTurn PROVE MessagesAccounted'
  BY <1>18, SamePlaces DEF CloseTurn, inbox, fates, bystanders
<1>19. ASSUME Retire PROVE MessagesAccounted'
  BY <1>19, SamePlaces DEF Retire, inbox, fates, history
<1>20. ASSUME Replay PROVE MessagesAccounted'
  BY <1>20, SamePlaces DEF Replay, WakeDriver, StartDriver, inbox, fates, driver
<1>21. ASSUME WhenIdle PROVE MessagesAccounted'
  BY <1>21, SamePlaces DEF WhenIdle, inbox, driver, fates, history
<1>22. ASSUME WaiterResumes PROVE MessagesAccounted'
  BY <1>22, SamePlaces DEF WaiterResumes, inbox, driver, fates, history
<1>23. ASSUME UNCHANGED vars PROVE MessagesAccounted'
  BY <1>23, SamePlaces DEF vars
<1>24. QED
  BY <1>1, <1>2, <1>3, <1>4, <1>5, <1>6, <1>7, <1>8, <1>8a, <1>8b, <1>9, <1>10, <1>11, <1>11a, <1>12, <1>13, <1>14, <1>15, <1>16, <1>17, <1>18, <1>19, <1>20, <1>21, <1>22, <1>23 DEF Next, Driver

(* A cancel clears no prompt that is being claimed.                        *)
LEMMA CancelLinks ==
    ASSUME TypeOK, Links, NEW cause, NEW keepInbox \in BOOLEAN, Cancel(cause, keepInbox)
    PROVE  Links'
<1>1. pc = "claimPrompt" => keepInbox
  BY NoPrompt DEF Links, Cancel, Publishing, Claiming
<1>2. QED
  BY <1>1 DEF Links, Cancel, inbox

(* Every step keeps phase, position and promise together.                  *)
LEMMA LinksKept ==
    ASSUME TypeOK, Links, [Next]_vars
    PROVE  Links'
<1>1. ASSUME NEW m \in Msg, NEW target \in {"next-turn", "next-step"}, NEW wakeup \in BOOLEAN,
             Send(m, target, wakeup)
      PROVE Links'
  <2>1. pc \notin Publishing
    BY <1>1 DEF Send, MayAppend
  <2>2. pc # "claimPrompt"
    BY <2>1 DEF Publishing, Claiming
  <2>3. QED
    BY <1>1, <2>1, <2>2 DEF Links, Send, WakingAfterAbort, driver, activity
<1>2. ASSUME NEW m \in Msg, Withdraw(m) PROVE Links'
  <2>1. pc # "claimPrompt"
    BY <1>2 DEF Withdraw, MayAppend, Publishing, Claiming
  <2>2. QED
    BY <1>2, <2>1 DEF Links, Withdraw, driver, activity
<1>3. ASSUME Wake PROVE Links'
  <2>1. CASE phase = "idle"
    BY <1>3, <2>1 DEF Links, Wake, WakeDriver, StartDriver, NewActivity, Publishing, Claiming
  <2>2. CASE phase # "idle"
    BY <1>3, <2>2 DEF Links, Wake, WakeDriver, activity, inbox
  <2>3. QED
    BY <2>1, <2>2
<1>4. ASSUME CancelTurn PROVE Links'
  <2>1. PICK keepInbox \in BOOLEAN : Cancel("user", keepInbox)
    BY <1>4 DEF CancelTurn
  <2>2. QED
    BY <2>1, CancelLinks
<1>5. ASSUME Dispose PROVE Links'
  BY <1>5, CancelLinks DEF Dispose
<1>6. ASSUME MaintenanceStart PROVE Links'
  BY <1>6 DEF Links, MaintenanceStart, NewActivity, inbox
<1>7. ASSUME MaintenanceEnd PROVE Links'
  BY <1>7 DEF Links, MaintenanceEnd, StartDriver, NewActivity, Publishing, Claiming, inbox
<1>8. ASSUME BeginTurn PROVE Links'
  BY <1>8, ClaimsNext DEF Links, BeginTurn, Calm, bystanders, activity, Publishing, Claiming, inbox
<1>8a. ASSUME ClaimSteps PROVE Links'
  BY <1>8a, ClaimsNext DEF Links, ClaimSteps, activity, Publishing, Claiming
<1>8b. ASSUME ClaimPrompt PROVE Links'
  BY <1>8b DEF Links, ClaimPrompt, activity, Publishing, Claiming
<1>9. ASSUME PreStepAborts PROVE Links'
  BY <1>9 DEF Links, PreStepAborts, LeaveTurn, bystanders, activity, Publishing, Claiming
<1>10. ASSUME PreStepFails PROVE Links'
  BY <1>10 DEF Links, PreStepFails, LeaveTurn, bystanders, activity, Publishing, Claiming
<1>11. ASSUME PreStepEnters PROVE Links'
  <2>1. delivery = "none" /\ UNCHANGED <<delivery, settled>>
    BY <1>11 DEF PreStepEnters, Calm, bystanders, activity
  <2>2. PICK batch \in {claimed, {}} : EndTurn \/ LeaveTurn(TRUE) \/ OpenStep(batch)
    BY <1>11 DEF PreStepEnters
  <2>3. pc = "preStep"
    BY <1>11 DEF PreStepEnters
  <2>4. QED
    BY <2>1, <2>2, <2>3 DEF Links, EndTurn, LeaveTurn, OpenStep, Publishing, Claiming
<1>11a. ASSUME EnterMessages PROVE Links'
  BY <1>11a DEF Links, EnterMessages, bystanders, activity, Publishing, Claiming
<1>12. ASSUME StepReturns PROVE Links'
  BY <1>12, ClaimsNext DEF Links, StepReturns, Calm, bystanders, activity, Publishing, Claiming, inbox
<1>13. ASSUME StepAborts PROVE Links'
  BY <1>13 DEF Links, StepAborts, LeaveTurn, bystanders, activity, Publishing, Claiming
<1>14. ASSUME StepFails PROVE Links'
  BY <1>14 DEF Links, StepFails, LeaveTurn, bystanders, activity, Publishing, Claiming
<1>15. ASSUME StoppingDone PROVE Links'
  <2>1. delivery = "none" /\ UNCHANGED <<delivery, settled>> /\ pc = "stopping"
    BY <1>15 DEF StoppingDone, Calm, bystanders, activity
  <2>2. CASE EndTurn
    BY <2>1, <2>2 DEF Links, EndTurn, Publishing, Claiming
  <2>3. CASE ~EndTurn
    BY <1>15, <2>1, <2>3, ClaimsNext DEF Links, StoppingDone, Publishing, Claiming, inbox
  <2>4. QED
    BY <2>2, <2>3
<1>16. ASSUME StoppingAborts PROVE Links'
  BY <1>16 DEF Links, StoppingAborts, LeaveTurn, bystanders, activity, Publishing, Claiming
<1>17. ASSUME StoppingFails PROVE Links'
  BY <1>17 DEF Links, StoppingFails, LeaveTurn, bystanders, activity, Publishing, Claiming
<1>18. ASSUME CloseTurn PROVE Links'
  BY <1>18 DEF Links, CloseTurn, bystanders, activity, Publishing, Claiming
<1>19. ASSUME Retire PROVE Links'
  BY <1>19 DEF Links, Retire, activity, Publishing, Claiming
<1>20. ASSUME Replay PROVE Links'
  <2>1. CASE unwinding = "replay" /\ Pending # {} /\ phase = "idle"
    BY <1>20, <2>1 DEF Links, Replay, WakeDriver, StartDriver, NewActivity, Publishing, Claiming
  <2>2. CASE unwinding = "replay" /\ Pending # {} /\ phase # "idle"
    BY <1>20, <2>2 DEF Links, Replay, WakeDriver, activity, inbox
  <2>3. CASE ~(unwinding = "replay" /\ Pending # {})
    BY <1>20, <2>3 DEF Links, Replay, Resolved, driver, inbox
  <2>4. QED
    BY <2>1, <2>2, <2>3
<1>21. ASSUME WhenIdle PROVE Links'
  BY <1>21 DEF Links, WhenIdle, driver, inbox
<1>22. ASSUME WaiterResumes PROVE Links'
  BY <1>22 DEF Links, WaiterResumes, driver, inbox
<1>23. ASSUME UNCHANGED vars PROVE Links'
  BY <1>23 DEF Links, vars
<1>24. QED
  BY <1>1, <1>2, <1>3, <1>4, <1>5, <1>6, <1>7, <1>8, <1>8a, <1>8b, <1>9, <1>10, <1>11, <1>11a, <1>12, <1>13, <1>14, <1>15, <1>16, <1>17, <1>18, <1>19, <1>20, <1>21, <1>22, <1>23 DEF Next, Driver

(* No step leaves a waking message to nobody: whatever ends a driver or a  *)
(* latch has emptied the queue, recorded why it left the message, or hands *)
(* the wake on.                                                            *)
LEMMA WakesKept ==
    ASSUME TypeOK, MessagesAccounted, Links, WakesServed, [Next]_vars
    PROVE  WakesServed'
<1>1. ASSUME NEW m \in Msg, NEW target \in {"next-turn", "next-step"}, NEW wakeup \in BOOLEAN,
             Send(m, target, wakeup)
      PROVE WakesServed'
  <2>1. Pending' = Pending \cup {m}
    <3>1. nextTurn \in Seq(Msg) /\ nextStep \in Seq(Msg) /\ Once(nextTurn) /\ Once(nextStep)
      BY AccountedMeans DEF TypeOK
    <3>2. m \notin ToSet(nextTurn) /\ m \notin ToSet(nextStep)
      BY <1>1 DEF Send, Sent, Pending
    <3>3. CASE nextTurn' = Append(nextTurn, m) /\ UNCHANGED nextStep
      BY <3>1, <3>2, <3>3, Joins DEF Pending
    <3>4. CASE nextStep' = Append(nextStep, m) /\ UNCHANGED nextTurn
      BY <3>1, <3>2, <3>4, Joins DEF Pending
    <3>5. QED
      BY <1>1, <3>3, <3>4 DEF Send
  <2>2. /\ delivery = "none" /\ m \notin waking
        /\ UNCHANGED <<phase, aborted, wakeRequested, pc, unwinding>>
    BY <1>1 DEF Send, MayAppend, MessagesAccounted, driver
  <2>3. Latched => Latched'
    BY <2>2 DEF Latched
  <2>4. Looking => Looking'
    BY <2>2 DEF Looking
  <2>5. CASE ~wakeup
    <3>1. waking' = waking /\ parked' = parked /\ late' = late
      BY <1>1, <2>5 DEF Send, WakingAfterAbort
    <3>2. Owed' = Owed
      BY <2>1, <2>2, <3>1 DEF Owed
    <3>3. QED
      BY <2>3, <2>4, <3>2 DEF WakesServed
  <2>6. CASE wakeup /\ WakingAfterAbort(wakeup) /\ aborted = "disposed"
    <3>1. waking' = waking \cup {m} /\ parked' = parked \cup {m} /\ late' = late
      BY <1>1, <2>6 DEF Send
    <3>2. Owed' = Owed \ {m}
      BY <2>1, <2>2, <3>1 DEF Owed
    <3>3. QED
      BY <2>3, <2>4, <3>2 DEF WakesServed
  <2>7. CASE wakeup /\ WakingAfterAbort(wakeup) /\ aborted # "disposed"
    <3>1. delivery' = "wakeAfterAbort" /\ aborted = "user" /\ phase \in {"maintenance", "running"}
      BY <1>1, <2>7 DEF Send, WakingAfterAbort, TypeOK
    <3>2. QED
      BY <2>2, <3>1 DEF WakesServed, Latched
  <2>8. CASE wakeup /\ ~WakingAfterAbort(wakeup) /\ phase # "running"
    <3>1. /\ delivery' = "wake" /\ phase \in {"idle", "maintenance"}
          /\ phase = "maintenance" => aborted = "no"
      BY <1>1, <2>8 DEF Send, WakingAfterAbort, TypeOK
    <3>2. QED
      BY <2>2, <3>1 DEF WakesServed, Latched
  <2>9. CASE wakeup /\ ~WakingAfterAbort(wakeup) /\ phase = "running" /\ pc # "stopped"
    BY <2>2, <2>9 DEF WakesServed, Looking, WakingAfterAbort, Links
  <2>10. CASE wakeup /\ ~WakingAfterAbort(wakeup) /\ phase = "running" /\ pc = "stopped"
    <3>1. waking' = waking \cup {m} /\ parked' = parked /\ late' = late \cup {m}
      BY <1>1, <2>10 DEF Send, WakingAfterAbort
    <3>2. Owed' = Owed \ {m}
      BY <2>1, <2>2, <3>1 DEF Owed
    <3>3. QED
      BY <2>3, <2>4, <3>2 DEF WakesServed
  <2>11. QED
    BY <2>5, <2>6, <2>7, <2>8, <2>9, <2>10
<1>2. ASSUME NEW m \in Msg, Withdraw(m) PROVE WakesServed'
  <2>1. Pending' \subseteq Pending
    BY <1>2, Leaves, AccountedMeans DEF TypeOK, Withdraw, Pending
  <2>2. Looking' = Looking /\ Latched' = Latched
    BY <1>2 DEF Withdraw, Looking, Latched, driver
  <2>3. Owed' \subseteq Owed
    BY <1>2, <2>1 DEF Withdraw, Owed, history
  <2>4. QED
    BY <2>2, <2>3 DEF WakesServed
<1>3. ASSUME Wake PROVE WakesServed'
  <2>1. CASE phase = "idle"
    BY <1>3, <2>1 DEF Wake, WakeDriver, StartDriver, WakesServed, Looking
  <2>2. CASE phase # "idle"
    <3>1. Owed' = Owed /\ (Looking => Looking')
      BY <1>3, <2>2 DEF Wake, WakeDriver, Owed, Pending, Looking, inbox
    <3>2. Latched => Latched'
      BY <1>3, <2>2 DEF Wake, WakeDriver, Latches, Latched, TypeOK, inbox
    <3>3. QED
      BY <3>1, <3>2 DEF WakesServed
  <2>3. QED
    BY <2>1, <2>2
<1>4. ASSUME CancelTurn PROVE WakesServed'
  <2>1. PICK keepInbox \in BOOLEAN : Cancel("user", keepInbox)
    BY <1>4 DEF CancelTurn
  <2>2. CASE ~keepInbox
    BY <2>1, <2>2, EmptyQueue DEF Cancel, WakesServed, Owed, Pending
  <2>3. CASE keepInbox /\ phase = "running" /\ aborted = "no"
    BY <2>1, <2>3 DEF Cancel, WakesServed, Owed, Pending, inbox
  <2>4. CASE keepInbox /\ ~(phase = "running" /\ aborted = "no")
    <3>1. Owed' = Owed
      BY <2>1, <2>4 DEF Cancel, Owed, Pending, inbox
    <3>2. ~Looking
      BY <2>4 DEF Looking, Links, TypeOK
    <3>3. Latched => Latched'
      BY <2>1, <2>4 DEF Cancel, Latched
    <3>4. QED
      BY <3>1, <3>2, <3>3 DEF WakesServed
  <2>5. QED
    BY <2>2, <2>3, <2>4
<1>5. ASSUME Dispose PROVE WakesServed'
  BY <1>5, EmptyQueue DEF Dispose, Cancel, WakesServed, Owed, Pending
<1>6. ASSUME MaintenanceStart PROVE WakesServed'
  <2>1. Owed' = Owed /\ ~Looking /\ (Latched => Latched')
    BY <1>6 DEF MaintenanceStart, Owed, Pending, Links, Looking, Latched, inbox, history
  <2>2. QED
    BY <2>1 DEF WakesServed
<1>7. ASSUME MaintenanceEnd PROVE WakesServed'
  <2>1. CASE wakeRequested /\ Pending # {}
    BY <1>7, <2>1 DEF MaintenanceEnd, StartDriver, WakesServed, Looking
  <2>2. CASE ~(wakeRequested /\ Pending # {})
    <3>1. Owed' = Owed
      BY <1>7, <2>2 DEF MaintenanceEnd, Owed, Pending, inbox
    <3>2. Pending = {} => Owed = {}
      BY DEF Owed
    <3>3. ~Looking
      BY <1>7 DEF MaintenanceEnd, Looking, Links
    <3>4. ~wakeRequested => ~Latched
      BY <1>7 DEF MaintenanceEnd, Calm, Latched
    <3>5. QED
      BY <2>2, <3>1, <3>2, <3>3, <3>4 DEF WakesServed
  <2>3. QED
    BY <2>1, <2>2
<1>8. ASSUME BeginTurn PROVE WakesServed'
  <2>1. CASE MayClaim
    BY <1>8, <2>1, ClaimsNext DEF BeginTurn, MayClaim, WakesServed, Looking
  <2>2. CASE ~MayClaim
    <3>1. Owed' = Owed /\ ~Looking /\ (Latched => Latched')
      BY <1>8, <2>2 DEF BeginTurn, MayClaim, Owed, Pending, Looking, Latched, inbox, bystanders
    <3>2. QED
      BY <3>1 DEF WakesServed
  <2>3. QED
    BY <2>1, <2>2
<1>8a. ASSUME ClaimSteps PROVE WakesServed'
  <2>1. Pending' \subseteq Pending
    BY <1>8a, EmptyQueue DEF ClaimSteps, Pending
  <2>2. (Looking => Looking') /\ (Latched => Latched')
    BY <1>8a, ClaimsNext DEF ClaimSteps, Looking, Latched
  <2>3. Owed' \subseteq Owed
    BY <1>8a, <2>1 DEF ClaimSteps, Owed, history
  <2>4. QED
    BY <2>2, <2>3 DEF WakesServed
<1>8b. ASSUME ClaimPrompt PROVE WakesServed'
  <2>1. Pending' \subseteq Pending
    BY <1>8b, TakesPrompt DEF ClaimPrompt, Pending
  <2>2. (Looking => Looking') /\ (Latched => Latched')
    BY <1>8b DEF ClaimPrompt, Looking, Latched
  <2>3. Owed' \subseteq Owed
    BY <1>8b, <2>1 DEF ClaimPrompt, Owed, history
  <2>4. QED
    BY <2>2, <2>3 DEF WakesServed
<1>9. ASSUME PreStepAborts PROVE WakesServed'
  <2>1. Owed' = Owed /\ ~Looking /\ (Latched => Latched')
    BY <1>9 DEF PreStepAborts, LeaveTurn, Owed, Pending, Looking, Latched, inbox, bystanders
  <2>2. QED
    BY <2>1 DEF WakesServed
<1>10. ASSUME PreStepFails PROVE WakesServed'
  BY <1>10 DEF PreStepFails, LeaveTurn, WakesServed, Owed, Pending, inbox, bystanders
<1>11. ASSUME PreStepEnters PROVE WakesServed'
  <2>1. aborted = "no" /\ waking' = waking
    BY <1>11 DEF PreStepEnters, bystanders
  <2>2. EndTurn \/ LeaveTurn(TRUE) \/ \E batch \in {claimed, {}} : OpenStep(batch)
    BY <1>11 DEF PreStepEnters
  <2>3. CASE EndTurn
    BY <2>1, <2>3 DEF EndTurn, WakesServed, Looking
  <2>4. CASE LeaveTurn(TRUE)
    BY <2>1, <2>4 DEF LeaveTurn, WakesServed, Owed, Pending, inbox
  <2>5. CASE \E batch \in {claimed, {}} : OpenStep(batch)
    BY <2>1, <2>5 DEF OpenStep, WakesServed, Looking
  <2>6. QED
    BY <2>2, <2>3, <2>4, <2>5
<1>11a. ASSUME EnterMessages PROVE WakesServed'
  <2>1. Owed' = Owed /\ (Looking => Looking') /\ (Latched => Latched')
    BY <1>11a DEF EnterMessages, Owed, Pending, Looking, Latched, inbox, bystanders
  <2>2. QED
    BY <2>1 DEF WakesServed
<1>12. ASSUME StepReturns PROVE WakesServed'
  BY <1>12, ClaimsNext DEF StepReturns, WakesServed, Looking
<1>13. ASSUME StepAborts PROVE WakesServed'
  <2>1. Owed' = Owed /\ ~Looking /\ (Latched => Latched')
    BY <1>13 DEF StepAborts, LeaveTurn, Owed, Pending, Looking, Latched, inbox, bystanders
  <2>2. QED
    BY <2>1 DEF WakesServed
<1>14. ASSUME StepFails PROVE WakesServed'
  BY <1>14 DEF StepFails, LeaveTurn, WakesServed, Owed, Pending, inbox, bystanders
<1>15. ASSUME StoppingDone PROVE WakesServed'
  BY <1>15, ClaimsNext DEF StoppingDone, EndTurn, WakesServed, Looking
<1>16. ASSUME StoppingAborts PROVE WakesServed'
  <2>1. Owed' = Owed /\ ~Looking /\ (Latched => Latched')
    BY <1>16 DEF StoppingAborts, LeaveTurn, Owed, Pending, Looking, Latched, inbox, bystanders
  <2>2. QED
    BY <2>1 DEF WakesServed
<1>17. ASSUME StoppingFails PROVE WakesServed'
  BY <1>17 DEF StoppingFails, LeaveTurn, WakesServed, Owed, Pending, inbox, bystanders
<1>18. ASSUME CloseTurn PROVE WakesServed'
  <2>1. CASE Pending = {}
    BY <1>18, <2>1 DEF CloseTurn, WakesServed, Owed, Pending, inbox
  <2>2. CASE Pending # {}
    BY <1>18, <2>2 DEF CloseTurn, WakesServed, Looking
  <2>3. QED
    BY <2>1, <2>2
<1>19. ASSUME Retire PROVE WakesServed'
  <2>1. Owed' = Owed /\ ~Looking
    BY <1>19 DEF Retire, Owed, Pending, Looking, inbox, history
  <2>2. Latched => unwinding' = "replay"
    BY <1>19 DEF Retire, Calm, Links, Latched, Unwinding
  <2>3. QED
    BY <1>19, <2>1, <2>2 DEF Retire, WakesServed, Latched
<1>20. ASSUME Replay PROVE WakesServed'
  <2>1. CASE unwinding = "replay" /\ Pending # {} /\ phase = "idle"
    BY <1>20, <2>1 DEF Replay, WakeDriver, StartDriver, WakesServed, Looking
  <2>2. CASE unwinding = "replay" /\ Pending # {} /\ phase # "idle"
    <3>1. Owed' = Owed /\ (Looking => Looking')
      BY <1>20, <2>2 DEF Replay, WakeDriver, Owed, Pending, Looking, inbox
    <3>2. Latched => Latched'
      BY <1>20, <2>2 DEF Replay, WakeDriver, Latches, Latched, TypeOK, inbox
    <3>3. QED
      BY <3>1, <3>2 DEF WakesServed
  <2>3. CASE ~(unwinding = "replay" /\ Pending # {})
    <3>1. Owed' = Owed /\ (Looking => Looking')
      BY <1>20, <2>3 DEF Replay, Owed, Pending, Looking, inbox, driver
    <3>2. Pending = {} => Owed = {}
      BY DEF Owed
    <3>3. unwinding # "replay" /\ Latched => Latched'
      BY <1>20, <2>3 DEF Replay, Latched, driver
    <3>4. QED
      BY <2>3, <3>1, <3>2, <3>3 DEF WakesServed
  <2>4. QED
    BY <2>1, <2>2, <2>3
<1>21. ASSUME WhenIdle PROVE WakesServed'
  BY <1>21 DEF WhenIdle, WakesServed, Owed, Pending, Looking, Latched, inbox, driver, history
<1>22. ASSUME WaiterResumes PROVE WakesServed'
  BY <1>22 DEF WaiterResumes, WakesServed, Owed, Pending, Looking, Latched, inbox, driver, history
<1>23. ASSUME UNCHANGED vars PROVE WakesServed'
  BY <1>23 DEF vars, WakesServed, Owed, Pending, Looking, Latched
<1>24. QED
  BY <1>1, <1>2, <1>3, <1>4, <1>5, <1>6, <1>7, <1>8, <1>8a, <1>8b, <1>9, <1>10, <1>11, <1>11a, <1>12, <1>13, <1>14, <1>15, <1>16, <1>17, <1>18, <1>19, <1>20, <1>21, <1>22, <1>23 DEF Next, Driver

-----------------------------------------------------------------------------
(* In every reachable state of one agent (agent.ts, inbox.ts), whatever    *)
(* the messages: every message is in one place, and a queued waking one is *)
(* excused or has somebody who will look at it.                            *)
THEOREM Invariance == Spec => []IInv
<1>1. Init => IInv
  <2> SUFFICES ASSUME Init PROVE IInv
    OBVIOUS
  <2>1. TypeOK
    BY EmptyQueue DEF Init, TypeOK, Pc
  <2>2. MessagesAccounted
    BY EmptyQueue, AccountedMeans DEF Init, Spread
  <2>3. Links /\ WakesServed
    BY DEF Init, Links, WakesServed, Owed, Publishing, Claiming
  <2>4. QED
    BY <2>1, <2>2, <2>3 DEF IInv
<1>2. IInv /\ [Next]_vars => IInv'
  BY TypesKept, AccountedKept, LinksKept, WakesKept DEF IInv
<1>3. QED
  BY <1>1, <1>2, PTL DEF Spec

(* Claims that span both queues, reroutes, clears, withdrawals and         *)
(* rejected or aborted proposals neither lose nor duplicate a message.     *)
THEOREM MessagesCorrect == Spec => []Inv
<1>1. IInv => Inv
  BY DEF IInv, Inv
<1>2. QED
  BY Invariance, <1>1, PTL

(* An idle agent holds no waking message that was not left there on        *)
(* purpose or sent behind turn()'s last look at the queue.                 *)
THEOREM WakeCorrect == Spec => []NoLostWake
<1>1. IInv => NoLostWake
  BY DEF IInv, NoLostWake, Quiescent, Links, WakesServed, Owed, Looking, Latched
<1>2. QED
  BY Invariance, <1>1, PTL

(* Only a driver with a live signal begins a claim or opens a step; what a *)
(* listener aborts from within is finished.                                *)
Stops ==
    aborted # "no" /\ aborted' = aborted =>
        /\ pc' \in Claiming => pc \in Claiming
        /\ pc' = "opening" => pc = "opening"
        /\ claimed' \subseteq claimed \/ pc \in Claiming
        /\ entered' = entered \/ pc = "opening"

LEMMA AbortStops == ASSUME IInv, [Next]_vars PROVE Stops
<1>1. ASSUME NEW m \in Msg, NEW target \in {"next-turn", "next-step"}, NEW wakeup \in BOOLEAN,
             Send(m, target, wakeup)
      PROVE Stops
  BY <1>1 DEF Stops, Send, fates, driver, Claiming
<1>2. ASSUME NEW m \in Msg, Withdraw(m) PROVE Stops
  BY <1>2 DEF Stops, Withdraw, driver, Claiming
<1>3. ASSUME Wake PROVE Stops
  BY <1>3 DEF Stops, Wake, WakeDriver, StartDriver, fates, Claiming
<1>4. ASSUME CancelTurn PROVE Stops
  BY <1>4 DEF Stops, CancelTurn, Cancel, Claiming
<1>5. ASSUME Dispose PROVE Stops
  BY <1>5 DEF Stops, Dispose, Cancel, Claiming
<1>6. ASSUME MaintenanceStart PROVE Stops
  BY <1>6 DEF Stops, MaintenanceStart, fates, Claiming
<1>7. ASSUME MaintenanceEnd PROVE Stops
  BY <1>7 DEF Stops, MaintenanceEnd, StartDriver, fates, Claiming
<1>8. ASSUME BeginTurn PROVE Stops
  BY <1>8 DEF Stops, BeginTurn, MayClaim, fates, Claiming
<1>8a. ASSUME ClaimSteps PROVE Stops
  BY <1>8a, ClaimsNext DEF Stops, ClaimSteps, fates, Claiming
<1>8b. ASSUME ClaimPrompt PROVE Stops
  BY <1>8b DEF Stops, ClaimPrompt, fates, Claiming
<1>9. ASSUME PreStepAborts PROVE Stops
  BY <1>9 DEF Stops, PreStepAborts, LeaveTurn, Claiming
<1>10. ASSUME PreStepFails PROVE Stops
  BY <1>10 DEF Stops, PreStepFails, LeaveTurn, Claiming
<1>11. ASSUME PreStepEnters PROVE Stops
  BY <1>11 DEF Stops, PreStepEnters, Claiming
<1>11a. ASSUME EnterMessages PROVE Stops
  BY <1>11a DEF Stops, EnterMessages, Claiming
<1>12. ASSUME StepReturns PROVE Stops
  BY <1>12 DEF Stops, StepReturns, Claiming
<1>13. ASSUME StepAborts PROVE Stops
  BY <1>13 DEF Stops, StepAborts, LeaveTurn, Claiming
<1>14. ASSUME StepFails PROVE Stops
  BY <1>14 DEF Stops, StepFails, LeaveTurn, Claiming
<1>15. ASSUME StoppingDone PROVE Stops
  BY <1>15 DEF Stops, StoppingDone, Claiming
<1>16. ASSUME StoppingAborts PROVE Stops
  BY <1>16 DEF Stops, StoppingAborts, LeaveTurn, Claiming
<1>17. ASSUME StoppingFails PROVE Stops
  BY <1>17 DEF Stops, StoppingFails, LeaveTurn, Claiming
<1>18. ASSUME CloseTurn PROVE Stops
  BY <1>18 DEF Stops, CloseTurn, fates, Claiming
<1>19. ASSUME Retire PROVE Stops
  BY <1>19 DEF Stops, Retire, fates, Claiming
<1>20. ASSUME Replay PROVE Stops
  BY <1>20 DEF Stops, Replay, WakeDriver, StartDriver, fates, driver, Claiming
<1>21. ASSUME WhenIdle PROVE Stops
  BY <1>21 DEF Stops, WhenIdle, fates, driver, Claiming
<1>22. ASSUME WaiterResumes PROVE Stops
  BY <1>22 DEF Stops, WaiterResumes, fates, driver, Claiming
<1>23. ASSUME UNCHANGED vars PROVE Stops
  BY <1>23 DEF Stops, vars, Claiming
<1>24. QED
  BY <1>1, <1>2, <1>3, <1>4, <1>5, <1>6, <1>7, <1>8, <1>8a, <1>8b, <1>9, <1>10, <1>11, <1>11a, <1>12, <1>13, <1>14, <1>15, <1>16, <1>17, <1>18, <1>19, <1>20, <1>21, <1>22, <1>23 DEF Next, Driver

(* Cancellation is final for its turn: until a fresh signal is in place no *)
(* claim begins and no step opens, and only the claim or the step whose    *)
(* listener aborted the turn is finished.                                  *)
THEOREM AbortCorrect == Spec => AbortStopsTurn
<1>1. IInv /\ [Next]_vars => Stops
  BY AbortStops
<1>2. QED
  BY Invariance, <1>1, PTL DEF Spec, AbortStopsTurn, Stops

(* Only a waiter whose own activity has resolved is released.              *)
LEMMA ReleasedIdle ==
    ASSUME IInv, [Next]_vars
    PROVE  waiter # "done" /\ waiter' = "done" => phase = "idle" /\ pc = "none"
<1> DEFINE Released == waiter # "done" /\ waiter' = "done" => phase = "idle" /\ pc = "none"
<1>1. ASSUME NEW m \in Msg, NEW target \in {"next-turn", "next-step"}, NEW wakeup \in BOOLEAN,
             Send(m, target, wakeup)
      PROVE Released
  BY <1>1 DEF Send, activity
<1>2. ASSUME NEW m \in Msg, Withdraw(m) PROVE Released
  BY <1>2 DEF Withdraw, activity
<1>3. ASSUME Wake PROVE Released
  BY <1>3 DEF Wake, WakeDriver, StartDriver, NewActivity, activity
<1>4. ASSUME CancelTurn PROVE Released
  BY <1>4 DEF CancelTurn, Cancel
<1>5. ASSUME Dispose PROVE Released
  BY <1>5 DEF Dispose, Cancel
<1>6. ASSUME MaintenanceStart PROVE Released
  BY <1>6 DEF MaintenanceStart, NewActivity
<1>7. ASSUME MaintenanceEnd PROVE Released
  BY <1>7 DEF MaintenanceEnd, StartDriver, NewActivity
<1>8. ASSUME BeginTurn PROVE Released
  BY <1>8 DEF BeginTurn, activity, bystanders
<1>8a. ASSUME ClaimSteps PROVE Released
  BY <1>8a DEF ClaimSteps, activity
<1>8b. ASSUME ClaimPrompt PROVE Released
  BY <1>8b DEF ClaimPrompt, activity
<1>9. ASSUME PreStepAborts PROVE Released
  BY <1>9 DEF PreStepAborts, activity, bystanders
<1>10. ASSUME PreStepFails PROVE Released
  BY <1>10 DEF PreStepFails, activity, bystanders
<1>11. ASSUME PreStepEnters PROVE Released
  BY <1>11 DEF PreStepEnters, activity, bystanders
<1>11a. ASSUME EnterMessages PROVE Released
  BY <1>11a DEF EnterMessages, activity, bystanders
<1>12. ASSUME StepReturns PROVE Released
  BY <1>12 DEF StepReturns, activity, bystanders
<1>13. ASSUME StepAborts PROVE Released
  BY <1>13 DEF StepAborts, activity, bystanders
<1>14. ASSUME StepFails PROVE Released
  BY <1>14 DEF StepFails, activity, bystanders
<1>15. ASSUME StoppingDone PROVE Released
  BY <1>15 DEF StoppingDone, activity, bystanders
<1>16. ASSUME StoppingAborts PROVE Released
  BY <1>16 DEF StoppingAborts, activity, bystanders
<1>17. ASSUME StoppingFails PROVE Released
  BY <1>17 DEF StoppingFails, activity, bystanders
<1>18. ASSUME CloseTurn PROVE Released
  BY <1>18 DEF CloseTurn, activity, bystanders
<1>19. ASSUME Retire PROVE Released
  BY <1>19 DEF Retire, activity, bystanders
<1>20. ASSUME Replay PROVE Released
  BY <1>20 DEF Replay, WakeDriver, StartDriver, NewActivity, activity
<1>21. ASSUME WhenIdle PROVE Released
  BY <1>21 DEF WhenIdle, activity, bystanders
<1>22. ASSUME WaiterResumes PROVE Released
  BY <1>22 DEF WaiterResumes, AfterPrevious, IInv, Links
<1>23. ASSUME UNCHANGED vars PROVE Released
  BY <1>23 DEF vars
<1>24. QED
  BY <1>1, <1>2, <1>3, <1>4, <1>5, <1>6, <1>7, <1>8, <1>8a, <1>8b, <1>9, <1>10, <1>11, <1>11a, <1>12, <1>13, <1>14, <1>15, <1>16, <1>17, <1>18, <1>19, <1>20, <1>21, <1>22, <1>23 DEF Next, Driver

(* whenIdle returns only when no driver and no maintenance task is active. *)
THEOREM IdleCorrect == Spec => WhenIdleMeansIdle
<1>1. IInv /\ [Next]_vars
        => (waiter # "done" /\ waiter' = "done" => phase = "idle" /\ pc = "none")
  BY ReleasedIdle
<1>2. QED
  BY Invariance, <1>1, PTL DEF Spec, WhenIdleMeansIdle
=============================================================================
