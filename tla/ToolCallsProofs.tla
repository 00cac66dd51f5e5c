-------------------------- MODULE ToolCallsProofs ---------------------------
(***************************************************************************)
(* What holds of one step's tool calls for every number of calls, every    *)
(* pool size and every change of classification.  The inductive invariant  *)
(* says where the calls before, between and behind the committed and the   *)
(* started ones are, that every dispatch is held by the pool, that an      *)
(* exclusive call ends its group and has nothing uncommitted before it,    *)
(* and what the log holds of each call.                                    *)
(***************************************************************************)
EXTENDS ToolCalls, SequenceTheorems, TLAPS

(* The calls up to committed are answered, those behind started planned;   *)
(* only the last started one can be in preparation, the pool holds every   *)
(* dispatch, and only a failed scheduler leaves a broken call.             *)
Places ==
    /\ committed <= started /\ started <= last
    /\ \A c \in Call :
          /\ at[c] = "planned" <=> c > started
          /\ at[c] = "answered" <=> c <= committed
          /\ at[c] = "preparing" <=> pc = "preparing" /\ c = started
          /\ at[c] \in Dispatched => c \in inFlight
          /\ at[c] = "broken" => failed
    /\ pc = "preparing" => started \in Call
    /\ pc \in {"group", "returned"} => committed = started /\ inFlight = {}
    /\ pc = "thrown" => \A c \in Call : at[c] \notin Dispatched
    /\ stop => signal
    /\ pc = "returned" => signal \/ started = NCalls

(* An exclusive call at work ends its group and opened it too.             *)
Exclusives ==
    \A c \in Call : at[c] \in Working /\ startMode[c] = "exclusive" =>
                      c = last /\ committed = c - 1

(* The log holds the calls that started and the results that were          *)
(* committed; a step that returned has completed both.                     *)
Logged ==
    /\ pc # "returned" => \A c \in Call : /\ InLog(Called(c)) <=> c <= started
                                          /\ InLog(Result(c)) <=> c <= committed
    /\ pc = "returned" => \A c \in Call : InLog(Called(c)) /\ InLog(Result(c))

IInv == TypeOK /\ Places /\ Exclusives /\ Logged /\ LogInOrder

-----------------------------------------------------------------------------
(* What calls commitReady may take.                                        *)
LEMMA NextToCommit ==
    ASSUME TypeOK, Places, NEW c \in Call, Commits(c)
    PROVE  c = committed + 1 /\ c <= started /\ at[c] = "settled" /\ committed + 1 \in Call
  BY BoundsAssumption DEF TypeOK, Places, Commits, Call

(* Nothing more to commit, nothing failed and an empty pool: every started *)
(* call is answered, so the group is over.                                 *)
LEMMA GroupDone ==
    ASSUME TypeOK, Places, pc # "preparing", inFlight = {}, ~failed,
           ~\E c \in Call : Commits(c)
    PROVE  committed = started
<1> SUFFICES ASSUME committed < started PROVE FALSE
  BY DEF TypeOK, Places
<1> DEFINE c == committed + 1
<1>1. c \in Call /\ c <= started
  BY BoundsAssumption DEF TypeOK, Call
<1>2. at[c] = "settled"
  BY <1>1 DEF TypeOK, Places, Working, Dispatched
<1> QED
  BY <1>1, <1>2 DEF Commits

-----------------------------------------------------------------------------
(* An event appended behind all of its kind keeps the log in order.        *)
LEMMA LogAppend ==
    ASSUME log \in Seq(Event), LogInOrder, NEW e \in Event, log' = Append(log, e),
           \A i \in DOMAIN log : log[i].kind = e.kind => log[i].call < e.call,
           e.kind = "result" => InLog(Called(e.call))
    PROVE  /\ log' \in Seq(Event)
           /\ LogInOrder'
           /\ \A f : InLog(f)' <=> InLog(f) \/ f = e
<1>1. /\ log' \in Seq(Event)
      /\ DOMAIN log = 1..Len(log) /\ Len(log) \in Nat
      /\ DOMAIN log' = 1..(Len(log) + 1)
      /\ \A i \in 1..Len(log) : log'[i] = log[i]
      /\ log'[Len(log) + 1] = e
  BY AppendProperties, LenProperties
<1>2. \A f : InLog(f)' <=> InLog(f) \/ f = e
  <2> SUFFICES ASSUME NEW f PROVE InLog(f)' <=> InLog(f) \/ f = e
    OBVIOUS
  <2>1. InLog(f) => InLog(f)'
    BY <1>1 DEF InLog
  <2>2. f = e => InLog(f)'
    BY <1>1 DEF InLog
  <2>3. InLog(f)' => InLog(f) \/ f = e
    BY <1>1 DEF InLog
  <2> QED
    BY <2>1, <2>2, <2>3
<1>3. ASSUME NEW i \in DOMAIN log', NEW j \in DOMAIN log', i < j,
             log'[i].kind = log'[j].kind
      PROVE  log'[i].call < log'[j].call
  <2>1. i \in 1..Len(log)
    BY <1>1, <1>3
  <2>2. CASE j = Len(log) + 1
    BY <1>1, <1>3, <2>1, <2>2
  <2>3. CASE j \in 1..Len(log)
    BY <1>1, <1>3, <2>1, <2>3 DEF LogInOrder
  <2> QED
    BY <1>1, <2>2, <2>3
<1>4. ASSUME NEW i \in DOMAIN log', log'[i].kind = "result"
      PROVE  \E j \in 1..(i - 1) : log'[j] = Called(log'[i].call)
  <2>1. CASE i = Len(log) + 1
    BY <1>1, <1>4, <2>1 DEF InLog
  <2>2. CASE i \in 1..Len(log)
    <3>1. PICK j \in 1..(i - 1) : log[j] = Called(log[i].call)
      BY <1>1, <1>4, <2>2 DEF LogInOrder
    <3>2. j \in 1..Len(log)
      BY <1>1, <2>2
    <3> QED
      BY <1>1, <2>2, <3>1, <3>2
  <2> QED
    BY <1>1, <2>1, <2>2
<1> QED
  BY <1>1, <1>2, <1>3, <1>4 DEF LogInOrder

(* The log's events in terms of the calls it holds.                        *)
LEMMA LogBounds ==
    ASSUME IInv, pc # "returned", NEW i \in DOMAIN log
    PROVE  /\ log[i] \in Event
           /\ log[i].kind = "call" => log[i].call <= started
           /\ log[i].kind = "result" => log[i].call <= committed
<1>1. log[i] \in Event
  BY LenProperties DEF IInv, TypeOK
<1>2. CASE log[i].kind = "call"
  <2>1. log[i] = Called(log[i].call) /\ log[i].call \in Call
    BY <1>1, <1>2 DEF Event, Called
  <2>2. InLog(Called(log[i].call))
    BY <2>1 DEF InLog
  <2> QED
    BY <1>1, <1>2, <2>1, <2>2 DEF IInv, Logged
<1>3. CASE log[i].kind = "result"
  <2>1. log[i] = Result(log[i].call) /\ log[i].call \in Call
    BY <1>1, <1>3 DEF Event, Result
  <2>2. InLog(Result(log[i].call))
    BY <2>1 DEF InLog
  <2> QED
    BY <1>1, <1>3, <2>1, <2>2 DEF IInv, Logged
<1> QED
  BY <1>1, <1>2, <1>3 DEF Event

(* Recording the start of the next call.                                   *)
LEMMA StartLogs ==
    ASSUME IInv, pc # "returned", started + 1 \in Call,
           log' = Append(log, Called(started + 1))
    PROVE  /\ log' \in Seq(Event)
           /\ LogInOrder'
           /\ \A c \in Call : /\ InLog(Called(c))' <=> c <= started + 1
                              /\ InLog(Result(c))' <=> c <= committed
<1> DEFINE e == Called(started + 1)
<1>1. e \in Event /\ e.kind = "call" /\ e.call = started + 1
  BY DEF Event, Called
<1>2. \A i \in DOMAIN log : log[i].kind = e.kind => log[i].call < e.call
  BY <1>1, LogBounds DEF Event, Call, IInv, TypeOK
<1> HIDE DEF e
<1>3. /\ log' \in Seq(Event) /\ LogInOrder'
      /\ \A f : InLog(f)' <=> InLog(f) \/ f = e
  BY <1>1, <1>2, LogAppend DEF IInv, TypeOK, e
<1>4. ASSUME NEW c \in Call
      PROVE  /\ InLog(Called(c))' <=> c <= started + 1
             /\ InLog(Result(c))' <=> c <= committed
  <2>1. (Called(c) = e <=> c = started + 1) /\ Result(c) # e
    BY DEF e, Called, Result
  <2>2. InLog(Called(c)) <=> c <= started
    BY DEF IInv, Logged
  <2>3. InLog(Result(c)) <=> c <= committed
    BY DEF IInv, Logged
  <2>4. c <= started + 1 <=> c <= started \/ c = started + 1
    BY DEF IInv, TypeOK, Call
  <2>5. InLog(Called(c))' <=> c <= started + 1
    BY <1>3, <2>1, <2>2, <2>4 DEF Called
  <2>6. InLog(Result(c))' <=> c <= committed
    BY <1>3, <2>1, <2>3 DEF Result
  <2> QED
    BY <2>5, <2>6
<1> QED
  BY <1>3, <1>4

(* Recording the result of the next call to commit.                        *)
LEMMA ResultLogs ==
    ASSUME IInv, pc # "returned", committed + 1 \in Call, committed < started,
           log' = Append(log, Result(committed + 1))
    PROVE  /\ log' \in Seq(Event)
           /\ LogInOrder'
           /\ \A c \in Call : /\ InLog(Called(c))' <=> c <= started
                              /\ InLog(Result(c))' <=> c <= committed + 1
<1> DEFINE e == Result(committed + 1)
<1>1. e \in Event /\ e.kind = "result" /\ e.call = committed + 1
  BY DEF Event, Result
<1>2. \A i \in DOMAIN log : log[i].kind = e.kind => log[i].call < e.call
  BY <1>1, LogBounds DEF Event, Call, IInv, TypeOK
<1>3. InLog(Called(e.call))
  BY <1>1 DEF IInv, Logged, TypeOK, Call
<1> HIDE DEF e
<1>4. /\ log' \in Seq(Event) /\ LogInOrder'
      /\ \A f : InLog(f)' <=> InLog(f) \/ f = e
  BY <1>1, <1>2, <1>3, LogAppend DEF IInv, TypeOK, e
<1>5. ASSUME NEW c \in Call
      PROVE  /\ InLog(Called(c))' <=> c <= started
             /\ InLog(Result(c))' <=> c <= committed + 1
  <2>1. (Result(c) = e <=> c = committed + 1) /\ Called(c) # e
    BY DEF e, Called, Result
  <2>2. InLog(Called(c)) <=> c <= started
    BY DEF IInv, Logged
  <2>3. InLog(Result(c)) <=> c <= committed
    BY DEF IInv, Logged
  <2>4. c <= committed + 1 <=> c <= committed \/ c = committed + 1
    BY DEF IInv, TypeOK, Call
  <2>5. InLog(Called(c))' <=> c <= started
    BY <1>4, <2>1, <2>2 DEF Called
  <2>6. InLog(Result(c))' <=> c <= committed + 1
    BY <1>4, <2>1, <2>3, <2>4 DEF Result
  <2> QED
    BY <2>5, <2>6
<1> QED
  BY <1>4, <1>5

(* The events of the calls nobody started: the position of each, and what  *)
(* every position holds.                                                   *)
SkippedEvents ==
    [i \in 1..2 * (NCalls - Skipped) |->
       LET c == Skipped + (i + 1) \div 2
       IN  IF i % 2 = 1 THEN Called(c) ELSE Result(c)]

LEMMA SkippedFacts ==
    ASSUME started \in 0..NCalls
    PROVE  /\ SkippedEvents \in Seq(Event)
           /\ Len(SkippedEvents) = 2 * (NCalls - started)
           /\ \A i \in 1..2 * (NCalls - started) :
                 \E c \in Call :
                    \/ i = 2 * (c - started) - 1 /\ SkippedEvents[i] = Called(c)
                    \/ i = 2 * (c - started) /\ SkippedEvents[i] = Result(c)
           /\ \A c \in Call : c > started =>
                 /\ 2 * (c - started) - 1 \in 1..2 * (NCalls - started)
                 /\ 2 * (c - started) \in 1..2 * (NCalls - started)
                 /\ SkippedEvents[2 * (c - started) - 1] = Called(c)
                 /\ SkippedEvents[2 * (c - started)] = Result(c)
<1> DEFINE n == 2 * (NCalls - started)
<1>1. n \in Nat /\ DOMAIN SkippedEvents = 1..n
  BY BoundsAssumption DEF SkippedEvents, Skipped
<1>2. \A i \in 1..n : SkippedEvents[i] = IF i % 2 = 1 THEN Called(started + (i + 1) \div 2)
                                         ELSE Result(started + (i + 1) \div 2)
  BY DEF SkippedEvents, Skipped
<1>3. \A i \in 1..n : started + (i + 1) \div 2 \in Call
  BY BoundsAssumption DEF Call
<1>4. \A c \in Call : Called(c) \in Event /\ Result(c) \in Event
  BY DEF Called, Result, Event
<1>5. SkippedEvents \in [1..n -> Event]
  <2>1. \A i \in 1..n : SkippedEvents[i] \in Event
    BY <1>2, <1>3, <1>4
  <2>2. SkippedEvents = [i \in 1..n |-> SkippedEvents[i]]
    BY DEF SkippedEvents, Skipped
  <2> QED
    BY <2>1, <2>2
<1>6. SkippedEvents \in Seq(Event)
  BY <1>1, <1>5, SeqDef
<1>7. Len(SkippedEvents) = n
  BY <1>1, <1>6, LenProperties
<1>8. ASSUME NEW i \in 1..n
      PROVE  \E c \in Call :
                \/ i = 2 * (c - started) - 1 /\ SkippedEvents[i] = Called(c)
                \/ i = 2 * (c - started) /\ SkippedEvents[i] = Result(c)
  <2> DEFINE c == started + (i + 1) \div 2
  <2>1. c \in Call
    BY <1>3
  <2>2. CASE i % 2 = 1
    <3>1. i = 2 * (c - started) - 1
      BY <2>2, BoundsAssumption
    <3> QED
      BY <1>2, <2>1, <2>2, <3>1
  <2>3. CASE i % 2 # 1
    <3>1. i = 2 * (c - started)
      BY <2>3, BoundsAssumption
    <3> QED
      BY <1>2, <2>1, <2>3, <3>1
  <2> QED
    BY <2>2, <2>3
<1>9. ASSUME NEW c \in Call, c > started
      PROVE  /\ 2 * (c - started) - 1 \in 1..n
             /\ 2 * (c - started) \in 1..n
             /\ SkippedEvents[2 * (c - started) - 1] = Called(c)
             /\ SkippedEvents[2 * (c - started)] = Result(c)
  <2>1. 2 * (c - started) - 1 \in 1..n /\ 2 * (c - started) \in 1..n
    BY <1>9, BoundsAssumption DEF Call
  <2>2. /\ (2 * (c - started) - 1) % 2 = 1 /\ (2 * (c - started)) % 2 = 0
        /\ started + ((2 * (c - started) - 1) + 1) \div 2 = c
        /\ started + (2 * (c - started) + 1) \div 2 = c
    BY BoundsAssumption DEF Call
  <2> QED
    BY <1>2, <2>1, <2>2
<1> QED
  BY <1>6, <1>7, <1>8, <1>9

(* The step returns: every started call is answered and each of the rest   *)
(* gets its two events, in order.                                          *)
LEMMA SkippedLogs ==
    ASSUME IInv, pc # "returned", committed = started, AppendSkipped
    PROVE  /\ log' \in Seq(Event)
           /\ LogInOrder'
           /\ \A c \in Call : InLog(Called(c))' /\ InLog(Result(c))'
<1> DEFINE m == Len(log)
           n == 2 * (NCalls - started)
<1>0. /\ log \in Seq(Event) /\ started \in 0..NCalls /\ LogInOrder
      /\ DOMAIN log = 1..m /\ m \in Nat /\ n \in Nat
  BY LenProperties, BoundsAssumption DEF IInv, TypeOK
<1>s. /\ SkippedEvents \in Seq(Event)
      /\ Len(SkippedEvents) = n
      /\ \A i \in 1..n :
            \E c \in Call :
               \/ i = 2 * (c - started) - 1 /\ SkippedEvents[i] = Called(c)
               \/ i = 2 * (c - started) /\ SkippedEvents[i] = Result(c)
      /\ \A c \in Call : c > started =>
            /\ 2 * (c - started) - 1 \in 1..n
            /\ 2 * (c - started) \in 1..n
            /\ SkippedEvents[2 * (c - started) - 1] = Called(c)
            /\ SkippedEvents[2 * (c - started)] = Result(c)
  BY <1>0, SkippedFacts
<1>1. /\ log' \in Seq(Event) /\ Len(log') = m + n /\ DOMAIN log' = 1..(m + n)
      /\ \A i \in 1..m : log'[i] = log[i]
      /\ \A i \in 1..n : log'[m + i] = SkippedEvents[i]
  <2>1. log' = log \o SkippedEvents
    BY DEF AppendSkipped, SkippedEvents
  <2> HIDE DEF m, n
  <2>2. /\ log' \in Seq(Event) /\ Len(log') = m + n
        /\ \A i \in 1..(m + n) : log'[i] = IF i <= m THEN log[i] ELSE SkippedEvents[i - m]
    BY <1>0, <1>s, <2>1, ConcatProperties DEF m
  <2>3. DOMAIN log' = 1..(m + n)
    BY <2>2, LenProperties
  <2> QED
    BY <1>0, <2>2, <2>3
<1> HIDE DEF m, n
<1>2. ASSUME NEW c \in Call PROVE InLog(Called(c))' /\ InLog(Result(c))'
  <2>1. CASE c <= started
    <3>1. InLog(Called(c)) /\ InLog(Result(c))
      BY <2>1 DEF IInv, Logged
    <3>2. PICK i \in 1..m, j \in 1..m : log[i] = Called(c) /\ log[j] = Result(c)
      BY <1>0, <3>1 DEF InLog
    <3>3. i \in DOMAIN log' /\ j \in DOMAIN log' /\ log'[i] = Called(c) /\ log'[j] = Result(c)
      BY <1>0, <1>1, <3>2
    <3> QED
      BY <3>3 DEF InLog, Called, Result
  <2>2. CASE c > started
    <3>1. /\ 2 * (c - started) - 1 \in 1..n /\ 2 * (c - started) \in 1..n
          /\ log'[m + (2 * (c - started) - 1)] = Called(c)
          /\ log'[m + 2 * (c - started)] = Result(c)
      BY <1>1, <1>s, <2>2
    <3> QED
      BY <1>0, <1>1, <3>1 DEF InLog, Called, Result
  <2> QED
    BY <1>0, <2>1, <2>2 DEF Call
(* An old event names a started call, a new one a later one.               *)
<1>3. \A i \in 1..m : log'[i].call <= started /\ log'[i].call \in Call
  BY <1>0, <1>1, LogBounds DEF Event
<1>4. ASSUME NEW i \in (m + 1)..(m + n)
      PROVE  \E c \in Call :
                /\ c > started
                /\ \/ i = m + 2 * (c - started) - 1 /\ log'[i] = Called(c)
                   \/ i = m + 2 * (c - started) /\ log'[i] = Result(c)
  <2>1. i - m \in 1..n /\ m + (i - m) = i
    BY <1>0
  <2>2. PICK c \in Call :
           \/ i - m = 2 * (c - started) - 1 /\ log'[i] = Called(c)
           \/ i - m = 2 * (c - started) /\ log'[i] = Result(c)
    BY <1>1, <1>s, <2>1
  <2> QED
    BY <1>0, <2>1, <2>2 DEF Call
<1>5. ASSUME NEW i \in DOMAIN log', NEW j \in DOMAIN log', i < j,
             log'[i].kind = log'[j].kind
      PROVE  log'[i].call < log'[j].call
  <2>1. CASE j \in 1..m
    BY <1>0, <1>1, <1>5, <2>1 DEF LogInOrder
  <2>2. CASE j \notin 1..m
    <3>1. PICK d \in Call :
             /\ d > started
             /\ \/ j = m + 2 * (d - started) - 1 /\ log'[j] = Called(d)
                \/ j = m + 2 * (d - started) /\ log'[j] = Result(d)
      BY <1>0, <1>1, <1>4, <2>2
    <3>2. CASE i \in 1..m
      BY <1>0, <1>3, <3>1, <3>2 DEF Called, Result, Call
    <3>3. CASE i \notin 1..m
      <4>1. PICK c \in Call :
               /\ c > started
               /\ \/ i = m + 2 * (c - started) - 1 /\ log'[i] = Called(c)
                  \/ i = m + 2 * (c - started) /\ log'[i] = Result(c)
        BY <1>0, <1>1, <1>4, <3>3
      <4>2. /\ log'[i].call = c /\ log'[j].call = d
            /\ (log'[i].kind = "call" <=> i = m + 2 * (c - started) - 1)
            /\ (log'[j].kind = "call" <=> j = m + 2 * (d - started) - 1)
        BY <1>0, <3>1, <4>1 DEF Called, Result, Call
      <4>3. c < d
        <5>1. c \in Nat /\ d \in Nat /\ started \in Nat /\ m \in Nat
          BY <1>0 DEF Call
        <5>2. \/ i = m + 2 * (c - started) - 1 /\ j = m + 2 * (d - started) - 1
              \/ i = m + 2 * (c - started) /\ j = m + 2 * (d - started)
          <6>1. log'[i].kind = "call" <=> log'[j].kind = "call"
            BY <1>5
          <6>2. /\ i = m + 2 * (c - started) - 1 \/ i = m + 2 * (c - started)
                /\ j = m + 2 * (d - started) - 1 \/ j = m + 2 * (d - started)
            BY <3>1, <4>1
          <6>3. QED
            BY <4>2, <6>1, <6>2
        <5>3. QED
          BY <1>5, <5>1, <5>2
      <4> QED
        BY <4>2, <4>3
    <3> QED
      BY <3>2, <3>3
  <2> QED
    BY <2>1, <2>2
<1>6. ASSUME NEW i \in DOMAIN log', log'[i].kind = "result"
      PROVE  \E j \in 1..(i - 1) : log'[j] = Called(log'[i].call)
  <2>1. CASE i \in 1..m
    <3>1. PICK j \in 1..(i - 1) : log[j] = Called(log[i].call)
      BY <1>0, <1>1, <1>6, <2>1 DEF LogInOrder
    <3> QED
      BY <1>0, <1>1, <2>1, <3>1
  <2>2. CASE i \notin 1..m
    <3>0. i \in (m + 1)..(m + n)
      BY <1>0, <1>1, <2>2
    <3>a. PICK c \in Call :
             /\ c > started
             /\ \/ i = m + 2 * (c - started) - 1 /\ log'[i] = Called(c)
                \/ i = m + 2 * (c - started) /\ log'[i] = Result(c)
      BY <1>4, <3>0
    <3>1. c > started /\ i = m + 2 * (c - started) /\ log'[i] = Result(c)
      BY <1>6, <3>a DEF Called
    <3>2. /\ 2 * (c - started) - 1 \in 1..n
          /\ log'[m + (2 * (c - started) - 1)] = Called(c)
      BY <1>1, <1>s, <3>1
    <3>3. log'[i].call = c /\ m + (2 * (c - started) - 1) \in 1..(i - 1)
      <4>1. log'[i].call = c
        BY <3>1 DEF Result
      <4>2. PICK k \in 1..n : k = 2 * (c - started) - 1
        BY <3>2
      <4>3. c \in Nat /\ started \in Nat /\ m \in Nat
        BY <1>0 DEF Call
      <4>4. i = m + k + 1 /\ k >= 1
        BY <1>0, <3>1, <4>2, <4>3
      <4>5. m + k \in 1..(i - 1)
        BY <1>0, <4>3, <4>4
      <4> QED
        BY <4>1, <4>2, <4>5
    <3> QED
      BY <3>2, <3>3
  <2> QED
    BY <2>1, <2>2
<1> QED
  BY <1>1, <1>2, <1>5, <1>6 DEF LogInOrder

-----------------------------------------------------------------------------
(* What each action does to the log.                                       *)
LogKept == log' \in Seq(Event) /\ LogInOrder' /\ Logged'

LEMMA LogUnchanged ==
    ASSUME IInv, UNCHANGED log, UNCHANGED <<started, committed>>,
           pc = "returned" <=> pc' = "returned"
    PROVE  LogKept
  BY DEF IInv, TypeOK, LogKept, LogInOrder, Logged, InLog

LEMMA StartKeeps ==
    ASSUME IInv, pc # "returned", started + 1 \in Call, StartCall(started + 1),
           UNCHANGED committed
    PROVE  LogKept
<1>1. /\ log' = Append(log, Called(started + 1)) /\ started' = started + 1
      /\ pc' = "preparing"
  BY DEF StartCall
<1> QED
  BY <1>1, StartLogs DEF LogKept, Logged

LEMMA ResultKeeps ==
    ASSUME IInv, pc # "returned", pc' # "returned", NEW c \in Call, Commits(c),
           AppendResult(c), UNCHANGED started
    PROVE  LogKept
<1>1. c = committed + 1 /\ c <= started
  BY NextToCommit DEF IInv
<1>2. log' = Append(log, Result(committed + 1)) /\ committed' = committed + 1
  BY <1>1 DEF AppendResult
<1>3. committed + 1 \in Call /\ committed < started
  BY <1>1 DEF IInv, TypeOK
<1> QED
  BY <1>2, <1>3, ResultLogs DEF LogKept, Logged

LEMMA SkippedKeeps ==
    ASSUME IInv, pc # "returned", pc' = "returned", committed = started, AppendSkipped
    PROVE  LogKept
  BY SkippedLogs DEF LogKept, Logged

(* The ways on after a commit: to drain a failed pool, to race the pool,   *)
(* to the next group, to one more call of the group, or to the return.     *)
GoesOn(to) ==
    /\ pc' = to /\ UNCHANGED <<started, at, startMode, log>>
    /\ to = "draining" => failed /\ UNCHANGED stop
    /\ to # "draining" => stop' = StopNow
    /\ to = "group" => ~failed /\ inFlight = {}

Joining ==
    /\ ~StopNow /\ ~failed /\ started < last /\ Joins(started + 1)
    /\ StartCall(started + 1) /\ stop' = StopNow

Returning ==
    /\ StopNow /\ ~failed /\ inFlight = {} /\ pc' = "returned" /\ AppendSkipped
    /\ UNCHANGED <<started, at, startMode>> /\ stop' = StopNow

LEMMA ContinueCases ==
    ASSUME Continue
    PROVE  \/ GoesOn("draining") \/ GoesOn("race") \/ GoesOn("group")
           \/ Joining \/ Returning
<1>1. CASE failed
  BY <1>1 DEF Continue, GoesOn
<1>2. CASE ~failed /\ ~StopNow /\ started < last /\ Room /\ Joins(started + 1)
  BY <1>2 DEF Continue, Joining
<1>3. CASE ~failed /\ ~(~StopNow /\ started < last /\ Room /\ Joins(started + 1))
  BY <1>3 DEF Continue, GoesOn, Returning
<1> QED
  BY <1>1, <1>2, <1>3

(* Whatever step is taken, the log stays in order and holds what it says.  *)
LEMMA LogStep ==
    ASSUME IInv, [Next]_vars PROVE LogKept
<1> USE DEF control
<1>1. CASE NextGroup
  <2>1. pc = "group" /\ committed = started
    BY <1>1 DEF NextGroup, IInv, Places
  <2>2. CASE started = NCalls \/ signal
    BY <1>1, <2>1, <2>2, SkippedKeeps DEF NextGroup
  <2>3. CASE ~(started = NCalls \/ signal)
    <3>1. started + 1 \in Call
      BY <2>3, BoundsAssumption DEF IInv, TypeOK, Call
    <3> QED
      BY <1>1, <2>1, <2>3, <3>1, StartKeeps DEF NextGroup
  <2> QED
    BY <2>2, <2>3
<1>2. CASE Prepared
  BY <1>2, LogUnchanged DEF Prepared
<1>3. ASSUME NEW c \in Call, BodyBegins(c) \/ Settles(c) \/ Rejects(c) \/ Reclassify(c)
      PROVE  LogKept
  BY <1>3, LogUnchanged DEF BodyBegins, Settles, Rejects, Reclassify
<1>4. CASE Finish
  BY <1>4, ResultKeeps DEF Finish
<1>5. CASE Finalize
  BY <1>5, LogUnchanged DEF Finalize
<1>6. CASE Finalized
  BY <1>6, ResultKeeps DEF Finalized
<1>7. CASE Continue
  <2>1. CASE GoesOn("draining") \/ GoesOn("race") \/ GoesOn("group")
    BY <1>7, <2>1, LogUnchanged DEF GoesOn, Continue
  <2>2. CASE Joining
    <3>1. started + 1 \in Call
      BY <2>2, BoundsAssumption DEF Joining, IInv, TypeOK, Call
    <3> QED
      BY <1>7, <2>2, <3>1, StartKeeps DEF Joining, Continue
  <2>3. CASE Returning
    <3>1. committed = started
      BY <1>7, <2>3, GroupDone DEF Returning, Continue, IInv
    <3> QED
      BY <1>7, <2>3, <3>1, SkippedKeeps DEF Returning, Continue
  <2> QED
    BY <1>7, <2>1, <2>2, <2>3, ContinueCases
<1>8. CASE Race \/ Breaks \/ Throw \/ Abort
  BY <1>8, LogUnchanged DEF Race, Breaks, Throw, Abort
<1>9. CASE UNCHANGED vars
  BY <1>9, LogUnchanged DEF vars
<1> QED
  BY <1>1, <1>2, <1>3, <1>4, <1>5, <1>6, <1>7, <1>8, <1>9 DEF Next, Scheduler

-----------------------------------------------------------------------------
(* Every action takes well-typed states to well-typed states.              *)
LEMMA TypeStep ==
    ASSUME IInv, [Next]_vars PROVE TypeOK'
<1> USE BoundsAssumption DEF TypeOK, Call, Working, Dispatched, Mode, control
<1>l. log' \in Seq(Event)
  BY LogStep DEF LogKept
<1>t. TypeOK
  BY DEF IInv
<1>1. CASE NextGroup
  <2>1. CASE started = NCalls \/ signal
    BY <1>1, <1>l, <1>t, <2>1 DEF NextGroup
  <2>2. CASE ~(started = NCalls \/ signal)
    <3>1. started + 1 \in Call /\ started + 1 \in 0..NCalls /\ NCalls \in 0..NCalls
      BY <1>t, <2>2
    <3>2. StartCall(started + 1) /\ last' \in 0..NCalls
      BY <1>1, <2>2, <3>1 DEF NextGroup
    <3>3. at' \in [Call -> Working \cup {"planned", "settled", "answered", "broken"}]
      BY <1>t, <3>1, <3>2 DEF StartCall
    <3>4. startMode' \in [Call -> Mode \cup {"none"}]
      BY <1>t, <3>1, <3>2 DEF StartCall
    <3> QED
      BY <1>1, <1>l, <1>t, <2>2, <3>1, <3>2, <3>3, <3>4 DEF NextGroup, StartCall
  <2> QED
    BY <2>1, <2>2
<1>2. CASE Prepared
  <2>1. started \in Call
    BY <1>2 DEF Prepared, IInv, Places
  <2>2. at' \in [Call -> Working \cup {"planned", "settled", "answered", "broken"}]
    BY <1>2, <1>t, <2>1 DEF Prepared
  <2>3. inFlight' \subseteq Call /\ pc' \in {"commit", "draining"}
    BY <1>2, <1>t, <2>1 DEF Prepared
  <2> HIDE DEF Call, Working, Dispatched, Mode
  <2> QED
    BY <1>2, <1>t, <2>2, <2>3 DEF Prepared
<1>3. ASSUME NEW c \in Call, BodyBegins(c) \/ Settles(c) \/ Rejects(c) PROVE TypeOK'
  <2>1. CASE BodyBegins(c)
    BY <1>t, <2>1 DEF BodyBegins
  <2>2. CASE Settles(c)
    BY <1>t, <2>2 DEF Settles
  <2>3. CASE Rejects(c)
    BY <1>t, <2>3 DEF Rejects
  <2> QED
    BY <1>3, <2>1, <2>2, <2>3
<1>4. ASSUME NEW c \in Call, Reclassify(c) PROVE TypeOK'
  BY <1>4, <1>t DEF Reclassify
<1>5. CASE Finish \/ Finalized
  <2>1. PICK c \in Call : Commits(c) /\ AppendResult(c)
    BY <1>5 DEF Finish, Finalized
  <2>2. committed' \in 0..NCalls
    BY <2>1 DEF AppendResult
  <2>3. at' \in [Call -> Working \cup {"planned", "settled", "answered", "broken"}]
    BY <1>t, <2>1 DEF AppendResult
  <2> QED
    BY <1>5, <1>l, <1>t, <2>2, <2>3 DEF Finish, Finalized
<1>6. CASE Finalize
  BY <1>6, <1>t DEF Finalize
<1>7. CASE Continue
  <2>1. CASE GoesOn("draining") \/ GoesOn("race") \/ GoesOn("group")
    BY <1>7, <1>t, <2>1 DEF GoesOn, Continue, StopNow
  <2>2. CASE Joining
    BY <1>7, <1>l, <1>t, <2>2 DEF Joining, Continue, StopNow, StartCall
  <2>3. CASE Returning
    BY <1>7, <1>l, <1>t, <2>3 DEF Returning, Continue, StopNow
  <2> QED
    BY <1>7, <2>1, <2>2, <2>3, ContinueCases
<1>8. CASE Race \/ Throw \/ Abort
  BY <1>8, <1>t DEF Race, Throw, Abort
<1>9. CASE Breaks
  BY <1>9, <1>t DEF Breaks
<1>10. CASE UNCHANGED vars
  BY <1>10, <1>t DEF vars
<1> QED
  BY <1>1, <1>2, <1>3, <1>4, <1>5, <1>6, <1>7, <1>8, <1>9, <1>10 DEF Next, Scheduler

(* Every call stays where the commit and start pointers say it is.         *)
LEMMA PlacesStep ==
    ASSUME IInv, [Next]_vars PROVE Places'
<1> USE BoundsAssumption DEF IInv, TypeOK, Places, Call, Working, Dispatched, control
<1>1. CASE NextGroup
  <2>1. CASE started = NCalls \/ signal
    BY <1>1, <2>1 DEF NextGroup
  <2>2. CASE ~(started = NCalls \/ signal)
    BY <1>1, <2>2 DEF NextGroup, StartCall
  <2> QED
    BY <2>1, <2>2
<1>2. CASE Prepared
  BY <1>2 DEF Prepared
<1>3. ASSUME NEW c \in Call, BodyBegins(c) PROVE Places'
  BY <1>3 DEF BodyBegins
<1>4. ASSUME NEW c \in Call, Settles(c) \/ Rejects(c) PROVE Places'
  BY <1>4 DEF Settles, Rejects
<1>5. ASSUME NEW c \in Call, Reclassify(c) PROVE Places'
  BY <1>5 DEF Reclassify
<1>6. CASE Finish \/ Finalized
  <2>1. PICK c \in Call : Commits(c) /\ AppendResult(c)
    BY <1>6 DEF Finish, Finalized
  <2>2. c = committed + 1 /\ c <= started /\ at[c] = "settled"
    BY <2>1, NextToCommit
  <2> QED
    BY <1>6, <2>1, <2>2 DEF Finish, Finalized, AppendResult
<1>7. CASE Finalize
  BY <1>7 DEF Finalize
<1>8. CASE Continue
  <2>1. CASE GoesOn("draining") \/ GoesOn("race")
    BY <1>8, <2>1 DEF GoesOn, Continue, StopNow
  <2>2. CASE GoesOn("group")
    <3>1. committed = started
      BY <1>8, <2>2, GroupDone DEF GoesOn, Continue
    <3> QED
      BY <1>8, <2>2, <3>1 DEF GoesOn, Continue, StopNow
  <2>3. CASE Joining
    BY <1>8, <2>3 DEF Joining, Continue, StopNow, StartCall
  <2>4. CASE Returning
    <3>1. committed = started
      BY <1>8, <2>4, GroupDone DEF Returning, Continue
    <3> QED
      BY <1>8, <2>4, <3>1 DEF Returning, Continue, StopNow
  <2> QED
    BY <1>8, <2>1, <2>2, <2>3, <2>4, ContinueCases
<1>9. CASE Race
  BY <1>9 DEF Race
<1>10. CASE Breaks
  BY <1>10 DEF Breaks
<1>11. CASE Throw
  BY <1>11 DEF Throw, Drained
<1>12. CASE Abort
  BY <1>12 DEF Abort
<1>13. CASE UNCHANGED vars
  BY <1>13 DEF vars
<1> QED
  BY <1>1, <1>2, <1>3, <1>4, <1>5, <1>6, <1>7, <1>8, <1>9, <1>10, <1>11, <1>12, <1>13
     DEF Next, Scheduler

(* An exclusive call at work stays alone in its group.                     *)
LEMMA ExclusiveStep ==
    ASSUME IInv, [Next]_vars PROVE Exclusives'
<1> USE BoundsAssumption DEF IInv, TypeOK, Places, Exclusives, Call, Working, Dispatched, control
<1>1. CASE NextGroup
  <2>1. CASE started = NCalls \/ signal
    BY <1>1, <2>1 DEF NextGroup
  <2>2. CASE ~(started = NCalls \/ signal)
    BY <1>1, <2>2 DEF NextGroup, StartCall
  <2> QED
    BY <2>1, <2>2
<1>2. CASE Prepared
  BY <1>2 DEF Prepared
<1>3. ASSUME NEW c \in Call, BodyBegins(c) \/ Settles(c) \/ Rejects(c) PROVE Exclusives'
  <2>1. /\ at[c] \in Dispatched /\ \A d \in Call \ {c} : at'[d] = at[d]
        /\ UNCHANGED <<last, committed, startMode>>
    BY <1>3 DEF BodyBegins, Settles, Rejects
  <2> QED
    BY <2>1
<1>4. ASSUME NEW c \in Call, Reclassify(c) PROVE Exclusives'
  BY <1>4 DEF Reclassify
<1>5. CASE Finish \/ Finalized
  <2>1. PICK c \in Call : Commits(c) /\ AppendResult(c)
    BY <1>5 DEF Finish, Finalized
  <2>2. c = committed + 1 /\ c <= started /\ at[c] = "settled"
    BY <2>1, NextToCommit
  <2> QED
    BY <1>5, <2>1, <2>2 DEF Finish, Finalized, AppendResult
<1>6. CASE Finalize \/ Race \/ Throw \/ Abort
  BY <1>6 DEF Finalize, Race, Throw, Abort
<1>7. CASE Continue
  <2>1. CASE GoesOn("draining") \/ GoesOn("race") \/ GoesOn("group") \/ Returning
    BY <1>7, <2>1 DEF GoesOn, Returning, Continue
  <2>2. CASE Joining
    BY <1>7, <2>2 DEF Joining, Joins, Continue, StartCall
  <2> QED
    BY <1>7, <2>1, <2>2, ContinueCases
<1>8. CASE Breaks
  BY <1>8 DEF Breaks
<1>9. CASE UNCHANGED vars
  BY <1>9 DEF vars
<1> QED
  BY <1>1, <1>2, <1>3, <1>4, <1>5, <1>6, <1>7, <1>8, <1>9 DEF Next, Scheduler

-----------------------------------------------------------------------------
(* The step begins before its first group, with an empty log.              *)
LEMMA InitInv == Init => IInv
<1> SUFFICES ASSUME Init PROVE IInv
  OBVIOUS
<1>1. log \in Seq(Event) /\ DOMAIN log = {}
  BY DEF Init
<1>2. TypeOK
  <2>1. at \in [Call -> Working \cup {"planned", "settled", "answered", "broken"}]
    BY DEF Init
  <2>2. /\ startMode \in [Call -> Mode \cup {"none"}]
        /\ bodyMode \in [Call -> Mode \cup {"none"}]
    BY DEF Init
  <2>3. last \in 0..NCalls /\ started \in 0..NCalls /\ committed \in 0..NCalls
    BY BoundsAssumption DEF Init
  <2> QED
    BY <1>1, <2>1, <2>2, <2>3 DEF Init, TypeOK
<1>3. Places /\ Exclusives
  BY BoundsAssumption DEF Init, Places, Exclusives, Call, Working, Dispatched
<1>4. Logged /\ LogInOrder
  BY <1>1 DEF Init, Logged, LogInOrder, InLog, Call
<1> QED
  BY <1>2, <1>3, <1>4 DEF IInv

(* The inductive invariant, from which the theorems below follow.          *)
THEOREM Invariance == Spec => []IInv
<1>1. IInv /\ [Next]_vars => IInv'
  BY TypeStep, PlacesStep, ExclusiveStep, LogStep DEF IInv, LogKept
<1> QED
  BY InitInv, <1>1, PTL DEF Spec

(* Whatever bodies, policies and aborts do, no dispatch is left behind     *)
(* when the turn goes on, returns or fails.                                *)
THEOREM NothingLeft == Spec => []Inv
<1>1. IInv => Inv
  BY DEF IInv, Inv, TypeOK, NothingLeftBehind, Places, Working, Dispatched
<1> QED
  BY Invariance, <1>1, PTL

(* The log is replayable: calls and results are in model order, once each, *)
(* and each result follows its call.                                       *)
THEOREM OrderCorrect == Spec => []LogInOrder
  BY Invariance, PTL DEF IInv

(* A step that returned has answered each of its calls, and no step has    *)
(* made up the answer of a call it did not commit or skip.                 *)
THEOREM AnswersCorrect == Spec => []EveryCallAnswered
<1>1. IInv => EveryCallAnswered
  <2> SUFFICES ASSUME IInv PROVE EveryCallAnswered
    OBVIOUS
  <2>1. pc = "group" => committed = started
    BY DEF IInv, Places
  <2>2. ASSUME NEW c \in Call
        PROVE  /\ pc = "returned" => InLog(Called(c)) /\ InLog(Result(c))
               /\ InLog(Result(c)) => at[c] = "answered" \/ (pc = "returned" /\ signal)
    BY BoundsAssumption DEF IInv, Places, Logged, Call
  <2> QED
    BY <2>1, <2>2 DEF EveryCallAnswered
<1> QED
  BY Invariance, <1>1, PTL

(* A call that was exclusive when it started is at work alone, however     *)
(* tools are registered and replaced meanwhile.                            *)
THEOREM ExclusiveCorrect == Spec => []ExclusiveAlone
<1>1. IInv => ExclusiveAlone
  BY BoundsAssumption DEF IInv, TypeOK, Places, Exclusives, ExclusiveAlone, Call, Working, Dispatched
<1> QED
  BY Invariance, <1>1, PTL

(* What AbortStopsCalls asks of one step.                                  *)
StartsNothing ==
    signal => \A c \in Call : /\ at[c] = "planned" => at'[c] = "planned"
                              /\ at'[c] = "running" => at[c] = "running"

LEMMA AbortStep ==
    ASSUME IInv, [Next]_vars PROVE StartsNothing
<1> USE DEF IInv, TypeOK, Places, Dispatched, StartsNothing, control
<1>1. CASE NextGroup
  BY <1>1 DEF NextGroup
<1>2. CASE Prepared
  BY <1>2 DEF Prepared
<1>3. ASSUME NEW c \in Call, BodyBegins(c) \/ Settles(c) \/ Rejects(c) \/ Reclassify(c)
      PROVE  StartsNothing
  <2>1. CASE BodyBegins(c)
    BY <2>1 DEF BodyBegins, BodyAllowed
  <2>2. CASE Settles(c) \/ Rejects(c)
    BY <2>2 DEF Settles, Rejects
  <2>3. CASE Reclassify(c)
    BY <2>3 DEF Reclassify
  <2> QED
    BY <1>3, <2>1, <2>2, <2>3
<1>4. CASE Finish \/ Finalized
  <2>1. PICK c \in Call : Commits(c) /\ AppendResult(c)
    BY <1>4 DEF Finish, Finalized
  <2>2. \A d \in Call : at'[d] = at[d] \/ (at[d] = "settled" /\ at'[d] = "answered")
    BY <2>1 DEF AppendResult, Commits
  <2> QED
    BY <2>2
<1>5. CASE Finalize \/ Race \/ Throw \/ Abort
  BY <1>5 DEF Finalize, Race, Throw, Abort
<1>6. CASE Continue
  BY <1>6, ContinueCases DEF GoesOn, Joining, Returning, StopNow
<1>7. CASE Breaks
  BY <1>7 DEF Breaks
<1>8. CASE UNCHANGED vars
  BY <1>8 DEF vars
<1> QED
  BY <1>1, <1>2, <1>3, <1>4, <1>5, <1>6, <1>7, <1>8 DEF Next, Scheduler

(* Once the step is aborted no further call starts and no body begins.     *)
THEOREM AbortCorrect == Spec => AbortStopsCalls
  BY Invariance, AbortStep, PTL DEF Spec, AbortStopsCalls, StartsNothing
=============================================================================
