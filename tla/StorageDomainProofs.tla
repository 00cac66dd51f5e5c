------------------------ MODULE StorageDomainProofs ------------------------
(***************************************************************************)
(* What holds of a storage domain for every set of handles, callers and    *)
(* keys: the file has one writer, and the domain implements the atomic map *)
(* of AtomicMap.  Both rest on one invariant: a unit that could publish    *)
(* holds the backend's only slot, the name's only owner outside the        *)
(* orphans is the one it is reserved for, the chains hold each waiting     *)
(* caller once, and the unit's state differs from memory by exactly the    *)
(* write that is being published.                                          *)
(***************************************************************************)
EXTENDS StorageDomain, SequenceTheorems, FiniteSetTheorems, TLAPS

(* Each waiting caller is in one place of one chain, only the head of a    *)
(* chain is past "queued", and only an open or draining domain has one.    *)
Chains ==
    /\ \A h \in Handle : \A i \in 1..Len(chain[h]) :
          /\ call[chain[h][i]] # Free
          /\ i > 1 => call[chain[h][i]].at = "queued"
    /\ \A g, h \in Handle : \A i \in 1..Len(chain[g]), j \in 1..Len(chain[h]) :
          chain[g][i] = chain[h][j] => g = h /\ i = j
    /\ \A h \in Handle : chain[h] # <<>> => phase[h] \in {"open", "draining"}

(* One handle at a time opens or holds the slot; what could publish does.  *)
Slots ==
    /\ \A g, h \in opening \cup slots : g = h
    /\ \A h \in Handle :
          /\ h \in opening <=> phase[h] = "opening"
          /\ h \in slots => phase[h] \in {"loading", "open", "draining", "releasing"}
          /\ unit[h] = "open" => h \in slots /\ phase[h] \in {"loading", "open", "draining"}
          /\ Publishing(h) => h \in slots
    /\ backend = "closed" => opening = {} /\ slots = {}

(* Of the handles the mounted facility knows at most one is not closed,    *)
(* and the name is reserved for it.                                        *)
Names ==
    /\ \A h \in orphans : phase[h] # "closed"
    /\ \A g, h \in Handle \ orphans : phase[g] # "closed" /\ phase[h] # "closed" => g = h
    /\ facility # "unmounted" /\ ~reserved => \A h \in Handle \ orphans : phase[h] = "closed"

(* The unit's state is the file while the domain loads, memory while       *)
(* nothing is published, and memory with the running write meanwhile; a    *)
(* renamed file holds that state.                                          *)
Copied(h, c) ==
    /\ call[c].op.do # "put" => memory[h][call[c].op.key] # Absent
    /\ state[h] = After(call[c].op, memory[h])
    /\ call[c].was = memory[h][call[c].op.key]
    /\ call[c].at = "renamed" => file = state[h]

CopyOf(h) ==
    /\ phase[h] = "loading" /\ unit[h] = "open" => state[h] = file
    /\ phase[h] \in {"open", "draining"} /\ ~Publishing(h) => state[h] = memory[h]
    /\ Publishing(h) => Copied(h, Head(chain[h]))

Copies == \A h \in Handle : CopyOf(h)

IInv == TypeOK /\ Chains /\ Slots /\ Names /\ Copies

-----------------------------------------------------------------------------
(* What a write makes of the records: it stays in type and leaves the      *)
(* other keys alone.                                                       *)
LEMMA AfterFacts ==
    ASSUME NEW op \in Op, NEW m \in Records
    PROVE  /\ op.key \in Key
           /\ After(op, m) \in Records
           /\ \A k \in Key : k # op.key => After(op, m)[k] = m[k]
<1>1. op.key \in Key /\ op.do \in {"put", "delete", "update"} /\ op.value \in 0..MaxValue
  BY BoundsAssumption DEF Op, Absent
<1>2. Transformed(m[op.key]) \in 0..MaxValue
  <2>1. m[op.key] \in Nat /\ MaxValue \in Nat \ {0}
    BY <1>1, BoundsAssumption DEF Records
  <2>2. m[op.key] % MaxValue \in 0..(MaxValue - 1)
    BY <2>1
  <2> QED
    BY <2>1, <2>2 DEF Transformed
<1>3. (CASE op.do = "put" -> op.value
         [] op.do = "delete" -> Absent
         [] op.do = "update" -> Transformed(m[op.key])) \in 0..MaxValue
  BY <1>1, <1>2, BoundsAssumption DEF Absent
<1>4. After(op, m) = [m EXCEPT ![op.key] =
                        CASE op.do = "put" -> op.value
                          [] op.do = "delete" -> Absent
                          [] op.do = "update" -> Transformed(m[op.key])]
  BY DEF After
<1> QED
  BY <1>1, <1>3, <1>4 DEF Records

(* Taking a write back restores the records it was applied to.             *)
LEMMA RollBack ==
    ASSUME NEW op \in Op, NEW m \in Records
    PROVE  [After(op, m) EXCEPT ![op.key] = m[op.key]] = m
<1>1. /\ op.key \in Key /\ After(op, m) \in [Key -> 0..MaxValue] /\ m \in [Key -> 0..MaxValue]
      /\ \A k \in Key : k # op.key => After(op, m)[k] = m[k]
  BY AfterFacts DEF Records
<1> QED
  BY <1>1

(* A write that waits is a call, and a free caller waits for nothing.      *)
Waiting == [op : Op, at : {"queued", "publishing", "renamed"}, was : 0..MaxValue]

LEMMA WaitingFacts ==
    /\ Free \notin Waiting
    /\ \A c \in Client : TypeOK /\ call[c] # Free => call[c] \in Waiting
    /\ Free.op = NoCall /\ NoCall \notin Op
    /\ Free.at = "free"
<1>1. Free.op = NoCall /\ Free.at = "free"
  BY DEF Free
<1>2. NoCall \notin Op
  <2>1. NoCall.do = "none" /\ \A op \in Op : op.do # "none"
    BY DEF NoCall, Op
  <2> QED
    BY <2>1
<1>3. Free \notin Waiting
  BY <1>1 DEF Waiting
<1> QED
  BY <1>1, <1>2, <1>3 DEF TypeOK, Waiting

(* What the steps use of a chain.                                          *)
LEMMA ChainFacts ==
    ASSUME NEW s \in Seq(Client)
    PROVE  /\ Len(s) \in Nat
           /\ \A i \in 1..Len(s) : s[i] \in Client
           /\ s # <<>> => /\ Len(s) >= 1
                          /\ Head(s) = s[1] /\ Head(s) \in Client
                          /\ Tail(s) \in Seq(Client) /\ Len(Tail(s)) = Len(s) - 1
                          /\ \A i \in 1..Len(Tail(s)) : Tail(s)[i] = s[i + 1]
           /\ \A c \in Client :
                 /\ Append(s, c) \in Seq(Client) /\ Append(s, c) # <<>>
                 /\ Len(Append(s, c)) = Len(s) + 1
                 /\ \A i \in 1..Len(s) : Append(s, c)[i] = s[i]
                 /\ Append(s, c)[Len(s) + 1] = c
                 /\ Head(Append(s, c)) = IF s = <<>> THEN c ELSE Head(s)
<1>1. Len(s) \in Nat /\ \A i \in 1..Len(s) : s[i] \in Client
  BY LenProperties
<1>2. s # <<>> => /\ Len(s) >= 1
                  /\ Head(s) = s[1] /\ Head(s) \in Client
                  /\ Tail(s) \in Seq(Client) /\ Len(Tail(s)) = Len(s) - 1
                  /\ \A i \in 1..Len(Tail(s)) : Tail(s)[i] = s[i + 1]
  BY EmptySeq, HeadTailProperties, LenProperties
<1>3. ASSUME NEW c \in Client
      PROVE  /\ Append(s, c) \in Seq(Client) /\ Append(s, c) # <<>>
             /\ Len(Append(s, c)) = Len(s) + 1
             /\ \A i \in 1..Len(s) : Append(s, c)[i] = s[i]
             /\ Append(s, c)[Len(s) + 1] = c
             /\ Head(Append(s, c)) = IF s = <<>> THEN c ELSE Head(s)
  BY AppendProperties, HeadTailAppend
<1> QED
  BY <1>1, <1>2, <1>3

(* A chain without repetition is no longer than there are callers.         *)
LEMMA ChainBounded ==
    ASSUME NEW s \in Seq(Client), \A i, j \in 1..Len(s) : s[i] = s[j] => i = j
    PROVE  Len(s) <= Cardinality(Client)
<1>1. s \in Injection(1..Len(s), Client) /\ Len(s) \in Nat
  BY LenProperties DEF Injection, IsInjective
<1>2. Cardinality(1..Len(s)) <= Cardinality(Client)
  BY <1>1, ClientAssumption, FS_Injection
<1>3. Cardinality(1..Len(s)) = Len(s)
  BY <1>1, FS_Interval
<1> QED
  BY <1>2, <1>3

-----------------------------------------------------------------------------
(* What the invariant says of the places of the chains.                    *)
LEMMA Once ==
    ASSUME IInv, NEW f \in Handle, NEW g \in Handle,
           NEW i \in 1..Len(chain[f]), NEW j \in 1..Len(chain[g]), chain[f][i] = chain[g][j]
    PROVE  f = g /\ i = j
BY DEF IInv, Chains

(* The head of a chain heads no other and waits in no other place.         *)
LEMMA HeadAlone ==
    ASSUME IInv, NEW h \in Handle, chain[h] # <<>>
    PROVE  LET c == Head(chain[h])
           IN  /\ c \in Client /\ c = chain[h][1] /\ call[c] \in Waiting
               /\ \A g \in Handle : \A i \in 1..Len(chain[g]) :
                     chain[g][i] = c => g = h /\ i = 1
               /\ \A g \in Handle \ {h} : chain[g] # <<>> => Head(chain[g]) # c
<1> DEFINE c == Head(chain[h])
<1>1. \A g \in Handle : chain[g] \in Seq(Client)
  BY DEF IInv, TypeOK
<1>2. Len(chain[h]) \in Nat /\ Len(chain[h]) >= 1 /\ c = chain[h][1] /\ c \in Client
  BY <1>1, ChainFacts
<1>3. call[c] \in Waiting
  <2>1. call[c] # Free
    BY <1>2 DEF IInv, Chains
  <2> QED
    BY <1>2, <2>1, WaitingFacts DEF IInv
<1>4. \A g \in Handle : \A i \in 1..Len(chain[g]) : chain[g][i] = c => g = h /\ i = 1
  <2>1. 1 \in 1..Len(chain[h])
    BY <1>2
  <2> QED
    BY <1>2, <2>1 DEF IInv, Chains
<1>5. ASSUME NEW g \in Handle \ {h}, chain[g] # <<>> PROVE Head(chain[g]) # c
  <2>1. 1 \in 1..Len(chain[g]) /\ Head(chain[g]) = chain[g][1]
    BY <1>1, <1>5, ChainFacts
  <2> QED
    BY <1>4, <2>1
<1> QED
  BY <1>2, <1>3, <1>4, <1>5

(* The types a step of the chains must keep.                               *)
ChainType ==
    /\ chain \in [Handle -> Seq(Client)]
    /\ \A h \in Handle : Len(chain[h]) <= Cardinality(Client)
    /\ call \in [Client -> {Free} \cup Waiting]

(* What a step leaves of every chain but h's, and what they publish.       *)
OthersKept(h) ==
    \A g \in Handle \ {h} :
      /\ chain'[g] = chain[g]
      /\ Publishing(g)' <=> Publishing(g)
      /\ chain[g] # <<>> => call'[Head(chain[g])] = call[Head(chain[g])]

(* A chain that keeps its places: its length is bounded.                   *)
LEMMA ChainLength ==
    ASSUME chain' \in [Handle -> Seq(Client)], Chains'
    PROVE  \A h \in Handle : Len(chain'[h]) <= Cardinality(Client)
<1> SUFFICES ASSUME NEW h \in Handle PROVE Len(chain'[h]) <= Cardinality(Client)
  OBVIOUS
<1>1. chain'[h] \in Seq(Client)
  OBVIOUS
<1>2. \A i, j \in 1..Len(chain'[h]) : chain'[h][i] = chain'[h][j] => i = j
  BY DEF Chains
<1> QED
  BY <1>1, <1>2, ChainBounded

(* The head of h's chain is answered and leaves; nothing of h is published *)
(* then.                                                                   *)
LEMMA FinishFacts ==
    ASSUME IInv, NEW c \in Client, NEW h \in Handle, NEW outcome,
           chain[h] # <<>>, Head(chain[h]) = c, Finish(c, h, outcome), UNCHANGED phase
    PROVE  ChainType' /\ Chains' /\ OthersKept(h) /\ ~Publishing(h)'
<1>1. \A g \in Handle : chain[g] \in Seq(Client) /\ Len(chain[g]) \in Nat
  BY LenProperties DEF IInv, TypeOK
<1>2. /\ call[c] \in Waiting /\ c = chain[h][1]
      /\ \A g \in Handle : \A i \in 1..Len(chain[g]) : chain[g][i] = c => g = h /\ i = 1
      /\ \A g \in Handle \ {h} : chain[g] # <<>> => Head(chain[g]) # c
  BY HeadAlone
<1>3. /\ chain'[h] = Tail(chain[h]) /\ \A g \in Handle \ {h} : chain'[g] = chain[g]
      /\ call'[c] = Free /\ \A d \in Client \ {c} : call'[d] = call[d]
  BY DEF Finish, IInv, TypeOK
<1>4. /\ Tail(chain[h]) \in Seq(Client) /\ Len(Tail(chain[h])) = Len(chain[h]) - 1
      /\ \A i \in 1..Len(Tail(chain[h])) : Tail(chain[h])[i] = chain[h][i + 1]
  BY <1>1, ChainFacts
<1>5. chain' \in [Handle -> Seq(Client)] /\ call' \in [Client -> {Free} \cup Waiting]
  BY <1>3, <1>4 DEF Finish, IInv, TypeOK, Waiting
<1>6. /\ \A i \in 1..Len(chain'[h]) : i + 1 \in 1..Len(chain[h]) /\ chain'[h][i] = chain[h][i + 1]
      /\ \A g \in Handle \ {h} : Len(chain'[g]) = Len(chain[g])
  BY <1>1, <1>3, <1>4
<1>7. \A g \in Handle : \A i \in 1..Len(chain'[g]) :
         \E j \in 1..Len(chain[g]) :
            /\ chain'[g][i] = chain[g][j] /\ chain'[g][i] \in Client \ {c}
            /\ j = IF g = h THEN i + 1 ELSE i
  <2> SUFFICES ASSUME NEW g \in Handle, NEW i \in 1..Len(chain'[g])
               PROVE  \E j \in 1..Len(chain[g]) :
                         /\ chain'[g][i] = chain[g][j] /\ chain'[g][i] \in Client \ {c}
                         /\ j = IF g = h THEN i + 1 ELSE i
    OBVIOUS
  <2> DEFINE j == IF g = h THEN i + 1 ELSE i
  <2>1. j \in 1..Len(chain[g]) /\ chain'[g][i] = chain[g][j]
    BY <1>3, <1>6
  <2>2. chain[g][j] \in Client
    BY <1>1, <2>1, ChainFacts
  <2>3. chain[g][j] # c
    BY <1>2, <2>1
  <2> QED
    BY <2>1, <2>2, <2>3
<1>8. ASSUME NEW g \in Handle, NEW i \in 1..Len(chain'[g])
      PROVE  call'[chain'[g][i]] # Free /\ (i > 1 => call'[chain'[g][i]].at = "queued")
  <2>1. PICK j \in 1..Len(chain[g]) :
           /\ chain'[g][i] = chain[g][j] /\ chain'[g][i] \in Client \ {c}
           /\ j = IF g = h THEN i + 1 ELSE i
    BY <1>7
  <2>2. call[chain[g][j]] # Free /\ (j > 1 => call[chain[g][j]].at = "queued")
    BY DEF IInv, Chains
  <2> QED
    BY <1>3, <2>1, <2>2
<1>9. ASSUME NEW f \in Handle, NEW g \in Handle,
             NEW i \in 1..Len(chain'[f]), NEW j \in 1..Len(chain'[g]),
             chain'[f][i] = chain'[g][j]
      PROVE  f = g /\ i = j
  <2>1. PICK k \in 1..Len(chain[f]) :
           chain'[f][i] = chain[f][k] /\ k = IF f = h THEN i + 1 ELSE i
    BY <1>7
  <2>2. PICK l \in 1..Len(chain[g]) :
           chain'[g][j] = chain[g][l] /\ l = IF g = h THEN j + 1 ELSE j
    BY <1>7
  <2>3. chain[f][k] = chain[g][l]
    BY <1>9, <2>1, <2>2
  <2>4. f = g /\ k = l
    BY <2>3, Once
  <2> QED
    BY <1>1, <2>1, <2>2, <2>4
<1>10. \A g \in Handle : chain'[g] # <<>> => phase'[g] \in {"open", "draining"}
  BY <1>3 DEF IInv, Chains
<1>11. Chains'
  BY <1>8, <1>9, <1>10 DEF Chains
<1>12. OthersKept(h)
  <2> SUFFICES ASSUME NEW g \in Handle \ {h}
               PROVE  /\ Publishing(g)' <=> Publishing(g)
                      /\ chain[g] # <<>> => call'[Head(chain[g])] = call[Head(chain[g])]
    BY <1>3 DEF OthersKept
  <2>1. chain[g] # <<>> => call'[Head(chain[g])] = call[Head(chain[g])]
    BY <1>1, <1>2, <1>3, ChainFacts
  <2> QED
    BY <1>3, <2>1 DEF Publishing
<1>13. ~Publishing(h)'
  <2> SUFFICES ASSUME chain'[h] # <<>>
               PROVE  call'[Head(chain'[h])].at = "queued"
    BY DEF Publishing
  <2>1. Len(chain'[h]) >= 1 /\ Head(chain'[h]) = chain'[h][1]
    BY <1>3, <1>4, ChainFacts
  <2>2. 1 \in 1..Len(chain'[h])
    BY <1>1, <1>3, <1>4, <2>1
  <2>3. chain'[h][1] = chain[h][2] /\ 2 \in 1..Len(chain[h]) /\ chain'[h][1] \in Client \ {c}
    BY <1>6, <1>7, <2>2
  <2>4. call[chain[h][2]].at = "queued"
    BY <2>3 DEF IInv, Chains
  <2> QED
    BY <1>3, <2>1, <2>3, <2>4
<1> QED
  BY <1>5, <1>11, <1>12, <1>13, ChainLength DEF ChainType

(* The head of h's chain moves on while it stays the head.                 *)
(* The job at the head of a chain goes on.                                 *)
Proceeds(c, at, was) == call' = [call EXCEPT ![c].at = at, ![c].was = was]

LEMMA ProceedFacts ==
    ASSUME IInv, NEW c \in Client, NEW h \in Handle, NEW at \in {"publishing", "renamed"},
           NEW was \in 0..MaxValue, chain[h] # <<>>, Head(chain[h]) = c,
           Proceeds(c, at, was), UNCHANGED <<chain, phase>>
    PROVE  /\ ChainType' /\ Chains' /\ OthersKept(h) /\ Publishing(h)'
           /\ call'[c] = [op |-> call[c].op, at |-> at, was |-> was]
<1>1. \A g \in Handle : chain[g] \in Seq(Client) /\ Len(chain[g]) \in Nat
  BY LenProperties DEF IInv, TypeOK
<1>2. /\ call[c] \in Waiting /\ c = chain[h][1]
      /\ \A g \in Handle : \A i \in 1..Len(chain[g]) : chain[g][i] = c => g = h /\ i = 1
      /\ \A g \in Handle \ {h} : chain[g] # <<>> => Head(chain[g]) # c
  BY HeadAlone
<1>3. /\ call'[c] = [op |-> call[c].op, at |-> at, was |-> was]
      /\ call'[c] \in Waiting
      /\ \A d \in Client \ {c} : call'[d] = call[d]
  <2>1. call \in [Client -> {Free} \cup Waiting] /\ call[c] \in Waiting
    BY <1>2 DEF IInv, TypeOK, Waiting
  <2> PICK moved : moved = [call EXCEPT ![c].at = at]
    OBVIOUS
  <2>0. call' = [moved EXCEPT ![c].was = was]
    BY DEF Proceeds
  <2>2. /\ moved[c] = [op |-> call[c].op, at |-> at, was |-> call[c].was]
        /\ DOMAIN moved = Client /\ \A d \in Client \ {c} : moved[d] = call[d]
    BY <2>1 DEF Waiting
  <2>3. /\ call'[c] = [op |-> call[c].op, at |-> at, was |-> was]
        /\ \A d \in Client \ {c} : call'[d] = call[d]
    BY <2>0, <2>2
  <2>4. [op |-> call[c].op, at |-> at, was |-> was] \in Waiting
    BY <2>1 DEF Waiting
  <2> QED
    BY <2>3, <2>4
<1>4. call' \in [Client -> {Free} \cup Waiting]
  <2>1. call \in [Client -> {Free} \cup Waiting]
    BY DEF IInv, TypeOK, Waiting
  <2> PICK moved : moved = [call EXCEPT ![c].at = at]
    OBVIOUS
  <2>2. call' = [d \in Client |-> call'[d]]
    <3>1. call' = [moved EXCEPT ![c].was = was]
      BY DEF Proceeds
    <3> QED
      BY <2>1, <3>1
  <2> QED
    BY <1>3, <2>1, <2>2
<1>5. Chains'
  <2>1. ASSUME NEW g \in Handle, NEW i \in 1..Len(chain'[g])
        PROVE  call'[chain'[g][i]] # Free /\ (i > 1 => call'[chain'[g][i]].at = "queued")
    <3>1. chain[g][i] \in Client
      BY <1>1, ChainFacts
    <3>2. CASE chain[g][i] = c
      BY <1>2, <1>3, <3>2, WaitingFacts
    <3>3. CASE chain[g][i] # c
      <4>1. call[chain[g][i]] # Free /\ (i > 1 => call[chain[g][i]].at = "queued")
        BY DEF IInv, Chains
      <4> QED
        BY <1>3, <3>1, <3>3, <4>1
    <3> QED
      BY <3>2, <3>3
  <2>2. /\ \A f, g \in Handle : \A i \in 1..Len(chain'[f]), j \in 1..Len(chain'[g]) :
              chain'[f][i] = chain'[g][j] => f = g /\ i = j
        /\ \A g \in Handle : chain'[g] # <<>> => phase'[g] \in {"open", "draining"}
    BY DEF IInv, Chains
  <2> QED
    BY <2>1, <2>2 DEF Chains
<1>6. OthersKept(h)
  <2> SUFFICES ASSUME NEW g \in Handle \ {h}
               PROVE  /\ Publishing(g)' <=> Publishing(g)
                      /\ chain[g] # <<>> => call'[Head(chain[g])] = call[Head(chain[g])]
    BY DEF OthersKept
  <2>1. chain[g] # <<>> => call'[Head(chain[g])] = call[Head(chain[g])]
    BY <1>1, <1>2, <1>3, ChainFacts
  <2> QED
    BY <2>1 DEF Publishing
<1>7. Publishing(h)'
  <2>1. chain'[h] # <<>> /\ Head(chain'[h]) = c /\ call'[c].at = at
    BY <1>3
  <2> QED
    BY <2>1 DEF Publishing
<1> QED
  BY <1>3, <1>4, <1>5, <1>6, <1>7 DEF ChainType, IInv, TypeOK

(* A caller joins the end of h's chain.                                    *)
LEMMA EnqueueFacts ==
    ASSUME IInv, NEW c \in Client, NEW h \in Handle, NEW op \in Op, enqueue(c, h, op)
    PROVE  /\ ChainType' /\ Chains' /\ OthersKept(h)
           /\ Publishing(h)' <=> Publishing(h)
           /\ Publishing(h) => /\ Head(chain'[h]) = Head(chain[h])
                               /\ call'[Head(chain[h])] = call[Head(chain[h])]
<1>1. \A g \in Handle : chain[g] \in Seq(Client) /\ Len(chain[g]) \in Nat
  BY LenProperties DEF IInv, TypeOK
<1>2. /\ call'[c] = [op |-> op, at |-> "queued", was |-> Absent] /\ call'[c] \in Waiting
      /\ \A d \in Client \ {c} : call'[d] = call[d]
      /\ chain'[h] = Append(chain[h], c)
      /\ \A g \in Handle \ {h} : chain'[g] = chain[g]
      /\ call[c] = Free /\ UNCHANGED phase /\ phase[h] = "open"
  BY BoundsAssumption DEF enqueue, IInv, TypeOK, Waiting, Absent
<1>3. /\ chain'[h] \in Seq(Client) /\ chain'[h] # <<>>
      /\ Len(chain'[h]) = Len(chain[h]) + 1
      /\ \A i \in 1..Len(chain[h]) : chain'[h][i] = chain[h][i]
      /\ chain'[h][Len(chain[h]) + 1] = c
      /\ Head(chain'[h]) = IF chain[h] = <<>> THEN c ELSE Head(chain[h])
  BY <1>1, <1>2, ChainFacts
<1>4. chain' \in [Handle -> Seq(Client)] /\ call' \in [Client -> {Free} \cup Waiting]
  BY <1>2, <1>3 DEF enqueue, IInv, TypeOK, Waiting
<1>5. \A g \in Handle : \A i \in 1..Len(chain[g]) : chain[g][i] \in Client \ {c}
  BY <1>1, <1>2, ChainFacts DEF IInv, Chains
<1>6. \A g \in Handle : \A i \in 1..Len(chain'[g]) :
         \/ g = h /\ i = Len(chain[h]) + 1 /\ chain'[g][i] = c
         \/ i \in 1..Len(chain[g]) /\ chain'[g][i] = chain[g][i]
  BY <1>1, <1>2, <1>3
<1>7. ASSUME NEW g \in Handle, NEW i \in 1..Len(chain'[g])
      PROVE  call'[chain'[g][i]] # Free /\ (i > 1 => call'[chain'[g][i]].at = "queued")
  <2>1. CASE g = h /\ i = Len(chain[h]) + 1 /\ chain'[g][i] = c
    BY <1>2, <2>1, WaitingFacts
  <2>2. CASE i \in 1..Len(chain[g]) /\ chain'[g][i] = chain[g][i]
    BY <1>2, <1>5, <2>2 DEF IInv, Chains
  <2> QED
    BY <1>6, <2>1, <2>2
<1>8. ASSUME NEW f \in Handle, NEW g \in Handle,
             NEW i \in 1..Len(chain'[f]), NEW j \in 1..Len(chain'[g]),
             chain'[f][i] = chain'[g][j]
      PROVE  f = g /\ i = j
  <2>1. CASE chain'[f][i] = c
    <3>1. f = h /\ i = Len(chain[h]) + 1
      BY <1>5, <1>6, <2>1
    <3>2. g = h /\ j = Len(chain[h]) + 1
      <4>1. chain'[g][j] = c
        BY <1>8, <2>1
      <4> QED
        BY <1>5, <1>6, <4>1
    <3> QED
      BY <3>1, <3>2
  <2>2. CASE chain'[f][i] # c
    <3>1. /\ i \in 1..Len(chain[f]) /\ chain'[f][i] = chain[f][i]
          /\ j \in 1..Len(chain[g]) /\ chain'[g][j] = chain[g][j]
      BY <1>6, <1>8, <2>2
    <3>2. chain[f][i] = chain[g][j]
      BY <1>8, <3>1
    <3> QED
      BY <3>1, <3>2, Once
  <2> QED
    BY <2>1, <2>2
<1>9. \A g \in Handle : chain'[g] # <<>> => phase'[g] \in {"open", "draining"}
  BY <1>2 DEF IInv, Chains
<1>10. Chains'
  BY <1>7, <1>8, <1>9 DEF Chains
<1>11. \A g \in Handle : chain[g] # <<>> => call'[Head(chain[g])] = call[Head(chain[g])]
  <2> SUFFICES ASSUME NEW g \in Handle, chain[g] # <<>>
               PROVE  call'[Head(chain[g])] = call[Head(chain[g])]
    OBVIOUS
  <2>1. 1 \in 1..Len(chain[g]) /\ Head(chain[g]) = chain[g][1]
    BY <1>1, ChainFacts
  <2> QED
    BY <1>2, <1>5, <2>1
<1>12. OthersKept(h)
  BY <1>2, <1>11 DEF OthersKept, Publishing
<1>13. Publishing(h)' <=> Publishing(h)
  <2>1. CASE chain[h] = <<>>
    BY <1>2, <1>3, <2>1 DEF Publishing
  <2>2. CASE chain[h] # <<>>
    BY <1>3, <1>11, <2>2 DEF Publishing
  <2> QED
    BY <2>1, <2>2
<1>14. Publishing(h) => /\ Head(chain'[h]) = Head(chain[h])
                        /\ call'[Head(chain[h])] = call[Head(chain[h])]
  BY <1>3, <1>11 DEF Publishing
<1> QED
  BY <1>4, <1>10, <1>12, <1>13, <1>14, ChainLength DEF ChainType

-----------------------------------------------------------------------------
(* Steps that leave the chains alone.                                      *)
LEMMA ChainsKept ==
    ASSUME IInv, UNCHANGED <<chain, call>>,
           \A h \in Handle : phase[h] \in {"open", "draining"} => phase'[h] \in {"open", "draining"}
    PROVE  /\ Chains'
           /\ \A h \in Handle : Publishing(h)' <=> Publishing(h)
<1>1. \A h \in Handle : chain'[h] # <<>> => phase'[h] \in {"open", "draining"}
  BY DEF IInv, Chains
<1>2. Chains'
  BY <1>1 DEF IInv, Chains
<1> QED
  BY <1>2 DEF Publishing

(* A handle that keeps its copies while the file stays keeps its relation  *)
(* to them.                                                                *)
LEMMA CopyKept ==
    ASSUME IInv, NEW g \in Handle, UNCHANGED file,
           memory'[g] = memory[g], state'[g] = state[g],
           Publishing(g)' <=> Publishing(g),
           Publishing(g) => /\ Head(chain'[g]) = Head(chain[g])
                            /\ call'[Head(chain[g])] = call[Head(chain[g])],
           phase'[g] = "loading" /\ unit'[g] = "open" => phase[g] = "loading" /\ unit[g] = "open",
           phase'[g] \in {"open", "draining"} => phase[g] \in {"open", "draining"}
    PROVE  CopyOf(g)'
<1>1. CopyOf(g)
  BY DEF IInv, Copies
<1>2. Publishing(g)' => Copied(g, Head(chain[g]))'
  <2>1. ASSUME Publishing(g)' PROVE Copied(g, Head(chain[g]))'
    <3>1. Copied(g, Head(chain[g])) /\ Publishing(g)
      BY <1>1, <2>1 DEF CopyOf
    <3>2. /\ call'[Head(chain'[g])] = call[Head(chain[g])]
          /\ memory'[g] = memory[g] /\ state'[g] = state[g] /\ file' = file
      BY <3>1
    <3> QED
      BY <3>1, <3>2 DEF Copied, After, Transformed
  <2> QED
    BY <2>1
<1> QED
  BY <1>1, <1>2 DEF CopyOf

(* Neither handles nor calls change: the plugins alone.                    *)
LEMMA PluginsAlone ==
    ASSUME IInv, UNCHANGED <<handles, call, medium>>
    PROVE  /\ Chains' /\ Copies'
           /\ \A h \in Handle : Publishing(h)' <=> Publishing(h)
<1> USE DEF handles, medium
<1>1. Chains' /\ \A h \in Handle : Publishing(h)' <=> Publishing(h)
  BY ChainsKept
<1>2. ASSUME NEW g \in Handle PROVE CopyOf(g)'
  BY <1>1, CopyKept
<1> QED
  BY <1>1, <1>2 DEF Copies

LEMMA PluginSteps ==
    ASSUME IInv, Mount \/ CloseBackend \/ RegisterBackend \/ Unmount \/ BackendClosed
                 \/ \E h \in Handle : FreeSlot(h)
    PROVE  IInv'
<1>0. UNCHANGED <<handles, call, medium>>
  BY DEF Mount, CloseBackend, RegisterBackend, Unmount, BackendClosed, FreeSlot
<1>1. Chains' /\ Copies' /\ \A h \in Handle : Publishing(h)' <=> Publishing(h)
  BY <1>0, PluginsAlone
<1>2. CASE Mount
  <2>1. TypeOK'
    BY <1>2 DEF IInv, TypeOK, Mount, Quiet, handles, medium
  <2>2. Slots'
    BY <1>1, <1>2 DEF IInv, Slots, Mount, handles
  <2>3. Names'
    BY <1>2 DEF IInv, Names, Mount, handles
  <2> QED
    BY <1>1, <2>1, <2>2, <2>3 DEF IInv
<1>3. CASE CloseBackend \/ RegisterBackend \/ Unmount \/ BackendClosed
  <2>1. TypeOK'
    BY <1>3 DEF IInv, TypeOK, CloseBackend, RegisterBackend, Unmount, BackendClosed, Quiet, handles, medium
  <2>2. Slots'
    BY <1>1, <1>3 DEF IInv, Slots, CloseBackend, RegisterBackend, Unmount, BackendClosed, handles, MayEndClose
  <2>3. Names'
    BY <1>3 DEF IInv, Names, CloseBackend, RegisterBackend, Unmount, BackendClosed, handles
  <2> QED
    BY <1>1, <2>1, <2>2, <2>3 DEF IInv
<1>4. ASSUME NEW h \in Handle, FreeSlot(h) PROVE IInv'
  <2>1. TypeOK'
    BY <1>4 DEF IInv, TypeOK, FreeSlot, Quiet, handles, medium
  <2>2. Slots'
    BY <1>1, <1>4 DEF IInv, Slots, FreeSlot, handles, MayFreeSlot
  <2>3. Names'
    BY <1>4 DEF IInv, Names, FreeSlot, handles
  <2> QED
    BY <1>1, <2>1, <2>2, <2>3 DEF IInv
<1> QED
  BY <1>2, <1>3, <1>4

LEMMA OpenStep ==
    ASSUME IInv, NEW h \in Handle, Open(h)
    PROVE  IInv'
<1>0. chain' = chain /\ call' = call /\ file' = file
  BY DEF Open, medium
<1>1. Chains' /\ \A g \in Handle : Publishing(g)' <=> Publishing(g)
  <2>1. \A g \in Handle : phase[g] \in {"open", "draining"} => phase'[g] \in {"open", "draining"}
    BY DEF Open, IInv, TypeOK
  <2> QED
    BY <1>0, <2>1, ChainsKept
<1>2. TypeOK'
  BY DEF Open, IInv, TypeOK, Quiet, medium
<1>3. Slots'
  BY <1>1 DEF Open, IInv, TypeOK, Slots
<1>4. Names'
  BY DEF Open, IInv, TypeOK, Names
<1>5. ASSUME NEW g \in Handle PROVE CopyOf(g)'
  <2>1. /\ memory'[g] = memory[g] /\ state'[g] = state[g] /\ unit'[g] = unit[g]
        /\ phase'[g] \in {"loading", "open", "draining"} => phase'[g] = phase[g]
    BY DEF Open, IInv, TypeOK
  <2> QED
    BY <1>0, <1>1, <2>1, CopyKept
<1> QED
  BY <1>1, <1>2, <1>3, <1>4, <1>5 DEF IInv, Copies

(* A handle whose open failed or that was released: it is closed, and the  *)
(* name is free for the next unless another facility reserves it.          *)
LEMMA Forgotten ==
    ASSUME IInv, NEW h \in Handle, FreeName(h), Forget(h), phase[h] \in {"opening", "loading", "releasing"},
           UNCHANGED <<call, file, facility>>
    PROVE  /\ Chains' /\ Names' /\ Copies'
           /\ \A g \in Handle : Publishing(g)' <=> Publishing(g)
           /\ ~Publishing(h)
<1>1. chain[h] = <<>>
  BY DEF IInv, Chains
<1>2. \A g \in Handle : phase'[g] = IF g = h THEN "closed" ELSE phase[g]
  BY DEF Forget, IInv, TypeOK
<1>3. Chains' /\ \A g \in Handle : Publishing(g)' <=> Publishing(g)
  BY <1>2, ChainsKept DEF Forget
<1>4. Names'
  <2>1. /\ \A g \in orphans : phase[g] # "closed"
        /\ \A f, g \in Handle \ orphans : phase[f] # "closed" /\ phase[g] # "closed" => f = g
        /\ facility # "unmounted" /\ ~reserved => \A g \in Handle \ orphans : phase[g] = "closed"
        /\ orphans \subseteq Handle
    BY DEF IInv, Names, TypeOK
  <2>2. orphans' = orphans \ {h} /\ (reserved' <=> reserved /\ h \in orphans)
    BY DEF FreeName
  <2>3. \A g \in orphans' : phase'[g] # "closed"
    BY <1>2, <2>1, <2>2
  <2>4. \A f, g \in Handle \ orphans' : phase'[f] # "closed" /\ phase'[g] # "closed" => f = g
    BY <1>2, <2>1, <2>2
  <2>5. facility' # "unmounted" /\ ~reserved' => \A g \in Handle \ orphans' : phase'[g] = "closed"
    BY <1>2, <2>1, <2>2
  <2> QED
    BY <2>3, <2>4, <2>5 DEF Names
<1>5. ASSUME NEW g \in Handle PROVE CopyOf(g)'
  <2>1. CASE g = h
    BY <1>1, <1>2, <1>3, <2>1 DEF CopyOf, Publishing
  <2>2. CASE g # h
    <3>1. memory'[g] = memory[g] /\ state'[g] = state[g] /\ unit'[g] = unit[g]
      BY <2>2 DEF Forget, IInv, TypeOK
    <3> QED
      BY <1>2, <1>3, <2>2, <3>1, CopyKept DEF Forget
  <2> QED
    BY <2>1, <2>2
<1> QED
  BY <1>1, <1>3, <1>4, <1>5 DEF Copies, Publishing

LEMMA ForgottenType ==
    ASSUME TypeOK, NEW h \in Handle, FreeName(h), Forget(h)
    PROVE  /\ reserved' \in BOOLEAN /\ orphans' \subseteq Handle
           /\ phase' \in [Handle -> {"closed", "opening", "loading", "open", "draining", "releasing"}]
           /\ unit' \in [Handle -> {"none", "open", "closed"}]
           /\ state' \in [Handle -> Records] /\ memory' \in [Handle -> Records]
           /\ chain' = chain
<1>1. Empty \in Records
  BY BoundsAssumption DEF Empty, Records, Absent
<1> QED
  BY <1>1 DEF TypeOK, FreeName, Forget

LEMMA openUnitStep ==
    ASSUME IInv, NEW h \in Handle, openUnit(h)
    PROVE  IInv'
<1>0. call' = call /\ file' = file /\ stable' = stable /\ phase[h] = "opening" /\ facility' = facility
  BY DEF openUnit, medium
<1>1. CASE OpenFails(h) /\ UNCHANGED slots
  <2>1. /\ Chains' /\ Names' /\ Copies'
        /\ \A g \in Handle : Publishing(g)' <=> Publishing(g)
    BY <1>0, <1>1, Forgotten DEF OpenFails
  <2>2. TypeOK'
    BY <1>0, <1>1, ForgottenType DEF openUnit, OpenFails, IInv, TypeOK, Quiet
  <2>3. Slots'
    BY <1>1, <2>1 DEF openUnit, OpenFails, Forget, IInv, TypeOK, Slots
  <2> QED
    BY <2>1, <2>2, <2>3 DEF IInv
<1>2. CASE ~(OpenFails(h) /\ UNCHANGED slots)
  <2>0. /\ backend = "open" /\ slots' = slots \cup {h}
        /\ phase' = [phase EXCEPT ![h] = "loading"]
        /\ unit' = [unit EXCEPT ![h] = "open"]
        /\ state' = [state EXCEPT ![h] = file]
        /\ UNCHANGED <<reserved, orphans, memory, chain>>
    BY <1>2 DEF openUnit
  <2>1. chain[h] = <<>>
    BY <1>0 DEF IInv, Chains
  <2>2. Chains' /\ \A g \in Handle : Publishing(g)' <=> Publishing(g)
    <3>1. \A g \in Handle : phase[g] \in {"open", "draining"} => phase'[g] \in {"open", "draining"}
      BY <1>0, <2>0 DEF IInv, TypeOK
    <3> QED
      BY <1>0, <2>0, <3>1, ChainsKept
  <2>3. TypeOK'
    BY <2>0 DEF openUnit, IInv, TypeOK, Quiet, medium
  <2>4. Slots'
    BY <1>0, <2>0, <2>1, <2>2 DEF openUnit, IInv, TypeOK, Slots
  <2>5. Names'
    BY <1>0, <2>0 DEF IInv, TypeOK, Names
  <2>6. ASSUME NEW g \in Handle PROVE CopyOf(g)'
    <3>1. CASE g = h
      BY <1>0, <2>0, <2>1, <2>2, <3>1 DEF CopyOf, Publishing, IInv, TypeOK
    <3>2. CASE g # h
      <4>1. /\ memory'[g] = memory[g] /\ state'[g] = state[g] /\ unit'[g] = unit[g]
            /\ phase'[g] = phase[g] /\ chain'[g] = chain[g]
        BY <2>0, <3>2 DEF IInv, TypeOK
      <4> QED
        BY <1>0, <2>2, <4>1, CopyKept
    <3> QED
      BY <3>1, <3>2
  <2> QED
    BY <2>2, <2>3, <2>4, <2>5, <2>6 DEF IInv, Copies
<1> QED
  BY <1>1, <1>2

LEMMA LoadStep ==
    ASSUME IInv, NEW h \in Handle, Load(h)
    PROVE  IInv'
<1>0. /\ call' = call /\ file' = file /\ stable' = stable /\ phase[h] = "loading"
      /\ facility' = facility /\ opening' = opening /\ backend' = backend
  BY DEF Load, medium
<1>1. CASE OpenFails(h) /\ slots' = slots \ {h}
  <2>1. /\ Chains' /\ Names' /\ Copies'
        /\ \A g \in Handle : Publishing(g)' <=> Publishing(g)
        /\ ~Publishing(h)
    BY <1>0, <1>1, Forgotten DEF OpenFails
  <2>2. TypeOK'
    BY <1>0, <1>1, ForgottenType DEF Load, OpenFails, IInv, TypeOK, Quiet
  <2>3. Slots'
    BY <1>0, <1>1, <2>1 DEF OpenFails, Forget, IInv, TypeOK, Slots
  <2> QED
    BY <2>1, <2>2, <2>3 DEF IInv
<1>2. CASE ~(OpenFails(h) /\ slots' = slots \ {h})
  <2>0. /\ unit[h] = "open"
        /\ memory' = [memory EXCEPT ![h] = state[h]]
        /\ phase' = [phase EXCEPT ![h] = "open"]
        /\ UNCHANGED <<reserved, orphans, slots, unit, state, chain>>
    BY <1>2 DEF Load
  <2>1. chain[h] = <<>>
    BY <1>0 DEF IInv, Chains
  <2>2. Chains' /\ \A g \in Handle : Publishing(g)' <=> Publishing(g)
    <3>1. \A g \in Handle : phase[g] \in {"open", "draining"} => phase'[g] \in {"open", "draining"}
      BY <2>0 DEF IInv, TypeOK
    <3> QED
      BY <1>0, <2>0, <3>1, ChainsKept
  <2>3. TypeOK'
    BY <1>0, <2>0 DEF Load, IInv, TypeOK, Quiet
  <2>4. Slots'
    BY <1>0, <2>0, <2>1, <2>2 DEF IInv, TypeOK, Slots
  <2>5. Names'
    BY <1>0, <2>0 DEF IInv, TypeOK, Names
  <2>6. ASSUME NEW g \in Handle PROVE CopyOf(g)'
    <3>1. CASE g = h
      BY <1>0, <2>0, <2>1, <2>2, <3>1 DEF CopyOf, Publishing, IInv, TypeOK
    <3>2. CASE g # h
      <4>1. /\ memory'[g] = memory[g] /\ state'[g] = state[g] /\ unit'[g] = unit[g]
            /\ phase'[g] = phase[g] /\ chain'[g] = chain[g]
        BY <2>0, <3>2 DEF IInv, TypeOK
      <4> QED
        BY <1>0, <2>2, <4>1, CopyKept
    <3> QED
      BY <3>1, <3>2
  <2> QED
    BY <2>2, <2>3, <2>4, <2>5, <2>6 DEF IInv, Copies
<1> QED
  BY <1>1, <1>2

LEMMA ReleasedStep ==
    ASSUME IInv, NEW h \in Handle, Released(h)
    PROVE  IInv'
<1>0. /\ call' = call /\ file' = file /\ stable' = stable /\ phase[h] = "releasing"
      /\ facility' = facility /\ opening' = opening /\ backend' = backend
      /\ slots' = slots \ {h} /\ FreeName(h) /\ Forget(h)
  BY DEF Released, medium
<1>1. /\ Chains' /\ Names' /\ Copies'
      /\ \A g \in Handle : Publishing(g)' <=> Publishing(g)
      /\ ~Publishing(h)
  BY <1>0, Forgotten
<1>2. TypeOK'
  BY <1>0, ForgottenType DEF Released, IInv, TypeOK, Quiet
<1>3. Slots'
  BY <1>0, <1>1 DEF Forget, IInv, TypeOK, Slots
<1> QED
  BY <1>1, <1>2, <1>3 DEF IInv

(* The steps that close: no chain, no record and no file changes.          *)
LEMMA ClosingSteps ==
    ASSUME IInv, closeAll \/ \E h \in Handle : close(h) \/ Drained(h) \/ CloseUnit(h)
    PROVE  IInv'
<1>0. /\ chain' = chain /\ call' = call /\ file' = file /\ stable' = stable
      /\ state' = state /\ memory' = memory
      /\ UNCHANGED <<reserved, orphans, backend, opening, slots>>
  BY DEF closeAll, close, Drained, CloseUnit, medium, plugins
<1>1. \A g \in Handle :
        /\ \/ phase'[g] = phase[g]
           \/ phase[g] = "open" /\ phase'[g] = "draining"
           \/ /\ phase[g] = "draining" /\ phase'[g] = "releasing"
              /\ chain[g] = <<>> /\ unit'[g] = "closed"
        /\ unit'[g] = unit[g] \/ unit'[g] = "closed"
  BY DEF closeAll, close, Drained, CloseUnit, IInv, TypeOK, MayDrain, MayCloseUnit
<1>2. Chains' /\ \A g \in Handle : Publishing(g)' <=> Publishing(g)
  <2>1. Chains'
    <3>1. \A g \in Handle : chain'[g] # <<>> => phase'[g] \in {"open", "draining"}
      BY <1>0, <1>1 DEF IInv, Chains
    <3> QED
      BY <1>0, <3>1 DEF IInv, Chains
  <2> QED
    BY <1>0, <2>1 DEF Publishing
<1>3. TypeOK'
  BY <1>0 DEF closeAll, close, Drained, CloseUnit, IInv, TypeOK, Quiet, plugins
<1>4. Slots'
  BY <1>0, <1>1, <1>2 DEF IInv, TypeOK, Slots
<1>5. Names'
  <2>1. (facility' # "unmounted") <=> (facility # "unmounted")
    BY DEF closeAll, close, Drained, CloseUnit, plugins
  <2>2. \A g \in Handle : phase'[g] = "closed" <=> phase[g] = "closed"
    BY <1>1
  <2> QED
    BY <1>0, <2>1, <2>2 DEF IInv, TypeOK, Names
<1>6. ASSUME NEW g \in Handle PROVE CopyOf(g)'
  BY <1>0, <1>1, <1>2, CopyKept
<1> QED
  BY <1>2, <1>3, <1>4, <1>5, <1>6 DEF IInv, Copies

(* A step of h's chain: it keeps the invariant when it keeps what the      *)
(* invariant says of h, writes the file only for a handle with the slot,   *)
(* and leaves the other handles alone.                                     *)
LEMMA ChainSteps ==
    ASSUME IInv, NEW h \in Handle,
           ChainType', Chains', OthersKept(h), UNCHANGED <<plugins, phase, unit>>,
           Publishing(h)' => h \in slots,
           \A g \in Handle \ {h} : state'[g] = state[g] /\ memory'[g] = memory[g],
           state' \in [Handle -> Records], memory' \in [Handle -> Records],
           file' \in Records, stable' \in Records,
           answer' \in {"none", "done", "missing", "rejected"},
           file' = file \/ h \in slots,
           CopyOf(h)'
    PROVE  IInv'
<1>0. /\ facility' = facility /\ reserved' = reserved /\ orphans' = orphans /\ awaited' = awaited
      /\ backend' = backend /\ opening' = opening /\ slots' = slots
      /\ phase' = phase /\ unit' = unit
  BY DEF plugins
<1>1. TypeOK'
  BY <1>0 DEF ChainType, IInv, TypeOK, Waiting
<1>2. \A g \in Handle \ {h} : Publishing(g)' <=> Publishing(g)
  BY DEF OthersKept
<1>3. Slots'
  BY <1>0, <1>2 DEF IInv, Slots
<1>4. Names'
  BY <1>0 DEF IInv, Names
<1>5. ASSUME NEW g \in Handle \ {h} PROVE CopyOf(g)'
  <2>1. /\ Publishing(g) => /\ Head(chain'[g]) = Head(chain[g])
                            /\ call'[Head(chain[g])] = call[Head(chain[g])]
        /\ state'[g] = state[g] /\ memory'[g] = memory[g]
    BY DEF OthersKept, Publishing
  <2>2. CASE file' = file
    BY <1>0, <1>2, <2>1, <2>2, CopyKept
  <2>3. CASE h \in slots
    <3>1. g \notin slots
      BY <2>3 DEF IInv, Slots
    <3>2. ~Publishing(g) /\ unit[g] # "open"
      BY <3>1 DEF IInv, Slots
    <3>3. phase[g] \in {"open", "draining"} => state[g] = memory[g]
      BY <3>2 DEF IInv, Copies, CopyOf
    <3> QED
      BY <1>0, <1>2, <2>1, <3>2, <3>3 DEF CopyOf
  <2> QED
    BY <2>2, <2>3
<1> QED
  BY <1>1, <1>3, <1>4, <1>5 DEF IInv, Copies

LEMMA enqueueStep ==
    ASSUME IInv, NEW c \in Client, NEW h \in Handle, NEW op \in Op, enqueue(c, h, op)
    PROVE  IInv'
<1>0. /\ UNCHANGED <<plugins, phase, unit>> /\ answer' = "none"
      /\ state' = state /\ memory' = memory /\ file' = file /\ stable' = stable
  BY DEF enqueue, Quiet, medium
<1>1. /\ ChainType' /\ Chains' /\ OthersKept(h)
      /\ Publishing(h)' <=> Publishing(h)
      /\ Publishing(h) => /\ Head(chain'[h]) = Head(chain[h])
                          /\ call'[Head(chain[h])] = call[Head(chain[h])]
  BY EnqueueFacts
<1>2. CopyOf(h)'
  BY <1>0, <1>1, CopyKept
<1>3. Publishing(h)' => h \in slots
  BY <1>1 DEF IInv, Slots
<1>4. state' \in [Handle -> Records] /\ memory' \in [Handle -> Records] /\ file' \in Records /\ stable' \in Records
  BY <1>0 DEF IInv, TypeOK
<1> QED
  BY <1>0, <1>1, <1>2, <1>3, <1>4, ChainSteps

(* What a job knows when it runs.                                          *)
LEMMA RunningFacts ==
    ASSUME IInv, NEW c \in Client, NEW h \in Handle, NEW at, Running(c, h, at)
    PROVE  /\ chain[h] # <<>> /\ Head(chain[h]) = c /\ call[c].at = at
           /\ call[c] \in Waiting /\ call[c].op \in Op /\ call[c].op.key \in Key
           /\ phase[h] \in {"open", "draining"}
           /\ state[h] \in Records /\ memory[h] \in Records
           /\ at \in {"publishing", "renamed"} => h \in slots /\ Publishing(h) /\ Copied(h, c)
           /\ at = "queued" => ~Publishing(h) /\ state[h] = memory[h]
<1>1. chain[h] # <<>> /\ Head(chain[h]) = c /\ call[c].at = at
  BY DEF Running
<1>2. call[c] \in Waiting
  BY <1>1, HeadAlone
<1>3. call[c].op \in Op
  BY <1>2 DEF Waiting
<1>4. phase[h] \in {"open", "draining"} /\ state[h] \in Records /\ memory[h] \in Records
  BY <1>1 DEF IInv, Chains, TypeOK
<1>5. call[c].op.key \in Key
  BY <1>3, <1>4, AfterFacts
<1>6. Publishing(h) <=> at \in {"publishing", "renamed"}
  BY <1>1 DEF Publishing
<1>7. CopyOf(h) /\ (Publishing(h) => h \in slots)
  BY DEF IInv, Copies, Slots
<1> QED
  BY <1>1, <1>2, <1>3, <1>4, <1>5, <1>6, <1>7 DEF CopyOf

LEMMA StartStep ==
    ASSUME IInv, NEW c \in Client, NEW h \in Handle, Start(c, h)
    PROVE  IInv'
<1>0. /\ UNCHANGED <<plugins, phase, unit>>
      /\ memory' = memory /\ file' = file /\ stable' = stable
  BY DEF Start, medium
<1>1. /\ chain[h] # <<>> /\ Head(chain[h]) = c
      /\ call[c] \in Waiting /\ call[c].op \in Op /\ call[c].op.key \in Key
      /\ phase[h] \in {"open", "draining"}
      /\ state[h] \in Records /\ memory[h] \in Records
      /\ ~Publishing(h) /\ state[h] = memory[h]
  BY RunningFacts DEF Start
<1>2. memory' \in [Handle -> Records] /\ file' \in Records /\ stable' \in Records
  BY <1>0 DEF IInv, TypeOK
<1>3. ASSUME NEW outcome \in {"missing", "rejected"}, Finish(c, h, outcome), UNCHANGED state
      PROVE  IInv'
  <2>1. ChainType' /\ Chains' /\ OthersKept(h) /\ ~Publishing(h)'
    BY <1>0, <1>1, <1>3, FinishFacts
  <2>2. CopyOf(h)'
    BY <1>0, <1>1, <1>3, <2>1 DEF CopyOf
  <2>3. state' \in [Handle -> Records] /\ answer' \in {"none", "done", "missing", "rejected"}
    BY <1>3 DEF Finish, IInv, TypeOK
  <2> QED
    BY <1>0, <1>2, <1>3, <2>1, <2>2, <2>3, ChainSteps
<1>4. ASSUME unit[h] = "open", state' = [state EXCEPT ![h] = After(call[c].op, state[h])],
             call' = [call EXCEPT ![c].at = "publishing", ![c].was = state[h][call[c].op.key]],
             UNCHANGED chain, Quiet,
             call[c].op.do # "put" => memory[h][call[c].op.key] # Absent
      PROVE  IInv'
  <2>1. state[h][call[c].op.key] \in 0..MaxValue
    BY <1>1 DEF Records
  <2>2. /\ ChainType' /\ Chains' /\ OthersKept(h) /\ Publishing(h)'
        /\ call'[c] = [op |-> call[c].op, at |-> "publishing", was |-> state[h][call[c].op.key]]
    <3>1. Proceeds(c, "publishing", state[h][call[c].op.key])
      BY <1>4 DEF Proceeds
    <3>2. chain[h] # <<>> /\ Head(chain[h]) = c
      BY <1>1
    <3>3. UNCHANGED <<chain, phase>>
      BY <1>0, <1>4
    <3> QED
      BY <2>1, <3>1, <3>2, <3>3, ProceedFacts
  <2>3. h \in slots
    BY <1>4 DEF IInv, Slots
  <2>4. /\ state' \in [Handle -> Records] /\ state'[h] = After(call[c].op, memory[h])
        /\ \A g \in Handle \ {h} : state'[g] = state[g]
    BY <1>1, <1>4, AfterFacts DEF IInv, TypeOK
  <2>5. Copied(h, c)'
    <3>1. /\ call'[c].op = call[c].op /\ call'[c].at = "publishing"
          /\ call'[c].was = memory'[h][call[c].op.key] /\ memory'[h] = memory[h]
      BY <1>0, <1>1, <2>2
    <3>2. state'[h] = After(call'[c].op, memory'[h])
      BY <2>4, <3>1
    <3> QED
      BY <1>0, <1>4, <3>1, <3>2 DEF Copied
  <2>6. CopyOf(h)'
    BY <1>0, <1>1, <1>4, <2>2, <2>5 DEF CopyOf
  <2> QED
    BY <1>0, <1>2, <1>4, <2>2, <2>3, <2>4, <2>6, ChainSteps DEF Quiet
<1> QED
  BY <1>3, <1>4 DEF Start

LEMMA RenameStep ==
    ASSUME IInv, NEW c \in Client, NEW h \in Handle, Rename(c, h)
    PROVE  IInv'
<1>0. /\ UNCHANGED <<plugins, phase, unit, chain>> /\ answer' = "none"
      /\ state' = state /\ memory' = memory /\ stable' = stable /\ file' = state[h]
      /\ call' = [call EXCEPT ![c].at = "renamed"]
  BY DEF Rename, handles, Quiet
<1>1. /\ chain[h] # <<>> /\ Head(chain[h]) = c
      /\ call[c] \in Waiting /\ phase[h] \in {"open", "draining"}
      /\ state[h] \in Records /\ h \in slots /\ Copied(h, c)
  BY RunningFacts DEF Rename
<1>2. /\ call[c].was \in 0..MaxValue
      /\ call' = [call EXCEPT ![c].at = "renamed", ![c].was = call[c].was]
  <2>1. call \in [Client -> {Free} \cup Waiting]
    BY DEF IInv, TypeOK, Waiting
  <2>2. /\ call[c].was \in 0..MaxValue
        /\ [call[c] EXCEPT !.at = "renamed"] = [call[c] EXCEPT !.at = "renamed", !.was = call[c].was]
    BY <1>1 DEF Waiting
  <2> QED
    BY <1>0, <2>1, <2>2
<1>3. /\ ChainType' /\ Chains' /\ OthersKept(h) /\ Publishing(h)'
      /\ call'[c] = [op |-> call[c].op, at |-> "renamed", was |-> call[c].was]
  <2>1. Proceeds(c, "renamed", call[c].was)
    BY <1>2 DEF Proceeds
  <2>2. chain[h] # <<>> /\ Head(chain[h]) = c
    BY <1>1
  <2>3. UNCHANGED <<chain, phase>>
    BY <1>0
  <2> QED
    BY <1>2, <2>1, <2>2, <2>3, ProceedFacts
<1>4. Copied(h, c)'
  <2>1. /\ call'[c].op = call[c].op /\ call'[c].at = "renamed" /\ call'[c].was = call[c].was
        /\ memory'[h] = memory[h] /\ state'[h] = state[h] /\ file' = state'[h]
    BY <1>0, <1>3
  <2>2. state'[h] = After(call'[c].op, memory'[h])
    BY <1>1, <2>1 DEF Copied
  <2> QED
    BY <1>1, <2>1, <2>2 DEF Copied
<1>5. CopyOf(h)'
  BY <1>0, <1>1, <1>3, <1>4 DEF CopyOf
<1>6. state' \in [Handle -> Records] /\ memory' \in [Handle -> Records] /\ file' \in Records /\ stable' \in Records
  BY <1>0, <1>1 DEF IInv, TypeOK
<1> QED
  BY <1>0, <1>1, <1>3, <1>5, <1>6, ChainSteps

LEMMA SyncDirectoryStep ==
    ASSUME IInv, NEW c \in Client, NEW h \in Handle, SyncDirectory(c, h)
    PROVE  IInv'
<1>0. /\ UNCHANGED <<plugins, phase, unit>> /\ Finish(c, h, "done")
      /\ state' = state /\ file' = file /\ stable' = file
      /\ memory' = [memory EXCEPT ![h] = After(call[c].op, @)]
  BY DEF SyncDirectory
<1>1. /\ chain[h] # <<>> /\ Head(chain[h]) = c
      /\ call[c].op \in Op /\ phase[h] \in {"open", "draining"}
      /\ state[h] \in Records /\ memory[h] \in Records /\ Copied(h, c)
  BY RunningFacts DEF SyncDirectory
<1>2. ChainType' /\ Chains' /\ OthersKept(h) /\ ~Publishing(h)'
  BY <1>0, <1>1, FinishFacts
<1>3. /\ memory'[h] = state[h] /\ memory' \in [Handle -> Records]
      /\ \A g \in Handle \ {h} : memory'[g] = memory[g]
  BY <1>0, <1>1 DEF IInv, TypeOK, Copied
<1>4. CopyOf(h)'
  BY <1>0, <1>1, <1>2, <1>3 DEF CopyOf
<1>5. state' \in [Handle -> Records] /\ file' \in Records /\ stable' \in Records
  BY <1>0 DEF IInv, TypeOK
<1>6. answer' = "done"
  BY <1>0 DEF Finish
<1> QED
  BY <1>0, <1>2, <1>3, <1>4, <1>5, <1>6, ChainSteps

LEMMA PublishFailsStep ==
    ASSUME IInv, NEW c \in Client, NEW h \in Handle, PublishFails(c, h)
    PROVE  /\ IInv'
           /\ state'[h] = memory[h]
<1>0. /\ UNCHANGED <<plugins, phase, unit>> /\ Finish(c, h, "rejected")
      /\ memory' = memory /\ file' = file /\ stable' = stable
      /\ state' = [state EXCEPT ![h][call[c].op.key] = call[c].was]
  BY DEF PublishFails, medium
<1>1. /\ chain[h] # <<>> /\ Head(chain[h]) = c
      /\ call[c].op \in Op /\ phase[h] \in {"open", "draining"}
      /\ state[h] \in Records /\ memory[h] \in Records /\ Copied(h, c)
  BY RunningFacts DEF PublishFails
<1>2. ChainType' /\ Chains' /\ OthersKept(h) /\ ~Publishing(h)'
  BY <1>0, <1>1, FinishFacts
<1>3. [After(call[c].op, memory[h]) EXCEPT ![call[c].op.key] = memory[h][call[c].op.key]] = memory[h]
  BY <1>1, RollBack
<1>4. /\ state'[h] = memory[h] /\ state' \in [Handle -> Records]
      /\ \A g \in Handle \ {h} : state'[g] = state[g]
  <2>1. state'[h] = [state[h] EXCEPT ![call[c].op.key] = call[c].was]
    BY <1>0 DEF IInv, TypeOK
  <2>2. state'[h] = memory[h]
    BY <1>1, <1>3, <2>1 DEF Copied
  <2> QED
    BY <1>0, <1>1, <2>2 DEF IInv, TypeOK
<1>5. CopyOf(h)'
  BY <1>0, <1>1, <1>2, <1>4 DEF CopyOf
<1>6. memory' \in [Handle -> Records] /\ file' \in Records /\ stable' \in Records
  BY <1>0 DEF IInv, TypeOK
<1>7. answer' = "rejected"
  BY <1>0 DEF Finish
<1> QED
  BY <1>0, <1>2, <1>4, <1>5, <1>6, <1>7, ChainSteps

(* The state a process begins with.                                        *)
LEMMA CrashStep ==
    ASSUME IInv, Crash
    PROVE  IInv'
<1>0. Fresh /\ file' \in Records /\ stable' \in Records
  BY DEF Crash, IInv, TypeOK
<1>1. Empty \in Records
  BY BoundsAssumption DEF Empty, Records, Absent
<1>2. \A h \in Handle : chain'[h] = <<>> /\ Len(chain'[h]) = 0 /\ chain'[h] \in Seq(Client)
  BY <1>0 DEF Fresh
<1>3. TypeOK'
  <2>1. /\ phase' \in [Handle -> {"closed", "opening", "loading", "open", "draining", "releasing"}]
        /\ unit' \in [Handle -> {"none", "open", "closed"}]
    BY <1>0 DEF Fresh
  <2>2. state' \in [Handle -> Records] /\ memory' \in [Handle -> Records]
    BY <1>0, <1>1 DEF Fresh
  <2>3. chain' \in [Handle -> Seq(Client)] /\ \A h \in Handle : Len(chain'[h]) <= Cardinality(Client)
    <3>1. Cardinality(Client) \in Nat
      BY ClientAssumption, FS_CardinalityType
    <3> QED
      BY <1>0, <1>2, <3>1 DEF Fresh
  <2>4. call' \in [Client -> {Free}]
    BY <1>0 DEF Fresh
  <2> QED
    BY <1>0, <2>1, <2>2, <2>3, <2>4 DEF Fresh, TypeOK, Quiet
<1>4. Chains'
  BY <1>2 DEF Chains
<1>5. \A h \in Handle : ~Publishing(h)'
  BY <1>2 DEF Publishing
<1>6. Slots' /\ Names'
  BY <1>0, <1>5 DEF Fresh, Slots, Names
<1>7. Copies'
  BY <1>0, <1>5 DEF Fresh, Copies, CopyOf
<1> QED
  BY <1>3, <1>4, <1>6, <1>7 DEF IInv

LEMMA InitInv == Init => IInv
<1> SUFFICES ASSUME Init PROVE IInv
  OBVIOUS
<1>1. Empty \in Records
  BY BoundsAssumption DEF Empty, Records, Absent
<1>2. \A h \in Handle : chain[h] = <<>> /\ Len(chain[h]) = 0 /\ chain[h] \in Seq(Client)
  BY DEF Init
<1>3. TypeOK
  <2>1. /\ phase \in [Handle -> {"closed", "opening", "loading", "open", "draining", "releasing"}]
        /\ unit \in [Handle -> {"none", "open", "closed"}]
    BY DEF Init
  <2>2. state \in [Handle -> Records] /\ memory \in [Handle -> Records]
    BY <1>1 DEF Init
  <2>3. chain \in [Handle -> Seq(Client)] /\ \A h \in Handle : Len(chain[h]) <= Cardinality(Client)
    <3>1. Cardinality(Client) \in Nat
      BY ClientAssumption, FS_CardinalityType
    <3> QED
      BY <1>2, <3>1 DEF Init
  <2>4. call \in [Client -> {Free}]
    BY DEF Init
  <2> QED
    BY <1>1, <2>1, <2>2, <2>3, <2>4 DEF Init, TypeOK
<1>4. Chains
  BY <1>2 DEF Chains
<1>5. \A h \in Handle : ~Publishing(h)
  BY <1>2 DEF Publishing
<1>6. Slots /\ Names
  BY <1>5 DEF Init, Slots, Names
<1>7. Copies
  BY <1>5 DEF Init, Copies, CopyOf
<1> QED
  BY <1>3, <1>4, <1>6, <1>7 DEF IInv

LEMMA StutterStep ==
    ASSUME IInv, UNCHANGED vars
    PROVE  IInv'
<1>1. UNCHANGED <<handles, call, medium>> /\ UNCHANGED plugins /\ answer' = answer
  BY DEF vars, handles, medium, plugins
<1>2. Chains' /\ Copies' /\ \A h \in Handle : Publishing(h)' <=> Publishing(h)
  BY <1>1, PluginsAlone
<1>3. TypeOK'
  BY DEF vars, IInv, TypeOK
<1>4. Slots' /\ Names'
  BY <1>2 DEF vars, IInv, Slots, Names
<1> QED
  BY <1>2, <1>3, <1>4 DEF IInv

LEMMA Step == IInv /\ [Next]_vars => IInv'
<1> SUFFICES ASSUME IInv, [Next]_vars PROVE IInv'
  OBVIOUS
<1>1. ASSUME NEW h \in Handle, Open(h) \/ HandleStep(h) \/ close(h)
      PROVE  IInv'
  <2>1. CASE Open(h)
    BY <2>1, OpenStep
  <2>2. CASE openUnit(h)
    BY <2>2, openUnitStep
  <2>3. CASE Load(h)
    BY <2>3, LoadStep
  <2>4. CASE Released(h)
    BY <2>4, ReleasedStep
  <2>5. CASE Drained(h) \/ close(h)
    BY <2>5, ClosingSteps
  <2> QED
    BY <1>1, <2>1, <2>2, <2>3, <2>4, <2>5 DEF HandleStep
<1>2. ASSUME NEW c \in Client, NEW h \in Handle, (\E op \in Op : enqueue(c, h, op)) \/ Job(c, h)
      PROVE  IInv'
  <2>1. CASE \E op \in Op : enqueue(c, h, op)
    BY <2>1, enqueueStep
  <2>2. CASE Start(c, h)
    BY <2>2, StartStep
  <2>3. CASE Rename(c, h)
    BY <2>3, RenameStep
  <2>4. CASE SyncDirectory(c, h)
    BY <2>4, SyncDirectoryStep
  <2>5. CASE PublishFails(c, h)
    BY <2>5, PublishFailsStep
  <2> QED
    BY <1>2, <2>1, <2>2, <2>3, <2>4, <2>5 DEF Job
<1>3. CASE closeAll
  BY <1>3, ClosingSteps
<1>4. CASE Mount \/ CloseBackend \/ RegisterBackend \/ Unmount \/ BackendClosed
  BY <1>4, PluginSteps
<1>5. CASE CloseUnits
  BY <1>5, ClosingSteps, PluginSteps DEF CloseUnits
<1>6. CASE Crash
  BY <1>6, CrashStep
<1>7. CASE UNCHANGED vars
  BY <1>7, StutterStep
<1> QED
  BY <1>1, <1>2, <1>3, <1>4, <1>5, <1>6, <1>7 DEF Next

THEOREM Invariance == Spec => []IInv
BY InitInv, Step, PTL DEF Spec

-----------------------------------------------------------------------------
(* What is outstanding is on its way: a write that is not answered stands  *)
(* in a chain, a domain that closeAll awaits is being closed, and a slot   *)
(* of the backend has its unit.                                            *)
Queued(c) == \E h \in Handle : \E i \in 1..Len(chain[h]) : chain[h][i] = c
OnTheWay ==
    /\ \A c \in Client : call[c] # Free => Queued(c)
    /\ \A h \in awaited : phase[h] \in {"draining", "releasing"}
    /\ \A h \in slots : unit[h] # "none"

LEMMA OnTheWayInit == Init => OnTheWay
BY DEF Init, OnTheWay

(* Nothing of it changes with the plugins, but for what the plugins say.   *)
LEMMA WritesStay ==
    ASSUME OnTheWay, UNCHANGED <<chain, call>>
    PROVE  \A c \in Client : call'[c] # Free => Queued(c)'
BY DEF OnTheWay, Queued

(* The head of a chain has been answered.                                  *)
LEMMA FinishOnTheWay ==
    ASSUME IInv, OnTheWay, NEW c \in Client, NEW h \in Handle, NEW outcome,
           chain[h] # <<>>, Head(chain[h]) = c, Finish(c, h, outcome)
    PROVE  \A d \in Client : call'[d] # Free => Queued(d)'
<1>1. PICK s \in Seq(Client) : s = chain[h]
  BY DEF IInv, TypeOK
<1>2. PICK t : t = Tail(s)
  OBVIOUS
<1>3. /\ Len(s) \in Nat /\ Len(t) = Len(s) - 1 /\ s[1] = c
      /\ \A i \in 1..Len(t) : t[i] = s[i + 1]
  BY <1>1, <1>2, ChainFacts
<1>4. chain' = [chain EXCEPT ![h] = t] /\ call' = [call EXCEPT ![c] = Free]
  BY <1>1, <1>2 DEF Finish
<1>5. /\ chain'[h] = t /\ \A g \in Handle : g # h => chain'[g] = chain[g]
      /\ call'[c] = Free /\ \A d \in Client : d # c => call'[d] = call[d]
  BY <1>4 DEF IInv, TypeOK
<1> SUFFICES ASSUME NEW d \in Client, call'[d] # Free
             PROVE  \E g \in Handle : \E i \in 1..Len(chain'[g]) : chain'[g][i] = d
  BY DEF Queued
<1>6. PICK g \in Handle : \E i \in 1..Len(chain[g]) : chain[g][i] = d
  BY <1>5 DEF OnTheWay, Queued
<1>7. CASE g # h
  BY <1>5, <1>6, <1>7
<1>8. CASE g = h
  <2>1. PICK i \in 1..Len(s) : s[i] = d
    BY <1>1, <1>6, <1>8
  <2>2. i # 1
    BY <1>3, <1>5, <2>1
  <2>3. i - 1 \in 1..Len(t) /\ t[i - 1] = s[(i - 1) + 1] /\ (i - 1) + 1 = i
    BY <1>3, <2>1, <2>2
  <2> QED
    BY <1>5, <2>1, <2>3
<1> QED
  BY <1>7, <1>8

(* A job goes on: its caller stays where it was.                           *)
LEMMA ProceedOnTheWay ==
    ASSUME OnTheWay, NEW c \in Client, call[c] # Free, UNCHANGED chain,
           \A d \in Client : d # c => call'[d] = call[d]
    PROVE  \A d \in Client : call'[d] # Free => Queued(d)'
<1> SUFFICES ASSUME NEW d \in Client, call'[d] # Free PROVE Queued(d)'
  OBVIOUS
<1>1. Queued(d)
  BY DEF OnTheWay
<1> QED
  BY <1>1 DEF Queued

LEMMA EnqueueOnTheWay ==
    ASSUME IInv, OnTheWay, NEW c \in Client, NEW h \in Handle, NEW op \in Op, enqueue(c, h, op)
    PROVE  \A d \in Client : call'[d] # Free => Queued(d)'
<1>1. PICK s \in Seq(Client) : s = chain[h]
  BY DEF IInv, TypeOK
<1>2. PICK t : t = Append(s, c)
  OBVIOUS
<1>3. /\ Len(s) \in Nat /\ Len(t) = Len(s) + 1 /\ t[Len(s) + 1] = c
      /\ \A i \in 1..Len(s) : t[i] = s[i]
  BY <1>1, <1>2, ChainFacts
<1>4. /\ chain'[h] = t /\ \A g \in Handle : g # h => chain'[g] = chain[g]
      /\ \A d \in Client : d # c => call'[d] = call[d]
  <2>1. PICK n : call' = [call EXCEPT ![c] = n]
    BY DEF enqueue
  <2>2. chain' = [chain EXCEPT ![h] = t]
    BY <1>1, <1>2 DEF enqueue
  <2> QED
    BY <2>1, <2>2 DEF IInv, TypeOK
<1> SUFFICES ASSUME NEW d \in Client, call'[d] # Free
             PROVE  \E g \in Handle : \E i \in 1..Len(chain'[g]) : chain'[g][i] = d
  BY DEF Queued
<1>5. CASE d = c
  <2>1. Len(s) + 1 \in 1..Len(t)
    BY <1>3
  <2> QED
    BY <1>3, <1>4, <1>5, <2>1
<1>6. CASE d # c
  <2>1. PICK g \in Handle : \E i \in 1..Len(chain[g]) : chain[g][i] = d
    BY <1>4, <1>6 DEF OnTheWay, Queued
  <2>2. CASE g # h
    BY <1>4, <2>1, <2>2
  <2>3. CASE g = h
    <3>1. PICK i \in 1..Len(s) : s[i] = d
      BY <1>1, <2>1, <2>3
    <3>2. i \in 1..Len(t) /\ t[i] = d
      BY <1>3, <3>1
    <3> QED
      BY <1>4, <3>2
  <2> QED
    BY <2>2, <2>3
<1> QED
  BY <1>5, <1>6

(* Writes leave what is opened or closed alone.                            *)
LEMMA JobsOnTheWay ==
    ASSUME IInv, OnTheWay, NEW c \in Client, NEW h \in Handle,
           (\E op \in Op : enqueue(c, h, op)) \/ Job(c, h)
    PROVE  OnTheWay'
<1>1. UNCHANGED <<awaited, slots, phase, unit>>
  BY DEF Job, enqueue, Start, Rename, SyncDirectory, PublishFails, plugins, handles
<1>2. \A d \in Client : call'[d] # Free => Queued(d)'
  <2>1. CASE \E op \in Op : enqueue(c, h, op)
    BY <2>1, EnqueueOnTheWay
  <2>2. CASE \E outcome : chain[h] # <<>> /\ Head(chain[h]) = c /\ Finish(c, h, outcome)
    BY <2>2, FinishOnTheWay
  <2>3. CASE Job(c, h) /\ UNCHANGED chain /\ \E v : call' = [call EXCEPT ![c] = v]
    <3>1. \E at \in {"queued", "publishing", "renamed"} : call[c].at = at
      BY <2>3 DEF Job, Start, Rename, SyncDirectory, PublishFails, Running
    <3>2. call[c] # Free
      BY <3>1 DEF Free
    <3>3. \A d \in Client : d # c => call'[d] = call[d]
      BY <2>3 DEF IInv, TypeOK
    <3> QED
      BY <2>3, <3>2, <3>3, ProceedOnTheWay
  <2>4. ASSUME Job(c, h)
        PROVE  \/ \E outcome : chain[h] # <<>> /\ Head(chain[h]) = c /\ Finish(c, h, outcome)
               \/ UNCHANGED chain /\ \E v : call' = [call EXCEPT ![c] = v]
    <3>1. CASE Start(c, h)
      BY <3>1 DEF Start, Running
    <3>2. CASE Rename(c, h)
      BY <3>2 DEF Rename, handles
    <3>3. CASE SyncDirectory(c, h)
      BY <3>3 DEF SyncDirectory, Running
    <3>4. CASE PublishFails(c, h)
      BY <3>4 DEF PublishFails, Running
    <3> QED
      BY <2>4, <3>1, <3>2, <3>3, <3>4 DEF Job
  <2> QED
    BY <2>1, <2>2, <2>3, <2>4
<1> QED
  BY <1>1, <1>2 DEF OnTheWay

LEMMA OnTheWayStep == IInv /\ OnTheWay /\ [Next]_vars => OnTheWay'
<1> SUFFICES ASSUME IInv, OnTheWay, [Next]_vars PROVE OnTheWay'
  OBVIOUS
<1>1. ASSUME UNCHANGED <<chain, call>>,
             \A h \in awaited' : phase'[h] \in {"draining", "releasing"},
             \A h \in slots' : unit'[h] # "none"
      PROVE  OnTheWay'
  BY <1>1, WritesStay DEF OnTheWay
<1>2. ASSUME NEW h \in Handle, Open(h) \/ HandleStep(h) \/ close(h)
      PROVE  OnTheWay'
  <2>1. UNCHANGED <<chain, call>>
    BY <1>2 DEF Open, HandleStep, openUnit, Load, Drained, Released, close, OpenFails, Forget, plugins
  <2>2. PICK p, u : phase' = [phase EXCEPT ![h] = p] /\ unit' \in {unit, [unit EXCEPT ![h] = u]}
    BY <1>2 DEF Open, HandleStep, openUnit, Load, Drained, Released, close, OpenFails, Forget, plugins
  <2>3. /\ phase'[h] = p /\ \A g \in Handle : g # h => phase'[g] = phase[g] /\ unit'[g] = unit[g]
        /\ phase \in [Handle -> {"closed", "opening", "loading", "open", "draining", "releasing"}]
        /\ unit \in [Handle -> {"none", "open", "closed"}]
        /\ awaited \subseteq Handle /\ slots \subseteq Handle
    BY <2>2 DEF IInv, TypeOK
  <2>4. \A g \in awaited' : phase'[g] \in {"draining", "releasing"}
    <3>1. awaited' \subseteq awaited /\ (h \in awaited' => phase'[h] \in {"draining", "releasing"})
      <4>1. CASE Open(h) \/ openUnit(h) \/ Load(h) \/ close(h)
        <5>1. phase[h] \notin {"draining", "releasing"} /\ awaited' = awaited
          BY <4>1 DEF Open, openUnit, Load, close, plugins
        <5> QED
          BY <5>1 DEF OnTheWay
      <4>2. CASE Drained(h)
        BY <4>2, <2>3 DEF Drained, plugins
      <4>3. CASE Released(h)
        BY <4>3 DEF Released
      <4> QED
        BY <1>2, <4>1, <4>2, <4>3 DEF HandleStep
    <3> QED
      BY <2>3, <3>1 DEF OnTheWay
  <2>5. \A g \in slots' : unit'[g] # "none"
    <3>1. slots' \ {h} \subseteq slots /\ (h \in slots' => unit'[h] # "none")
      <4>1. CASE openUnit(h)
        <5>1. h \notin slots
          BY <4>1 DEF openUnit, IInv, Slots
        <5>2. h \in slots' => unit' = [unit EXCEPT ![h] = "open"]
          BY <4>1, <5>1 DEF openUnit
        <5>3. slots' \subseteq slots \cup {h}
          BY <4>1 DEF openUnit
        <5> QED
          BY <2>3, <5>2, <5>3
      <4>2. CASE Load(h)
        <5>1. (slots' = slots /\ unit' = unit) \/ slots' = slots \ {h}
          BY <4>2 DEF Load
        <5> QED
          BY <5>1 DEF OnTheWay
      <4>3. CASE Open(h) \/ close(h)
        <5>1. UNCHANGED <<slots, unit>>
          BY <4>3 DEF Open, close, plugins
        <5> QED
          BY <5>1 DEF OnTheWay
      <4>4. CASE Drained(h)
        BY <2>3, <4>4 DEF Drained, plugins
      <4>5. CASE Released(h)
        BY <4>5 DEF Released
      <4> QED
        BY <1>2, <4>1, <4>2, <4>3, <4>4, <4>5 DEF HandleStep
    <3>2. ASSUME NEW g \in slots' PROVE unit'[g] # "none"
      BY <2>3, <3>1 DEF OnTheWay
    <3> QED
      BY <3>2
  <2> QED
    BY <1>1, <2>1, <2>4, <2>5
<1>3. ASSUME NEW c \in Client, NEW h \in Handle, (\E op \in Op : enqueue(c, h, op)) \/ Job(c, h)
      PROVE  OnTheWay'
  BY <1>3, JobsOnTheWay
<1>4. CASE closeAll
  <2>1. /\ UNCHANGED <<chain, call, slots, unit>>
        /\ awaited' \subseteq {h \in Handle : phase[h] \in {"open", "draining", "releasing"}}
        /\ phase' = [h \in Handle |-> IF h \in awaited' /\ phase[h] = "open" THEN "draining" ELSE phase[h]]
    BY <1>4 DEF closeAll
  <2>2. \A h \in awaited' : phase'[h] \in {"draining", "releasing"}
    BY <2>1
  <2>3. \A h \in slots' : unit'[h] # "none"
    BY <2>1 DEF OnTheWay
  <2> QED
    BY <1>1, <2>1, <2>2, <2>3
<1>5. CASE Mount \/ CloseBackend \/ RegisterBackend \/ Unmount \/ BackendClosed
  <2>1. UNCHANGED <<chain, call, awaited, phase, slots, unit>>
    BY <1>5 DEF Mount, CloseBackend, RegisterBackend, Unmount, BackendClosed, handles
  <2> QED
    BY <1>1, <2>1 DEF OnTheWay
<1>6. CASE CloseUnits
  <2>1. PICK h \in Handle : CloseUnit(h) \/ FreeSlot(h)
    BY <1>6 DEF CloseUnits
  <2>2. /\ UNCHANGED <<chain, call, awaited, phase>> /\ slots' \subseteq slots
        /\ unit' \in {unit, [unit EXCEPT ![h] = "closed"]}
    BY <2>1 DEF CloseUnit, FreeSlot, handles, plugins
  <2>3. \A g \in Handle : unit'[g] \in {unit[g], "closed"}
    BY <2>2 DEF IInv, TypeOK
  <2>4. slots \subseteq Handle
    BY DEF IInv, TypeOK
  <2>5. ASSUME NEW g \in slots' PROVE unit'[g] # "none"
    BY <2>2, <2>3, <2>4 DEF OnTheWay
  <2> QED
    BY <1>1, <2>2, <2>5 DEF OnTheWay
<1>7. CASE Crash
  BY <1>7 DEF Crash, Fresh, OnTheWay
<1>8. CASE UNCHANGED vars
  <2>1. UNCHANGED <<chain, call, awaited, phase, slots, unit>>
    BY <1>8 DEF vars
  <2> QED
    BY <1>1, <2>1 DEF OnTheWay
<1> QED
  BY <1>2, <1>3, <1>4, <1>5, <1>6, <1>7, <1>8 DEF Next

(* Whatever is outstanding, some step is possible.                         *)
LEMMA SomeStep == IInv /\ OnTheWay => NeverStuck
<1> SUFFICES ASSUME IInv, OnTheWay, Outstanding
             PROVE  \/ \E h \in Handle : HandleMay(h) \/ \E c \in Client : JobMay(c, h)
                    \/ MayUnmount \/ UnitsMay \/ MayEndClose
  BY DEF NeverStuck
<1>1. ASSUME NEW h \in Handle, chain[h] # <<>> PROVE \E c \in Client : JobMay(c, h)
  <2>1. PICK s \in Seq(Client) : s = chain[h]
    BY DEF IInv, TypeOK
  <2>2. Len(s) >= 1 /\ Head(s) = s[1] /\ Head(s) \in Client
    BY <1>1, <2>1, ChainFacts
  <2>3. PICK c \in Client : c = Head(chain[h])
    BY <2>1, <2>2
  <2>4. call[c] # Free
    <3>1. Len(s) \in Nat /\ 1 \in 1..Len(s)
      BY <2>1, <2>2, ChainFacts
    <3> QED
      BY <2>1, <2>2, <2>3, <3>1 DEF IInv, Chains
  <2>5. call[c] \in Waiting
    BY <2>4, WaitingFacts DEF IInv
  <2>6. call[c].at \in {"queued", "publishing", "renamed"}
    BY <2>5 DEF Waiting
  <2> QED
    BY <1>1, <2>3, <2>6 DEF JobMay, Running
<1>2. ASSUME NEW h \in Handle, phase[h] \notin {"closed", "open"}
      PROVE  HandleMay(h) \/ \E c \in Client : JobMay(c, h)
  <2>1. phase[h] \in {"opening", "loading", "draining", "releasing"}
    BY <1>2 DEF IInv, TypeOK
  <2> QED
    BY <1>1, <2>1 DEF HandleMay, MayDrain
<1>3. CASE \E c \in Client : call[c] # Free
  <2>1. PICK c \in Client : call[c] # Free
    BY <1>3
  <2>2. PICK h \in Handle : \E i \in 1..Len(chain[h]) : chain[h][i] = c
    BY <2>1 DEF OnTheWay, Queued
  <2>3. chain[h] # <<>>
    BY <2>2
  <2> QED
    BY <1>1, <2>3
<1>4. CASE \E h \in Handle : phase[h] \notin {"closed", "open"}
  BY <1>2, <1>4
<1>5. CASE facility = "closing"
  <2>1. CASE awaited = {}
    BY <1>5, <2>1 DEF MayUnmount
  <2>2. CASE awaited # {}
    <3>1. PICK h \in Handle : h \in awaited
      BY <2>2 DEF IInv, TypeOK
    <3>2. phase[h] \notin {"closed", "open"}
      BY <3>1 DEF OnTheWay
    <3> QED
      BY <1>2, <3>2
  <2> QED
    BY <2>1, <2>2
<1>6. CASE backend = "closing"
  <2>1. CASE opening # {}
    <3>1. PICK h \in Handle : h \in opening
      BY <2>1 DEF IInv, TypeOK
    <3>2. phase[h] = "opening"
      BY <3>1 DEF IInv, Slots
    <3> QED
      BY <1>2, <3>2
  <2>2. CASE opening = {} /\ slots = {}
    BY <1>6, <2>2 DEF MayEndClose
  <2>3. CASE opening = {} /\ slots # {}
    <3>1. PICK h \in Handle : h \in slots
      BY <2>3 DEF IInv, TypeOK
    <3>2. unit[h] \in {"open", "closed"}
      BY <3>1 DEF OnTheWay, IInv, TypeOK
    <3>3. CASE unit[h] = "open"
      BY <1>6, <2>3, <3>1, <3>3 DEF UnitsMay, MayCloseUnit
    <3>4. CASE unit[h] = "closed" /\ ~Publishing(h)
      BY <1>6, <3>1, <3>4 DEF UnitsMay, MayFreeSlot
    <3>5. CASE Publishing(h)
      BY <1>1, <3>5 DEF Publishing
    <3> QED
      BY <3>2, <3>3, <3>4, <3>5
  <2> QED
    BY <2>1, <2>2, <2>3
<1> QED
  BY <1>3, <1>4, <1>5, <1>6 DEF Outstanding

(* One handle at a time could write the file: not after an open that       *)
(* failed, not while a close overlaps the next open, not after the         *)
(* facility or the backend was reloaded; and a name that is free has no    *)
(* domain.                                                                 *)
LEMMA WriterAlone == IInv => OneWriter
<1> SUFFICES ASSUME IInv PROVE OneWriter
  OBVIOUS
<1>1. \A h \in Handle : Writer(h) => h \in slots
  BY DEF Writer, IInv, Slots
<1>2. \A g, h \in Handle : Writer(g) /\ Writer(h) => g = h
  BY <1>1 DEF IInv, Slots
<1>3. backend = "closed" => \A h \in Handle : ~Writer(h)
  BY <1>1 DEF IInv, Slots
<1> QED
  BY <1>2, <1>3 DEF OneWriter, IInv, Names

THEOREM WriterCorrect == Spec => [](TypeOK /\ OneWriter)
<1>1. IInv => TypeOK /\ OneWriter
  BY WriterAlone DEF IInv
<1> QED
  BY <1>1, Invariance, PTL

(* And nothing waits for ever: with a write, an open or a close            *)
(* outstanding, of the domain, the facility or the backend, some step of   *)
(* the runtime is possible.                                                *)
THEOREM ProgressCorrect == Spec => []Inv
<1>1. IInv /\ OnTheWay => Inv
  BY WriterAlone, SomeStep DEF Inv, IInv
<1>2. IInv /\ OnTheWay /\ [Next]_vars => OnTheWay'
  BY OnTheWayStep
<1> QED
  BY <1>1, <1>2, InitInv, OnTheWayInit, Step, PTL DEF Spec

-----------------------------------------------------------------------------
(* The map that callers read, and what the abstract map sees of the calls. *)
Map == IF \E h \in Handle : Live(h) THEN memory[CHOOSE h \in Handle : Live(h)] ELSE file
Asked == [c \in Client |-> call[c].op]
Detached == {c \in Client : \E h \in Handle : ~Live(h) /\ \E i \in DOMAIN chain[h] : chain[h][i] = c}

(* At most one handle is live; the map is its memory, or else the file.    *)
LEMMA MapFacts ==
    ASSUME IInv
    PROVE  /\ \A h \in Handle : Live(h) => h \in slots
           /\ \A h \in Handle : Live(h) => Map = memory[h]
           /\ (\A h \in Handle : ~Live(h)) => Map = file
           /\ \A h \in slots : ~Live(h) => Map = file
<1>1. \A h \in Handle : Live(h) => h \in slots
  BY DEF Live, IInv, Slots
<1>2. slots \subseteq Handle /\ \A g, h \in slots : g = h
  BY DEF IInv, Slots, TypeOK
<1>3. ASSUME NEW h \in Handle, Live(h) PROVE Map = memory[h]
  <2>1. \A g \in Handle : Live(g) => g = h
    BY <1>1, <1>2, <1>3
  <2>2. (CHOOSE g \in Handle : Live(g)) = h
    BY <1>3, <2>1
  <2> QED
    BY <1>3, <2>2 DEF Map
<1> QED
  BY <1>1, <1>2, <1>3 DEF Map

LEMMA MapFactsNext ==
    ASSUME IInv'
    PROVE  /\ \A h \in Handle : Live(h)' => h \in slots'
           /\ \A h \in Handle : Live(h)' => Map' = memory'[h]
           /\ (\A h \in Handle : ~Live(h)') => Map' = file'
<1>1. \A h \in Handle : Live(h)' => h \in slots'
  BY DEF Live, IInv, Slots
<1>2. \A g, h \in slots' : g = h
  BY DEF IInv, Slots
<1>3. ASSUME NEW h \in Handle, Live(h)' PROVE Map' = memory'[h]
  <2>1. \A g \in Handle : Live(g)' => g = h
    BY <1>1, <1>2, <1>3
  <2>2. (CHOOSE g \in Handle : Live(g))' = h
    BY <1>3, <2>1
  <2> QED
    BY <1>3, <2>2 DEF Map
<1> QED
  BY <1>1, <1>3 DEF Map

(* The map stays while the live handle stays live and keeps its memory.    *)
LEMMA MapKept ==
    ASSUME IInv, IInv', UNCHANGED file,
           \A h \in Handle : Live(h)' <=> Live(h),
           \A h \in Handle : Live(h) => memory'[h] = memory[h]
    PROVE  Map' = Map
<1>1. CASE \E h \in Handle : Live(h)
  <2>1. PICK h \in Handle : Live(h)
    BY <1>1
  <2> QED
    BY <2>1, MapFacts, MapFactsNext
<1>2. CASE \A h \in Handle : ~Live(h)
  BY <1>2, MapFacts, MapFactsNext
<1> QED
  BY <1>1, <1>2

(* The steps of the abstract map, in these terms.                          *)
LEMMA AbstractSteps ==
    ASSUME Detached' \in SUBSET Client
    PROVE  /\ UNCHANGED <<file, stable, Asked>> /\ answer' = "none" /\ (Map' = Map \/ Map' = file)
                => Promise!Next
           /\ Map' \in {stable, file} /\ file' = Map' /\ stable' = Map'
              /\ Asked' = [c \in Client |-> NoCall] /\ answer' = "none"
                => Promise!Next
           /\ \A c \in Client :
                Asked[c] = NoCall /\ (\E op \in Op : Asked' = [Asked EXCEPT ![c] = op])
                /\ answer' = "none" /\ UNCHANGED <<Map, file, stable>>
                  => Promise!Next
           /\ \A c \in Client :
                Asked[c] # NoCall /\ Asked' = [Asked EXCEPT ![c] = NoCall]
                  => /\ answer' = "done" /\ Promise!Possible(Asked[c], Map)
                        /\ Map' = After(Asked[c], Map) /\ file' = Map' /\ stable' = Map'
                          => Promise!Next
                     /\ answer' = "missing" /\ UNCHANGED <<Map, file, stable>>
                        /\ (Promise!Possible(Asked[c], Map) => c \in Detached)
                          => Promise!Next
                     /\ answer' = "rejected" /\ Map' \in {Map, file} /\ UNCHANGED <<file, stable>>
                          => Promise!Next
           /\ \A c \in Client :
                Asked[c] # NoCall /\ Promise!Possible(Asked[c], Map)
                /\ file' = After(Asked[c], Map)
                /\ UNCHANGED <<Map, stable, Asked>> /\ answer' = "none"
                  => Promise!Next
<1> USE DEF Promise!Next, Promise!Change, Map, Asked, Detached, Promise!NoCall, NoCall
<1>1. UNCHANGED <<file, stable, Asked>> /\ answer' = "none" /\ (Map' = Map \/ Map' = file)
        => Promise!Next
  BY DEF Promise!Reopen
<1>2. Map' \in {stable, file} /\ file' = Map' /\ stable' = Map'
      /\ Asked' = [c \in Client |-> NoCall] /\ answer' = "none"
        => Promise!Next
  BY DEF Promise!Restart
<1>3. ASSUME NEW c \in Client
      PROVE  Asked[c] = NoCall /\ (\E op \in Op : Asked' = [Asked EXCEPT ![c] = op])
             /\ answer' = "none" /\ UNCHANGED <<Map, file, stable>>
               => Promise!Next
  BY DEF Promise!Ask, Promise!Op, Op, Promise!Absent, Absent
<1>4. ASSUME NEW c \in Client, Asked[c] # NoCall, Asked' = [Asked EXCEPT ![c] = NoCall]
      PROVE  answer' = "done" /\ Promise!Possible(Asked[c], Map)
             /\ Map' = After(Asked[c], Map) /\ file' = Map' /\ stable' = Map'
               => Promise!Next
  BY <1>4 DEF Promise!Write, Promise!Answered, Promise!After, After, Promise!Transformed,
              Transformed, Promise!Absent, Absent
<1>5. ASSUME NEW c \in Client, Asked[c] # NoCall, Asked' = [Asked EXCEPT ![c] = NoCall]
      PROVE  answer' = "missing" /\ UNCHANGED <<Map, file, stable>>
             /\ (Promise!Possible(Asked[c], Map) => c \in Detached)
               => Promise!Next
  BY <1>5 DEF Promise!Missing, Promise!Answered
<1>6. ASSUME NEW c \in Client, Asked[c] # NoCall, Asked' = [Asked EXCEPT ![c] = NoCall]
      PROVE  answer' = "rejected" /\ Map' \in {Map, file} /\ UNCHANGED <<file, stable>>
               => Promise!Next
  BY <1>6 DEF Promise!Reject, Promise!Answered
<1>7. ASSUME NEW c \in Client
      PROVE  Asked[c] # NoCall /\ Promise!Possible(Asked[c], Map)
             /\ file' = After(Asked[c], Map)
             /\ UNCHANGED <<Map, stable, Asked>> /\ answer' = "none"
               => Promise!Next
  BY DEF Promise!Reach, Promise!After, After, Promise!Transformed, Transformed,
         Promise!Absent, Absent
<1> QED
  BY <1>1, <1>2, <1>3, <1>4, <1>5, <1>6, <1>7

(* Steps of the handles and plugins: the map stays, or becomes the file as *)
(* when it is reopened.                                                    *)
LEMMA ReadSteps ==
    ASSUME IInv, IInv', UNCHANGED <<call, chain, file, stable>>, answer' = "none",
           Detached' \in SUBSET Client,
           Map' = Map \/ Map' = file
    PROVE  Promise!Next
<1>1. UNCHANGED <<file, stable, Asked>>
  BY DEF Asked
<1> QED
  BY <1>1, AbstractSteps

LEMMA HandleSteps ==
    ASSUME IInv, IInv', NEW h \in Handle, Open(h) \/ HandleStep(h) \/ close(h) \/ CloseUnit(h),
           Detached' \in SUBSET Client
    PROVE  Promise!Next
<1>0. UNCHANGED <<call, chain, file, stable>> /\ answer' = "none"
  BY DEF Open, HandleStep, openUnit, Load, Drained, Released, close, CloseUnit, OpenFails,
         Forget, medium, Quiet
<1>1. \A g \in Handle : Publishing(g)' <=> Publishing(g)
  BY <1>0 DEF Publishing
<1>2. \A g \in Handle \ {h} : /\ phase'[g] = phase[g] /\ unit'[g] = unit[g]
                              /\ memory'[g] = memory[g]
  BY DEF Open, HandleStep, openUnit, Load, Drained, Released, close, CloseUnit, OpenFails,
         Forget, IInv, TypeOK
<1>3. \A g \in Handle \ {h} : Live(g)' <=> Live(g)
  BY <1>1, <1>2 DEF Live
<1>4. CASE Open(h) \/ openUnit(h) \/ Released(h) \/ (Load(h) /\ phase'[h] # "open")
  <2>1. ~Live(h)
    <3>1. phase[h] \notin {"open", "draining"} /\ (phase[h] = "releasing" => unit[h] # "open")
      BY <1>4 DEF Open, openUnit, Released, Load, IInv, Slots
    <3>2. phase[h] \notin {"open", "draining"} => chain[h] = <<>>
      BY DEF IInv, Chains
    <3> QED
      BY <3>1, <3>2 DEF Live, Publishing
  <2>2. phase'[h] \in {"closed", "opening", "loading"}
    BY <1>4 DEF Open, openUnit, Released, Load, OpenFails, Forget, IInv, TypeOK
  <2>3. ~Live(h)'
    BY <2>2 DEF Live
  <2>4. Map' = Map
    BY <1>0, <1>2, <1>3, <2>1, <2>3, MapKept
  <2> QED
    BY <1>0, <2>4, ReadSteps
<1>5. CASE Load(h) /\ phase'[h] = "open"
  <2>1. /\ phase[h] = "loading" /\ unit[h] = "open" /\ unit'[h] = "open"
        /\ memory'[h] = state[h]
    BY <1>5 DEF Load, OpenFails, Forget, IInv, TypeOK
  <2>2. ~Live(h) /\ h \in slots /\ state[h] = file
    BY <2>1 DEF Live, IInv, Slots, Copies, CopyOf
  <2>3. Map = file
    BY <2>2, MapFacts
  <2>4. Live(h)'
    BY <1>5, <2>1 DEF Live
  <2>5. Map' = memory'[h]
    BY <2>4, MapFactsNext
  <2> QED
    BY <1>0, <2>1, <2>2, <2>3, <2>5, ReadSteps
<1>6. CASE close(h)
  <2>1. /\ phase[h] = "open" /\ phase'[h] = "draining" /\ unit'[h] = unit[h]
        /\ memory'[h] = memory[h]
    BY <1>6 DEF close, IInv, TypeOK
  <2>2. Live(h)' <=> Live(h)
    BY <1>1, <2>1 DEF Live
  <2>3. Map' = Map
    BY <1>0, <1>2, <1>3, <2>1, <2>2, MapKept
  <2> QED
    BY <1>0, <2>3, ReadSteps
<1>7. CASE Drained(h) \/ CloseUnit(h)
  <2>1. /\ unit'[h] = "closed" /\ memory' = memory
        /\ phase'[h] \in {"open", "draining", "releasing"} <=> phase[h] \in {"open", "draining", "releasing"}
    BY <1>7 DEF Drained, CloseUnit, IInv, TypeOK, MayDrain, MayCloseUnit
  <2>2. CASE Live(h)' <=> Live(h)
    <3>1. Map' = Map
      BY <1>0, <1>2, <1>3, <2>1, <2>2, MapKept
    <3> QED
      BY <1>0, <3>1, ReadSteps
  <2>3. CASE ~(Live(h)' <=> Live(h))
    <3>1. Live(h) /\ ~Live(h)'
      BY <1>1, <2>1, <2>3 DEF Live
    <3>2. \A g \in Handle : ~Live(g)'
      <4>1. \A g \in Handle : Live(g) => g = h
        BY <3>1, MapFacts DEF IInv, Slots
      <4> QED
        BY <1>3, <3>1, <4>1
    <3>3. Map' = file
      BY <1>0, <3>2, MapFactsNext
    <3> QED
      BY <1>0, <3>3, ReadSteps
  <2> QED
    BY <2>2, <2>3
<1> QED
  BY <1>4, <1>5, <1>6, <1>7 DEF HandleStep

LEMMA PluginReads ==
    ASSUME IInv, IInv', Detached' \in SUBSET Client,
           closeAll \/ Mount \/ CloseBackend \/ RegisterBackend \/ Unmount \/ BackendClosed
           \/ \E h \in Handle : FreeSlot(h)
    PROVE  Promise!Next
<1>1. UNCHANGED <<call, chain, file, stable, memory, unit>> /\ answer' = "none"
  BY DEF closeAll, Mount, CloseBackend, RegisterBackend, Unmount, BackendClosed, FreeSlot,
         handles, medium, Quiet
<1>2. \A h \in Handle : \/ phase'[h] = phase[h]
                        \/ phase[h] = "open" /\ phase'[h] = "draining"
  BY DEF closeAll, Mount, CloseBackend, RegisterBackend, Unmount, BackendClosed, FreeSlot, handles
<1>3. \A h \in Handle : Live(h)' <=> Live(h)
  BY <1>1, <1>2 DEF Live, Publishing
<1>4. Map' = Map
  BY <1>1, <1>3, MapKept
<1> QED
  BY <1>1, <1>4, ReadSteps

LEMMA Asks ==
    ASSUME IInv, IInv', NEW c \in Client, NEW h \in Handle, NEW op \in Op, enqueue(c, h, op),
           Detached' \in SUBSET Client
    PROVE  Promise!Next
<1>1. /\ UNCHANGED <<phase, unit, memory, file, stable>> /\ answer' = "none"
      /\ call[c] = Free
      /\ call' = [call EXCEPT ![c] = [op |-> op, at |-> "queued", was |-> Absent]]
  BY DEF enqueue, Quiet, medium
<1>2. OthersKept(h) /\ (Publishing(h)' <=> Publishing(h))
  BY EnqueueFacts
<1>3. \A g \in Handle : Live(g)' <=> Live(g)
  BY <1>1, <1>2 DEF Live, OthersKept
<1>4. Map' = Map
  BY <1>1, <1>3, MapKept
<1>5. Asked[c] = NoCall /\ Asked' = [Asked EXCEPT ![c] = op]
  BY <1>1, WaitingFacts DEF Asked, IInv, TypeOK
<1> QED
  BY <1>1, <1>4, <1>5, AbstractSteps

(* An answered call is asked no more; a job's own steps leave the calls.   *)
LEMMA AskedFacts ==
    ASSUME IInv, NEW c \in Client, call[c] \in Waiting
    PROVE  /\ Asked[c] = call[c].op /\ Asked[c] # NoCall
           /\ call' = [call EXCEPT ![c] = Free] => Asked' = [Asked EXCEPT ![c] = NoCall]
           /\ \A at, was : call' = [call EXCEPT ![c].at = at, ![c].was = was] => Asked' = Asked
           /\ \A at : call' = [call EXCEPT ![c].at = at] => Asked' = Asked
<1>1. call \in [Client -> {Free} \cup Waiting]
  BY DEF IInv, TypeOK, Waiting
<1>2. Asked[c] = call[c].op /\ Asked[c] # NoCall
  BY WaitingFacts DEF Asked, Waiting
<1>3. ASSUME call' = [call EXCEPT ![c] = Free] PROVE Asked' = [Asked EXCEPT ![c] = NoCall]
  BY <1>1, <1>3, WaitingFacts DEF Asked
<1>4. ASSUME NEW at, NEW was, call' = [call EXCEPT ![c].at = at, ![c].was = was]
      PROVE  Asked' = Asked
  <2>1. call'[c].op = call[c].op
    BY <1>1, <1>4 DEF Waiting
  <2> QED
    BY <1>1, <1>4, <2>1 DEF Asked
<1>5. ASSUME NEW at, call' = [call EXCEPT ![c].at = at]
      PROVE  Asked' = Asked
  <2>1. call'[c].op = call[c].op
    BY <1>1, <1>5 DEF Waiting
  <2> QED
    BY <1>1, <1>5, <2>1 DEF Asked
<1> QED
  BY <1>2, <1>3, <1>4, <1>5

LEMMA Starts ==
    ASSUME IInv, IInv', NEW c \in Client, NEW h \in Handle, Start(c, h),
           Detached' \in SUBSET Client
    PROVE  Promise!Next
<1>0. UNCHANGED <<phase, unit, memory, file, stable>>
  BY DEF Start, medium
<1>1. /\ chain[h] # <<>> /\ Head(chain[h]) = c /\ call[c] \in Waiting
      /\ ~Publishing(h) /\ phase[h] \in {"open", "draining"} /\ call[c].op.key \in Key
  BY RunningFacts DEF Start
<1>2. /\ Asked[c] = call[c].op /\ Asked[c] # NoCall
      /\ call' = [call EXCEPT ![c] = Free] => Asked' = [Asked EXCEPT ![c] = NoCall]
      /\ \A at, was : call' = [call EXCEPT ![c].at = at, ![c].was = was] => Asked' = Asked
  BY <1>1, AskedFacts
<1>3. Live(h) <=> unit[h] = "open"
  BY <1>1 DEF Live
<1>4. ASSUME NEW outcome, Finish(c, h, outcome) PROVE Map' = Map
  <2>1. OthersKept(h) /\ ~Publishing(h)'
    BY <1>0, <1>1, <1>4, FinishFacts
  <2>2. \A g \in Handle : Live(g)' <=> Live(g)
    BY <1>0, <1>1, <2>1 DEF Live, OthersKept
  <2> QED
    BY <1>0, <2>2, MapKept
<1>5. ASSUME Finish(c, h, "missing"), call[c].op.do # "put", memory[h][call[c].op.key] = Absent
      PROVE  Promise!Next
  <2>1. Promise!Possible(Asked[c], Map) => c \in Detached
    <3>1. CASE Live(h)
      BY <1>2, <1>5, <3>1, MapFacts DEF Promise!Possible, Promise!Absent, Absent
    <3>2. CASE ~Live(h)
      <4>1. 1 \in DOMAIN chain[h] /\ chain[h][1] = c
        <5>1. chain[h] \in Seq(Client)
          BY DEF IInv, TypeOK
        <5> QED
          BY <1>1, <5>1, ChainFacts
      <4> QED
        BY <3>2, <4>1 DEF Detached
    <3> QED
      BY <3>1, <3>2
  <2>2. Map' = Map /\ answer' = "missing" /\ Asked' = [Asked EXCEPT ![c] = NoCall]
    BY <1>2, <1>4, <1>5 DEF Finish
  <2> QED
    BY <1>0, <1>2, <2>1, <2>2, AbstractSteps
<1>6. ASSUME Finish(c, h, "rejected") PROVE Promise!Next
  <2>1. Map' = Map /\ answer' = "rejected" /\ Asked' = [Asked EXCEPT ![c] = NoCall]
    BY <1>2, <1>4, <1>6 DEF Finish
  <2> QED
    BY <1>0, <1>2, <2>1, AbstractSteps
<1>7. ASSUME unit[h] = "open", UNCHANGED chain, Quiet,
             call' = [call EXCEPT ![c].at = "publishing", ![c].was = state[h][call[c].op.key]]
      PROVE  Promise!Next
  <2>1. \A g \in Handle \ {h} : Live(g)' <=> Live(g)
    <3> SUFFICES ASSUME NEW g \in Handle \ {h}, chain[g] # <<>>
                 PROVE  call'[Head(chain[g])] = call[Head(chain[g])]
      BY <1>0, <1>7 DEF Live, Publishing
    <3>1. Head(chain[g]) # c /\ Head(chain[g]) \in Client
      BY <1>1, HeadAlone
    <3> QED
      BY <1>7, <3>1 DEF IInv, TypeOK
  <2>2. Live(h) /\ Live(h)'
    BY <1>0, <1>1, <1>7 DEF Live
  <2>3. Map' = Map
    BY <1>0, <2>1, <2>2, MapKept
  <2>4. Asked' = Asked
    BY <1>2, <1>7
  <2> QED
    BY <1>0, <1>7, <2>3, <2>4, AbstractSteps DEF Quiet
<1> QED
  BY <1>5, <1>6, <1>7 DEF Start

LEMMA Renames ==
    ASSUME IInv, IInv', NEW c \in Client, NEW h \in Handle, Rename(c, h),
           Detached' \in SUBSET Client
    PROVE  Promise!Next
<1>0. /\ UNCHANGED <<phase, unit, memory, chain, stable>> /\ answer' = "none" /\ file' = state[h]
      /\ call' = [call EXCEPT ![c].at = "renamed"]
  BY DEF Rename, handles, Quiet
<1>1. /\ chain[h] # <<>> /\ Head(chain[h]) = c /\ call[c] \in Waiting
      /\ Publishing(h) /\ phase[h] \in {"open", "draining"} /\ Copied(h, c)
  BY RunningFacts DEF Rename
<1>2. Asked[c] = call[c].op /\ Asked[c] # NoCall /\ Asked' = Asked
  BY <1>0, <1>1, AskedFacts
<1>3. Live(h)
  BY <1>1 DEF Live
<1>4. Live(h)'
  <2>1. c \in Client /\ call'[c].at = "renamed"
    BY <1>0, <1>1 DEF IInv, TypeOK, Waiting
  <2>2. Publishing(h)'
    BY <1>0, <1>1, <2>1 DEF Publishing
  <2> QED
    BY <1>0, <1>1, <2>2 DEF Live
<1>5. Map = memory[h] /\ Map' = memory[h]
  BY <1>0, <1>3, <1>4, MapFacts, MapFactsNext
<1>6. Promise!Possible(Asked[c], Map) /\ file' = After(Asked[c], Map)
  BY <1>0, <1>1, <1>2, <1>5 DEF Copied, Promise!Possible, Promise!Absent, Absent
<1> QED
  BY <1>0, <1>2, <1>5, <1>6, AbstractSteps

LEMMA Writes ==
    ASSUME IInv, IInv', NEW c \in Client, NEW h \in Handle, SyncDirectory(c, h),
           Detached' \in SUBSET Client
    PROVE  Promise!Next
<1>0. /\ UNCHANGED <<phase, unit, slots>> /\ Finish(c, h, "done")
      /\ file' = file /\ stable' = file /\ answer' = "done"
      /\ memory' = [memory EXCEPT ![h] = After(call[c].op, @)]
  BY DEF SyncDirectory, Finish, plugins
<1>1. /\ chain[h] # <<>> /\ Head(chain[h]) = c /\ call[c] \in Waiting /\ call[c].at = "renamed"
      /\ Publishing(h) /\ h \in slots /\ phase[h] \in {"open", "draining"} /\ Copied(h, c)
  BY RunningFacts DEF SyncDirectory
<1>2. /\ Asked[c] = call[c].op /\ Asked[c] # NoCall
      /\ Asked' = [Asked EXCEPT ![c] = NoCall]
  BY <1>0, <1>1, AskedFacts DEF Finish
<1>3. Map = memory[h]
  BY <1>1, MapFacts DEF Live
<1>4. file = After(Asked[c], Map) /\ memory'[h] = file
  BY <1>0, <1>1, <1>2, <1>3 DEF Copied, IInv, TypeOK
<1>5. Map' = file
  <2>1. CASE Live(h)'
    BY <1>4, <2>1, MapFactsNext
  <2>2. CASE ~Live(h)'
    <3>1. \A g \in Handle : Live(g)' => g = h
      BY <1>0, <1>1, MapFactsNext DEF IInv, Slots
    <3> QED
      BY <1>0, <2>2, <3>1, MapFactsNext
  <2> QED
    BY <2>1, <2>2
<1>6. Promise!Possible(Asked[c], Map)
  BY <1>1, <1>2, <1>3 DEF Copied, Promise!Possible, Promise!Absent, Absent
<1>7. Map' = After(Asked[c], Map) /\ file' = Map' /\ stable' = Map'
  BY <1>0, <1>4, <1>5
<1> QED
  BY <1>0, <1>2, <1>6, <1>7, AbstractSteps

LEMMA Rejects ==
    ASSUME IInv, IInv', NEW c \in Client, NEW h \in Handle, PublishFails(c, h),
           Detached' \in SUBSET Client
    PROVE  Promise!Next
<1>0. /\ UNCHANGED <<phase, unit, slots, memory, file, stable>> /\ Finish(c, h, "rejected")
      /\ answer' = "rejected"
  BY DEF PublishFails, Finish, plugins, medium
<1>1. /\ chain[h] # <<>> /\ Head(chain[h]) = c /\ call[c] \in Waiting
      /\ Publishing(h) /\ h \in slots /\ phase[h] \in {"open", "draining"}
  BY RunningFacts DEF PublishFails
<1>2. /\ Asked[c] = call[c].op /\ Asked[c] # NoCall
      /\ Asked' = [Asked EXCEPT ![c] = NoCall]
  BY <1>0, <1>1, AskedFacts DEF Finish
<1>3. Map = memory[h]
  BY <1>1, MapFacts DEF Live
<1>4. Map' \in {Map, file}
  <2>1. CASE Live(h)'
    BY <1>0, <1>3, <2>1, MapFactsNext
  <2>2. CASE ~Live(h)'
    <3>1. \A g \in Handle : Live(g)' => g = h
      BY <1>0, <1>1, MapFactsNext DEF IInv, Slots
    <3> QED
      BY <1>0, <2>2, <3>1, MapFactsNext
  <2> QED
    BY <2>1, <2>2
<1> QED
  BY <1>0, <1>2, <1>4, AbstractSteps

LEMMA Restarts ==
    ASSUME IInv, IInv', Crash, Detached' \in SUBSET Client
    PROVE  Promise!Next
<1>1. file' \in {file, stable} /\ stable' = file' /\ answer' = "none"
  BY DEF Crash, Fresh, Quiet
<1>2. \A h \in Handle : ~Live(h)'
  BY DEF Crash, Fresh, Live
<1>3. Map' = file'
  BY <1>2, MapFactsNext
<1>4. Asked' = [c \in Client |-> NoCall]
  BY WaitingFacts DEF Crash, Fresh, Asked
<1> QED
  BY <1>1, <1>3, <1>4, AbstractSteps

(* Every step of the domain is a step of the atomic map, or none.          *)
LEMMA StepRefines == IInv /\ IInv' /\ [Next]_vars => [Promise!Next]_(Promise!vars)
<1> SUFFICES ASSUME IInv, IInv', [Next]_vars PROVE [Promise!Next]_(Promise!vars)
  OBVIOUS
<1>0. Detached' \in SUBSET Client
  BY DEF Detached
<1>1. ASSUME NEW h \in Handle, Open(h) \/ HandleStep(h) \/ close(h)
      PROVE  Promise!Next
  BY <1>0, <1>1, HandleSteps
<1>2. ASSUME NEW c \in Client, NEW h \in Handle, (\E op \in Op : enqueue(c, h, op)) \/ Job(c, h)
      PROVE  Promise!Next
  BY <1>0, <1>2, Asks, Starts, Renames, Writes, Rejects DEF Job
<1>3. CASE CloseUnits
  BY <1>0, <1>3, HandleSteps, PluginReads DEF CloseUnits
<1>4. CASE closeAll \/ Mount \/ CloseBackend \/ RegisterBackend \/ Unmount \/ BackendClosed
  BY <1>0, <1>4, PluginReads
<1>5. CASE Crash
  BY <1>0, <1>5, Restarts
<1>6. CASE UNCHANGED vars
  BY <1>6 DEF vars, Promise!vars, Live, Publishing
<1> QED
  BY <1>1, <1>2, <1>3, <1>4, <1>5, <1>6 DEF Next

LEMMA InitRefines == Init => Promise!Init
<1> SUFFICES ASSUME Init PROVE Promise!Init
  OBVIOUS
<1>1. \A h \in Handle : ~Live(h) /\ chain[h] = <<>>
  BY DEF Init, Live
<1>2. file = Empty /\ stable = Empty /\ answer = "none"
  BY DEF Init
<1>3. [c \in Client |-> call[c].op] = [c \in Client |-> Promise!NoCall]
  BY WaitingFacts DEF Init, NoCall, Promise!NoCall
<1>4. \A h \in Handle : DOMAIN chain[h] = {}
  BY <1>1
<1> QED
  BY <1>1, <1>2, <1>3, <1>4 DEF Promise!Init, Empty, Absent, Promise!Absent

(* The domain implements the atomic map: each write takes effect at one    *)
(* instant, a rejected one never shows in what callers read, and an        *)
(* answered one survives closing, reopening and crashes.                   *)
THEOREM Implements == Spec => Refinement
<1>1. IInv /\ IInv' /\ [Next]_vars => [Promise!Next]_(Promise!vars)
  BY StepRefines
<1> QED
  BY InitRefines, <1>1, Invariance, PTL DEF Spec, Refinement, Promise!Spec
=============================================================================
