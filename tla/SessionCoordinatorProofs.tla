---------------------- MODULE SessionCoordinatorProofs ----------------------
(***************************************************************************)
(* What holds of one session id for every set of callers, Sessions and     *)
(* preparations and logs of any length: the log is the beginning of its    *)
(* owner's history, what was written stays, a reservation is as it was     *)
(* committed, and only a cold log is repaired.  The inductive invariant is *)
(* about the order of the chain: what stands behind what, and what the     *)
(* waiting operations may still count on.                                  *)
(***************************************************************************)
EXTENDS SessionCoordinator, SequenceTheorems, FiniteSetTheorems, TLAPS

(* The operations that initialize a Session.                               *)
Births == {"created", "suffix"}

(* One Session is live at a time, and none while the pool knows the id.    *)
OneLive == (\A l, m \in Live : l = m) /\ PreparedOrLive

(* Each operation finds its caller or its Session where it left it; the    *)
(* Session of a suffix owns the state, that of a creation does not before  *)
(* its append.                                                             *)
OpOk(o, first) ==
    /\ o.op = "load" => o.who \in Draft
    /\ o.op = "commit" => o.who \in Caller /\ call[o.who].at = "committing"
    /\ o.op = "check" => o.who \in Caller /\ call[o.who].at = "checking"
    /\ o.op \in Births =>
          o.who \in Life /\ ses[o.who].init = "pending" /\ o.upTo = ses[o.who].next - 1
    /\ o.op = "suffix" => state.owner = o.who
    /\ o.op = "created" /\ ~(first /\ step = "append") => state.owner # o.who
    /\ o.op = "batch" =>
          /\ o.who \in Life /\ ses[o.who].init = "ok" /\ ses[o.who].writing
          /\ o.upTo <= Len(ses[o.who].events)
    /\ o.op = "forget" => o.who \in Life /\ ses[o.who].retire = "forgetting"

ChainOps == \A i \in 1..Len(chain) : OpOk(chain[i], i = 1)

(* No operation is queued twice, nor are two commits; of the Sessions to   *)
(* be initialized only the last one is live; a suffix waits for nothing    *)
(* that could touch the state.                                             *)
InOrder(o, p) ==
    /\ o.op = p.op => o.who # p.who /\ o.op # "commit"
    /\ o.op \in Births /\ p.op \in Births => o.who # p.who /\ o.who \notin Live
    /\ p.op = "suffix" => o.op \notin Births \cup {"commit"}

ChainOrder == \A i, j \in 1..Len(chain) : i < j => InOrder(chain[i], chain[j])

(* While the owner is live nobody else is about to be initialized.         *)
OwnerAlone ==
    \A i \in 1..Len(chain) :
        chain[i].op \in Births /\ state.owner \in Live => chain[i].who = state.owner

(* What the entry in the pool has behind it: no initialization and no      *)
(* commit but its own; while it is read, they are all ahead of the read,   *)
(* and it is read only once.                                               *)
(* A commit has the entry, or a source that is out of date.                *)
LoadAt(j) ==
    /\ chain[j].op = "load" /\ chain[j].who = entry.id
    /\ \A i \in 1..Len(chain) : i > j => chain[i].op \notin Births \cup {"commit"}

EntryOrder ==
    /\ entry.phase \in {"ready", "committing", "reserved"} =>
          \A i \in 1..Len(chain) :
             /\ chain[i].op \notin Births
             /\ chain[i].op = "load" => chain[i].who # entry.id
    /\ entry.phase \in {"ready", "reserved"} =>
          \A i \in 1..Len(chain) : chain[i].op # "commit"
    /\ entry.phase = "committing" =>
          \A i \in 1..Len(chain) : chain[i].op = "commit" => call[chain[i].who].draft = entry.id
    /\ entry.phase = "loading" => \E j \in 1..Len(chain) : LoadAt(j)
    /\ \A i \in 1..Len(chain) : chain[i].op = "commit" =>
          \/ entry.id = call[chain[i].who].draft
          \/ Len(call[chain[i].who].source.log) < Len(log)

(* What the running operation has found out, while nobody else may change  *)
(* it.                                                                     *)
Steps ==
    /\ step # "queued" => chain # <<>>
    /\ step \in {"revision", "repair"} => Head(chain).op = "commit" /\ ~Owned
    /\ step = "repair" => state = NoState /\ entry.id = call[Who].draft
    /\ step = "match" => Head(chain).op = "created" /\ state.owner = None
    /\ step \in {"probe", "recheck", "truncate"} => Head(chain).op = "created" /\ state = NoState
    /\ step = "truncate" => IsPrefix(log, Seed)
    /\ step = "append" =>
          /\ Head(chain).op \in {"created", "suffix", "batch"}
          /\ state.owner = Who /\ state.cursor < Head(chain).upTo

(* A state without an owner describes a log that is whole and closed.      *)
Tracked ==
    /\ state.owner = None => state.cursor = Len(log) /\ ~torn /\ ~IsOpen(log)
    /\ \A l \in Life : state.owner = l => ses[l].at \in {"live", "disposed"}

(* What a Session still has to write, it writes as the owner; what it has  *)
(* beyond the log was not made up by a repair.                             *)
SessionOk(l) ==
    /\ ses[l].at \in {"unborn", "lost"} =>
          ses[l].init = "none" /\ ses[l].retire = "none" /\ ~ses[l].writing
    /\ ses[l].next \in 1..(Len(ses[l].events) + 1)
    /\ ses[l].retire # "none" => ses[l].at = "disposed"
    /\ ses[l].retire \in {"forgetting", "done"} => ses[l].init = "ok" /\ ~HasWork(l)
    /\ ses[l].init = "ok" /\ (ses[l].at = "live" \/ HasWork(l)) => state.owner = l
    /\ ses[l].writing => ses[l].init = "ok"
    /\ \A n \in 1..Len(ses[l].events) : n > Len(log) => ses[l].events[n].by # "closer"

Sessions == \A l \in Life : SessionOk(l)

(* A prepared source extends a part of the stored log by a closer, if that *)
(* was open, by the marker, and then by what the setup adds.               *)
Base(s) == Len(Restored(s.log \o Closers(s.log), None))

Good(s) ==
    /\ s \in Source
    /\ IsPrefix(s.log, log) /\ IsPrefix(s.log, s.session)
    /\ Base(s) <= Len(s.session)
    /\ \A i \in 1..Base(s) : i > Len(s.log) => s.session[i].kind # "note"
    /\ ~IsOpen(s.log) => \A i \in 1..Len(s.session) : i > Len(s.log) => s.session[i].by # "closer"

(* A caller that has taken an entry, and what its commit has established.  *)
Holder(c) == call[c].at \in {"committing", "committed", "holding"}
Committable(c) == call[c].at = "holding" \/ (call[c].at = "committed" /\ call[c].outcome = "ok")

Callers ==
    /\ entry.phase \in {"ready", "committing", "reserved"} => Good(entry.source)
    /\ entry.phase \in {"ready", "committing"} =>
          Len(entry.source.session) = Base(entry.source)
    /\ \A c \in Caller : Holder(c) =>
          /\ call[c].draft \in Draft /\ Good(call[c].source)
          /\ entry.id = call[c].draft =>
                /\ entry.source = call[c].source
                /\ entry.phase = IF call[c].at = "holding" THEN "reserved" ELSE "committing"
          /\ \A k \in Caller : Holder(k) /\ call[k].draft = call[c].draft => k = c
    /\ \A c \in Caller : Committable(c) =>
          /\ ~IsOpen(call[c].source.log)
          /\ entry.id = call[c].draft => /\ call[c].source.log = log /\ ~torn
                                         /\ state.owner = None

(* Whoever comes back from the chain has its answer.                       *)
Answers ==
    \A c \in Caller :
        /\ call[c].at = "committed" => call[c].outcome \in {"ok", "stale", "error"}
        /\ call[c].at = "checked" => call[c].outcome \in {"ok", "stale", "error"}

IInv ==
    /\ TypeOK /\ OneLive
    /\ ChainOps /\ ChainOrder /\ OwnerAlone /\ EntryOrder /\ Steps
    /\ Tracked /\ Sessions /\ OneHistory /\ WrittenStays
    /\ Callers /\ Answers

-----------------------------------------------------------------------------
(* Sequences: a prefix, element by element.                                *)
Begins(s, t) == Len(s) <= Len(t) /\ \A i \in 1..Len(s) : s[i] = t[i]

LEMMA PrefixAt ==
    ASSUME NEW S, NEW s \in Seq(S), NEW t \in Seq(S)
    PROVE  IsPrefix(s, t) <=> Begins(s, t)
<1>1. Len(s) \in Nat /\ Len(t) \in Nat
  BY LenProperties
<1>2. SubSeq(s, 1, Len(s)) = s
  BY SubSeqFull
<1>3. ASSUME Len(s) <= Len(t)
      PROVE  (SubSeq(s, 1, Len(s)) = SubSeq(t, 1, Len(s))) <=> \A i \in 1..Len(s) : s[i] = t[i]
  <2>1. 1 \in 1..(Len(t) + 1) /\ Len(s) \in 0..Len(t)
    BY <1>1, <1>3
  <2>2. PICK u : u = SubSeq(t, 1, Len(s))
    OBVIOUS
  <2>3. u \in Seq(S) /\ Len(u) = Len(s) /\ \A i \in 1..Len(u) : u[i] = t[1 + i - 1]
    BY <1>1, <1>3, <2>1, <2>2, SubSeqProperties
  <2>4. \A i \in 1..Len(s) : u[i] = t[i]
    BY <1>1, <2>3
  <2>5. s = u <=> \A i \in 1..Len(s) : s[i] = u[i]
    BY <1>1, <2>3, SeqEqual
  <2>6. QED
    BY <1>2, <2>2, <2>4, <2>5
<1>4. QED
  BY <1>3 DEF IsPrefix, Begins

(* What SubSeq(s, 1, n) holds.                                             *)
LEMMA Opening ==
    ASSUME NEW S, NEW s \in Seq(S), NEW n \in Nat, n <= Len(s)
    PROVE  /\ SubSeq(s, 1, n) \in Seq(S) /\ Len(SubSeq(s, 1, n)) = n
           /\ \A i \in 1..n : SubSeq(s, 1, n)[i] = s[i]
<1>1. Len(s) \in Nat
  BY LenProperties
<1>2. 1 \in 1..(Len(s) + 1) /\ n \in 0..Len(s)
  BY <1>1
<1>3. PICK u : u = SubSeq(s, 1, n)
  OBVIOUS
<1>4. u \in Seq(S) /\ Len(u) = n /\ \A i \in 1..Len(u) : u[i] = s[1 + i - 1]
  BY <1>1, <1>2, <1>3, SubSeqProperties
<1>5. QED
  BY <1>3, <1>4

(* What SubSeq(s, m, n) holds.                                             *)
LEMMA Middle ==
    ASSUME NEW S, NEW s \in Seq(S), NEW m \in Nat, NEW n \in Nat, m <= n, n <= Len(s)
    PROVE  /\ SubSeq(s, m + 1, n) \in Seq(S) /\ Len(SubSeq(s, m + 1, n)) = n - m
           /\ \A i \in 1..(n - m) : SubSeq(s, m + 1, n)[i] = s[m + i]
<1>1. Len(s) \in Nat
  BY LenProperties
<1>2. m + 1 \in 1..(Len(s) + 1) /\ n \in m..Len(s)
  BY <1>1
<1>3. PICK u : u = SubSeq(s, m + 1, n)
  OBVIOUS
<1>4. u \in Seq(S) /\ Len(u) = n - m /\ \A i \in 1..Len(u) : u[i] = s[m + 1 + i - 1]
  BY <1>1, <1>2, <1>3, SubSeqProperties
<1>5. QED
  BY <1>3, <1>4

LEMMA Joined ==
    ASSUME NEW S, NEW s \in Seq(S), NEW t \in Seq(S)
    PROVE  /\ s \o t \in Seq(S) /\ Len(s \o t) = Len(s) + Len(t)
           /\ \A i \in 1..Len(s) : (s \o t)[i] = s[i]
           /\ \A i \in 1..Len(t) : (s \o t)[Len(s) + i] = t[i]
           /\ IsPrefix(s, s \o t)
<1>1. Len(s) \in Nat /\ Len(t) \in Nat
  BY LenProperties
<1>2. PICK u : u = s \o t
  OBVIOUS
<1>3. u \in Seq(S) /\ Len(u) = Len(s) + Len(t)
      /\ \A i \in 1..Len(u) : u[i] = IF i <= Len(s) THEN s[i] ELSE t[i - Len(s)]
  BY <1>2, ConcatProperties
<1>4. (\A i \in 1..Len(s) : u[i] = s[i]) /\ \A i \in 1..Len(t) : u[Len(s) + i] = t[i]
  <2>1. PICK m \in Nat : m = Len(s)
    BY <1>1
  <2>2. PICK n \in Nat : n = Len(t)
    BY <1>1
  <2>3. \A i \in 1..(m + n) : u[i] = IF i <= m THEN s[i] ELSE t[i - m]
    BY <1>3, <2>1, <2>2
  <2>4. \A i \in 1..m : u[i] = s[i]
    BY <2>3
  <2>5. ASSUME NEW i \in 1..n PROVE u[m + i] = t[i]
    <3>1. m + i \in 1..(m + n) /\ ~(m + i <= m) /\ m + i - m = i
      OBVIOUS
    <3>2. QED
      BY <2>3, <3>1
  <2>6. QED
    BY <2>1, <2>2, <2>4, <2>5
<1>5. IsPrefix(s, u)
  BY <1>1, <1>3, <1>4, PrefixAt DEF Begins
<1>6. QED
  BY <1>2, <1>3, <1>4, <1>5

LEMMA Appended ==
    ASSUME NEW S, NEW s \in Seq(S), NEW x \in S
    PROVE  /\ Append(s, x) \in Seq(S) /\ Len(Append(s, x)) = Len(s) + 1
           /\ \A i \in 1..Len(s) : Append(s, x)[i] = s[i]
           /\ Append(s, x)[Len(s) + 1] = x
           /\ Append(s, x) # <<>>
           /\ IsPrefix(s, Append(s, x))
<1>1. Len(s) \in Nat
  BY LenProperties
<1>2. PICK u : u = Append(s, x)
  OBVIOUS
<1>3. /\ u \in Seq(S) /\ Len(u) = Len(s) + 1 /\ u # <<>>
      /\ \A i \in 1..Len(s) : u[i] = s[i]
      /\ u[Len(s) + 1] = x
  BY <1>1, <1>2, AppendProperties
<1>4. IsPrefix(s, u)
  BY <1>1, <1>3, PrefixAt DEF Begins
<1>5. QED
  BY <1>2, <1>3, <1>4

LEMMA PrefixItself ==
    ASSUME NEW S, NEW s \in Seq(S)
    PROVE  IsPrefix(s, s)
BY PrefixAt, LenProperties DEF Begins

LEMMA PrefixTransitive ==
    ASSUME NEW S, NEW s \in Seq(S), NEW t \in Seq(S), NEW u \in Seq(S),
           IsPrefix(s, t), IsPrefix(t, u)
    PROVE  IsPrefix(s, u)
<1>1. Len(s) \in Nat /\ Len(t) \in Nat /\ Len(u) \in Nat
  BY LenProperties
<1>2. Begins(s, t) /\ Begins(t, u)
  BY PrefixAt
<1>3. Begins(s, u)
  BY <1>1, <1>2 DEF Begins
<1>4. QED
  BY <1>3, PrefixAt

(* Taking the first operation off the chain, and any other one.            *)
LEMMA Popped ==
    ASSUME NEW S, NEW s \in Seq(S), s # <<>>
    PROVE  /\ Tail(s) \in Seq(S) /\ Len(s) \in Nat \ {0}
           /\ Len(Tail(s)) = Len(s) - 1
           /\ \A i \in 1..(Len(s) - 1) : Tail(s)[i] = s[i + 1]
           /\ Head(s) = s[1] /\ Head(s) \in S
<1>1. Len(s) \in Nat \ {0}
  BY LenProperties, EmptySeq
<1>2. PICK u : u = Tail(s)
  OBVIOUS
<1>3. u \in Seq(S) /\ Len(u) = Len(s) - 1 /\ \A i \in 1..Len(u) : u[i] = s[i + 1]
  BY <1>2, HeadTailProperties
<1>4. Head(s) = s[1] /\ s[1] \in S
  BY <1>1, HeadTailProperties, ElementOfSeq
<1>5. QED
  BY <1>1, <1>2, <1>3, <1>4

LEMMA Withdrawn ==
    ASSUME NEW S, NEW s \in Seq(S), NEW k \in 1..Len(s)
    PROVE  /\ RemoveAt(s, k) \in Seq(S) /\ Len(RemoveAt(s, k)) = Len(s) - 1
           /\ \A i \in 1..(Len(s) - 1) :
                RemoveAt(s, k)[i] = IF i < k THEN s[i] ELSE s[i + 1]
<1>1. Len(s) \in Nat
  BY LenProperties
<1>2. PICK a : a = SubSeq(s, 1, k - 1)
  OBVIOUS
<1>3. PICK b : b = SubSeq(s, k + 1, Len(s))
  OBVIOUS
<1>4. a \in Seq(S) /\ Len(a) = k - 1 /\ \A i \in 1..(k - 1) : a[i] = s[i]
  BY <1>1, <1>2, Opening
<1>5. b \in Seq(S) /\ Len(b) = Len(s) - k /\ \A i \in 1..(Len(s) - k) : b[i] = s[k + i]
  BY <1>1, <1>3, Middle
<1>6. PICK u : u = a \o b
  OBVIOUS
<1>7. u = RemoveAt(s, k)
  BY <1>2, <1>3, <1>6 DEF RemoveAt
<1>8. u \in Seq(S) /\ Len(u) = Len(s) - 1
      /\ \A i \in 1..Len(u) : u[i] = IF i <= Len(a) THEN a[i] ELSE b[i - Len(a)]
  <2>1. u \in Seq(S) /\ Len(u) = Len(a) + Len(b)
        /\ \A i \in 1..Len(u) : u[i] = IF i <= Len(a) THEN a[i] ELSE b[i - Len(a)]
    BY <1>4, <1>5, <1>6, ConcatProperties
  <2>2. Len(a) + Len(b) = Len(s) - 1
    BY <1>1, <1>4, <1>5
  <2>3. QED
    BY <2>1, <2>2
<1>9. ASSUME NEW i \in 1..(Len(s) - 1)
      PROVE  u[i] = IF i < k THEN s[i] ELSE s[i + 1]
  <2>1. CASE i < k
    BY <1>1, <1>4, <1>8, <2>1
  <2>2. CASE ~(i < k)
    <3>1. u[i] = b[i - (k - 1)] /\ i - (k - 1) \in 1..(Len(s) - k)
      BY <1>1, <1>4, <1>8, <2>2
    <3>2. k + (i - (k - 1)) = i + 1
      BY <1>1
    <3>3. QED
      BY <1>5, <2>2, <3>1, <3>2
  <2>3. QED
    BY <2>1, <2>2
<1>10. QED
  BY <1>7, <1>8, <1>9

(* A sequence of nothing, and of one element.                              *)
LEMMA SetToSeqEmpty == SetToSeq({}) = <<>>
<1>1. Cardinality({}) = 0
  BY FS_EmptySet
<1>2. \A f : f \in [1..0 -> {}] <=> f = <<>>
  <2>1. <<>> \in [1..0 -> {}]
    BY EmptySeq, LenProperties
  <2>2. ASSUME NEW f \in [1..0 -> {}] PROVE f = <<>>
    <3>1. f \in Seq({})
      BY SeqDef
    <3>2. Len(f) \in Nat /\ DOMAIN f = 1..Len(f)
      BY <3>1, LenProperties
    <3>3. Len(f) = 0
      BY <3>2
    <3>4. QED
      BY <3>1, <3>3, EmptySeq
  <2>3. QED
    BY <2>1, <2>2
<1>3. QED
  BY <1>1, <1>2 DEF SetToSeq, IsInjective

LEMMA SetToSeqSingleton ==
    ASSUME NEW x
    PROVE  Len(SetToSeq({x})) = 1 /\ SetToSeq({x})[1] = x /\ SetToSeq({x}) \in Seq({x})
<1>1. Cardinality({x}) = 1
  BY FS_Singleton
<1>2. \E f \in [1..1 -> {x}] : IsInjective(f)
  <2>1. [i \in 1..1 |-> x] \in [1..1 -> {x}]
    OBVIOUS
  <2>2. IsInjective([i \in 1..1 |-> x])
    BY DEF IsInjective
  <2>3. QED
    BY <2>1, <2>2
<1>3. SetToSeq({x}) \in [1..1 -> {x}]
  BY <1>1, <1>2 DEF SetToSeq
<1>4. SetToSeq({x}) \in Seq({x})
  BY <1>3, SeqDef
<1>5. Len(SetToSeq({x})) = 1
  <2>1. PICK n \in Nat : n = Len(SetToSeq({x}))
    BY <1>4, LenProperties
  <2>2. 1..n = 1..1
    BY <1>3, <1>4, <2>1, LenProperties
  <2>3. 1 \in 1..n /\ (n \in 1..n => n \in 1..1)
    BY <2>2
  <2>4. QED
    BY <2>1, <2>3
<1>6. QED
  BY <1>3, <1>4, <1>5

-----------------------------------------------------------------------------
(* What the closers and the marker add to a log.                           *)
LEMMA Closing ==
    ASSUME NEW e \in Seq(Event)
    PROVE  /\ Closers(e) \in Seq(Event)
           /\ \A i \in 1..Len(Closers(e)) : Closers(e)[i] = [by |-> "closer", kind |-> "end"]
           /\ ~IsOpen(e) => Closers(e) = <<>>
<1>1. <<>> \in Seq(Event) /\ Len(<<>>) = 0
  BY EmptySeq
<1>2. [by |-> "closer", kind |-> "end"] \in Event
  BY DEF Event
<1>3. PICK x : x = [by |-> "closer", kind |-> "end"]
  OBVIOUS
<1>4. <<x>> \in Seq(Event) /\ Len(<<x>>) = 1 /\ <<x>>[1] = x
  BY <1>2, <1>3
<1>5. QED
  BY <1>1, <1>3, <1>4 DEF Closers

LEMMA Restoring ==
    ASSUME NEW e \in Seq(Event), NEW d \in Draft
    PROVE  /\ Restored(e, d) \in Seq(Event)
           /\ IsPrefix(e, Restored(e, d))
           /\ Len(Restored(e, d)) = Len(Restored(e, None))
           /\ \A i \in 1..Len(Restored(e, d)) :
                 i > Len(e) => Restored(e, d)[i] = [by |-> d, kind |-> "mark"]
<1>1. Len(e) \in Nat
  BY LenProperties
<1>2. CASE e # <<>> /\ Last(e).kind = "mark"
  <2>1. Restored(e, d) = e /\ Restored(e, None) = e
    BY <1>2 DEF Restored
  <2>2. QED
    BY <1>1, <2>1, PrefixItself
<1>3. CASE ~(e # <<>> /\ Last(e).kind = "mark")
  <2>1. PICK x : x = [by |-> d, kind |-> "mark"]
    OBVIOUS
  <2>2. PICK y : y = [by |-> None, kind |-> "mark"]
    OBVIOUS
  <2>3. x \in Event
    BY <2>1 DEF Event
  <2>4. Restored(e, d) = Append(e, x) /\ Restored(e, None) = Append(e, y)
    BY <1>3, <2>1, <2>2 DEF Restored
  <2>5. e \in Seq(Event \cup {y})
    BY SeqMonotonic
  <2>6. Len(Append(e, y)) = Len(e) + 1
    BY <2>5, Appended
  <2>7. /\ Append(e, x) \in Seq(Event) /\ Len(Append(e, x)) = Len(e) + 1
        /\ Append(e, x)[Len(e) + 1] = x /\ IsPrefix(e, Append(e, x))
    BY <2>3, Appended
  <2>8. \A i \in 1..(Len(e) + 1) : i > Len(e) => i = Len(e) + 1
    BY <1>1
  <2>9. QED
    BY <2>1, <2>4, <2>6, <2>7, <2>8
<1>4. QED
  BY <1>2, <1>3

(* A source that is read from the log is a good one, and pristine.         *)
LEMMA Reading ==
    ASSUME TypeOK, NEW d \in Draft
    PROVE  /\ SourceOf(d) \in Source /\ SourceOf(d).log = log /\ Good(SourceOf(d))
           /\ Len(SourceOf(d).session) = Base(SourceOf(d))
<1> DEFINE e == log \o Closers(log)
<1>1. log \in Seq(Event) /\ torn \in BOOLEAN
  BY DEF TypeOK
<1>2. PICK f : f = e
  OBVIOUS
<1>3. PICK r : r = Restored(f, d)
  OBVIOUS
<1>4. /\ f \in Seq(Event) /\ IsPrefix(log, f) /\ Len(f) = Len(log) + Len(Closers(log))
      /\ \A i \in 1..Len(Closers(log)) : f[Len(log) + i] = [by |-> "closer", kind |-> "end"]
  BY <1>1, <1>2, Closing, Joined
<1>5. /\ r \in Seq(Event) /\ IsPrefix(f, r) /\ Len(r) = Len(Restored(f, None))
      /\ \A i \in 1..Len(r) : i > Len(f) => r[i] = [by |-> d, kind |-> "mark"]
  BY <1>3, <1>4, Restoring
<1>6. SourceOf(d) = [log |-> log, torn |-> torn, session |-> r]
  BY <1>2, <1>3 DEF SourceOf
<1>7. PICK s : s = SourceOf(d)
  OBVIOUS
<1>8. s.log = log /\ s.torn = torn /\ s.session = r /\ s \in Source
  BY <1>1, <1>5, <1>6, <1>7 DEF Source
<1>9. Len(log) \in Nat /\ Len(f) \in Nat /\ Len(r) \in Nat /\ Len(Closers(log)) \in Nat
  BY <1>1, <1>4, <1>5, LenProperties, Closing
<1>10. Begins(f, r)
  BY <1>4, <1>5, PrefixAt
<1>11. ASSUME NEW i \in 1..Len(r), i > Len(log)
       PROVE  r[i].kind # "note" /\ (~IsOpen(log) => r[i].by # "closer")
  <2>1. CASE i > Len(f)
    BY <1>5, <2>1, MarkerAssumption
  <2>2. CASE ~(i > Len(f))
    <3>1. r[i] = f[i]
      BY <1>9, <1>10, <2>2 DEF Begins
    <3>2. i - Len(log) \in 1..Len(Closers(log)) /\ i = Len(log) + (i - Len(log))
      BY <1>4, <1>9, <1>11, <2>2
    <3>3. f[i] = [by |-> "closer", kind |-> "end"]
      BY <1>4, <3>2
    <3>4. ~IsOpen(log) => Len(Closers(log)) = 0
      BY <1>1, Closing, EmptySeq
    <3>5. QED
      BY <1>9, <3>1, <3>2, <3>3, <3>4
  <2>3. QED
    BY <2>1, <2>2
<1>12. Base(s) = Len(r)
  BY <1>2, <1>5, <1>8 DEF Base
<1>13. IsPrefix(log, log) /\ IsPrefix(log, r)
  BY <1>1, <1>4, <1>5, PrefixItself, PrefixTransitive
<1>14. Good(s)
  BY <1>8, <1>9, <1>11, <1>12, <1>13 DEF Good
<1>15. QED
  BY <1>7, <1>8, <1>12, <1>14

LEMMA MissingTypes == Missing \in Source
BY EmptySeq DEF Missing, Source

(* An entry in one of its phases, or with the id of a draft, is there.     *)
LEMMA EntryShape ==
    ASSUME TypeOK
    PROVE  /\ entry = NoEntry \/ entry \in Entry
           /\ entry.id \in Draft \/ entry.phase # "absent" => entry \in Entry
           /\ entry \in Entry => entry.id \in Draft /\ entry # NoEntry
                                 /\ entry.phase # "absent" /\ entry.source \in Source \cup {None}
           /\ entry = NoEntry => entry.id = None /\ entry.phase = "absent" /\ entry.source = None
           /\ NoEntry.id = None /\ NoEntry.phase = "absent"
BY NoneAssumption DEF TypeOK, Entry, NoEntry

(* A state with an owner, or with none, is tracked.                        *)
LEMMA StateShape ==
    ASSUME TypeOK
    PROVE  /\ state = NoState \/ state \in State
           /\ state.owner \in Life \cup {None} => state \in State
           /\ state \in State => state # NoState /\ state.owner \in Life \cup {None}
                                 /\ state.cursor \in Nat /\ state.materialized \in BOOLEAN
           /\ NoState.owner = "untracked" /\ NoState.owner \notin Life \cup {None}
           /\ Owned <=> state.owner \in Life
BY NoneAssumption, MarkerAssumption DEF TypeOK, State, NoState, Owned

LEMMA CallShape ==
    ASSUME TypeOK, NEW c \in Caller
    PROVE  /\ call[c] \in Call /\ call[c].op \in {"none", "prepare", "inspect"}
           /\ call[c].at \in Place /\ call[c].draft \in Draft \cup {None}
           /\ call[c].source \in Source \cup {None}
           /\ call[c].awaits \in Life \cup {None} /\ call[c].aborted \in BOOLEAN
           /\ call[c].outcome \in {"none", "ok", "stale", "error"}
BY DEF TypeOK, Call

LEMMA SessionShape ==
    ASSUME TypeOK, NEW l \in Life
    PROVE  /\ ses[l] \in Session /\ ses[l].at \in {"unborn", "live", "disposed", "lost"}
           /\ ses[l].events \in Seq(Event) /\ Len(ses[l].events) \in Nat
           /\ Len(ses[l].events) <= MaxLog
           /\ ses[l].init \in {"none", "pending", "ok", "failed"} /\ ses[l].next \in Nat
           /\ ses[l].writing \in BOOLEAN /\ ses[l].paused \in BOOLEAN
           /\ ses[l].retire \in Retirement
BY LenProperties DEF TypeOK, Session

(* The running operation, and those that wait behind it.                   *)
LEMMA HeadShape ==
    ASSUME IInv, chain # <<>>
    PROVE  /\ Len(chain) \in Nat \ {0} /\ Head(chain) = chain[1] /\ Who = chain[1].who
           /\ Head(chain) \in Op /\ chain[1] \in Op /\ OpOk(chain[1], TRUE)
           /\ \A i \in 1..Len(chain) : chain[i] \in Op /\ (i > 1 => OpOk(chain[i], FALSE))
           /\ \A i \in 2..Len(chain) : InOrder(chain[1], chain[i])
<1>1. chain \in Seq(Op)
  BY DEF IInv, TypeOK
<1>2. Len(chain) \in Nat \ {0} /\ Head(chain) = chain[1] /\ Head(chain) \in Op
  BY <1>1, Popped
<1>3. \A i \in 1..Len(chain) : chain[i] \in Op
  BY <1>1, ElementOfSeq
<1>4. \A i \in 1..Len(chain) : OpOk(chain[i], i = 1)
  BY DEF IInv, ChainOps
<1>5. \A i \in 1..Len(chain) : (1 < i) => InOrder(chain[1], chain[i])
  BY <1>2 DEF IInv, ChainOrder
<1>6. OpOk(chain[1], TRUE)
  BY <1>2, <1>4 DEF OpOk
<1>7. ASSUME NEW i \in 1..Len(chain), i > 1
      PROVE  OpOk(chain[i], FALSE)
  BY <1>4, <1>7 DEF OpOk
<1>8. chain[1] \in Op /\ \A i \in 2..Len(chain) : InOrder(chain[1], chain[i])
  BY <1>2, <1>3, <1>5
<1>9. QED
  BY <1>2, <1>3, <1>6, <1>7, <1>8 DEF Who

-----------------------------------------------------------------------------
(* What a step must leave alone for the operations to stay in order.       *)
OnChain(o) == \E i \in 1..Len(chain) : o = chain[i]
Behind(o) == \E i \in 2..Len(chain) : o = chain[i]

LEMMA OpKept ==
    ASSUME TypeOK, TypeOK', NEW o \in Op, NEW f \in BOOLEAN, OpOk(o, f),
           o.op = "suffix" => state'.owner = state.owner,
           o.op = "created" => state'.owner = state.owner \/ state'.owner # o.who,
           o.op # "created" \/ step' = step \/ step # "append" \/ ~f,
           o.op \in {"commit", "check"} => call'[o.who].at = call[o.who].at,
           o.op \in Births \cup {"batch", "forget"} =>
              /\ ses'[o.who].init = ses[o.who].init
              /\ ses'[o.who].next = ses[o.who].next
              /\ ses'[o.who].writing = ses[o.who].writing
              /\ Len(ses[o.who].events) <= Len(ses'[o.who].events),
           o.op = "forget" => ses'[o.who].retire = ses[o.who].retire
    PROVE  OpOk(o, f)'
<1>1. o.upTo \in Nat
  BY DEF Op
<1>2. o.who \in Life => Len(ses[o.who].events) \in Nat /\ Len(ses'[o.who].events) \in Nat
                        /\ ses[o.who].writing \in BOOLEAN
  <2>1. \A l \in Life : Len(ses[l].events) \in Nat /\ ses[l].writing \in BOOLEAN
    BY SessionShape
  <2>2. \A l \in Life : ses'[l].events \in Seq(Event)
    BY DEF TypeOK, Session
  <2>3. QED
    BY <2>1, <2>2, LenProperties
<1>3. QED
  BY <1>1, <1>2 DEF OpOk, Births

(* The chain stays as it is.                                               *)
LEMMA ChainStays ==
    ASSUME IInv, chain' = chain, Live' \subseteq Live, state'.owner = state.owner \/ OwnerAlone',
           \A o \in Op, f \in BOOLEAN : OnChain(o) /\ OpOk(o, f) => OpOk(o, f)'
    PROVE  ChainOps' /\ ChainOrder' /\ OwnerAlone'
<1>1. chain \in Seq(Op) /\ Len(chain) \in Nat /\ \A i \in 1..Len(chain) : chain[i] \in Op
  BY ElementOfSeq, LenProperties DEF IInv, TypeOK
<1>2. ChainOps'
  <2>1. SUFFICES ASSUME NEW i \in 1..Len(chain) PROVE OpOk(chain[i], i = 1)'
    BY DEF ChainOps
  <2>2. PICK o \in Op : o = chain[i]
    BY <1>1
  <2>3. PICK f \in BOOLEAN : f = (i = 1)
    OBVIOUS
  <2>4. OpOk(o, f)
    BY <2>2, <2>3 DEF IInv, ChainOps
  <2>5. OpOk(o, f)'
    BY <2>2, <2>4 DEF OnChain
  <2>6. QED
    BY <2>2, <2>3, <2>5
<1>3. ChainOrder'
  BY DEF IInv, ChainOrder, InOrder
<1>4. OwnerAlone'
  BY DEF IInv, OwnerAlone
<1>5. QED
  BY <1>2, <1>3, <1>4

(* The running operation leaves the chain.                                 *)
LEMMA ChainPops ==
    ASSUME IInv, chain # <<>>, Pop, Live' \subseteq Live,
           \/ state'.owner = state.owner
           \/ \A i \in 2..Len(chain) : chain[i].op \in Births => state'.owner \notin Live',
           \A o \in Op : Behind(o) /\ OpOk(o, FALSE) => OpOk(o, FALSE)'
    PROVE  ChainOps' /\ ChainOrder' /\ OwnerAlone' /\ Steps'
<1>1. chain \in Seq(Op)
  BY DEF IInv, TypeOK
<1>2. PICK n \in Nat : n = Len(chain) - 1
  BY <1>1, Popped
<1>3. /\ Len(chain) = n + 1 /\ Len(chain') = n /\ step' = "queued"
      /\ \A i \in 1..n : chain'[i] = chain[i + 1]
  BY <1>1, <1>2, Popped DEF Pop
<1>4. \A i \in 1..n : i + 1 \in 2..(n + 1) /\ i + 1 \in 1..(n + 1)
  OBVIOUS
<1>5. ChainOps'
  <2>1. SUFFICES ASSUME NEW i \in 1..n PROVE OpOk(chain[i], i = 1)'
    BY <1>3 DEF ChainOps
  <2>2. PICK o : o = chain[i + 1]
    OBVIOUS
  <2>3. o \in Op /\ OpOk(o, FALSE) /\ Behind(o)
    <3>1. i + 1 \in 2..Len(chain) /\ i + 1 \in 1..Len(chain) /\ i + 1 > 1
      BY <1>3, <1>4, <2>1
    <3>2. chain[i + 1] \in Op /\ OpOk(chain[i + 1], FALSE)
      BY <3>1, HeadShape
    <3>3. QED
      BY <2>2, <3>1, <3>2 DEF Behind
  <2>4. OpOk(o, FALSE)' /\ o = chain'[i]
    BY <1>3, <2>2, <2>3
  <2>5. QED
    BY <1>3, <2>4 DEF OpOk
<1>6. ChainOrder'
  <2>1. SUFFICES ASSUME NEW i \in 1..n, NEW j \in 1..n, i < j
                 PROVE  InOrder(chain[i], chain[j])'
    BY <1>3 DEF ChainOrder
  <2>2. InOrder(chain[i + 1], chain[j + 1])
    BY <1>3, <1>4, <2>1 DEF IInv, ChainOrder
  <2>3. QED
    BY <1>3, <2>2 DEF InOrder
<1>7. OwnerAlone'
  <2>1. SUFFICES ASSUME NEW i \in 1..n, chain'[i].op \in Births, state'.owner \in Live'
                 PROVE  chain'[i].who = state'.owner
    BY <1>3 DEF OwnerAlone
  <2>2. chain[i + 1].op \in Births /\ state'.owner = state.owner
    BY <1>3, <1>4, <2>1
  <2>3. QED
    BY <1>3, <1>4, <2>1, <2>2 DEF IInv, OwnerAlone
<1>8. Steps'
  BY <1>3 DEF Steps
<1>9. QED
  BY <1>5, <1>6, <1>7, <1>8

(* A new operation is queued behind the others.                            *)
LEMMA ChainPushes ==
    ASSUME IInv, NEW o \in Op, chain' = Append(chain, o), step' = step,
           \A p \in Op : OnChain(p) /\ p.op \in Births =>
              /\ p.who \in Live' => p.who \in Live
              /\ state'.owner \in Live' => p.who = state'.owner,
           o.op \in Births /\ state'.owner \in Live' => o.who = state'.owner,
           \A p \in Op, f \in BOOLEAN : OnChain(p) /\ OpOk(p, f) => OpOk(p, f)',
           \A p \in Op : OnChain(p) => InOrder(p, o)',
           OpOk(o, FALSE)'
    PROVE  /\ ChainOps' /\ ChainOrder' /\ OwnerAlone'
           /\ chain' # <<>> /\ (chain # <<>> => Head(chain') = Head(chain))
           /\ Len(chain') = Len(chain) + 1 /\ chain'[Len(chain) + 1] = o
           /\ \A i \in 1..Len(chain) : chain'[i] = chain[i]
<1>1. chain \in Seq(Op) /\ Len(chain) \in Nat /\ \A i \in 1..Len(chain) : chain[i] \in Op
  BY ElementOfSeq, LenProperties DEF IInv, TypeOK
<1>2. PICK n \in Nat : n = Len(chain)
  BY <1>1
<1>3. /\ chain' \in Seq(Op) /\ Len(chain') = n + 1 /\ chain' # <<>> /\ chain'[n + 1] = o
      /\ \A i \in 1..n : chain'[i] = chain[i] /\ chain[i] \in Op /\ OnChain(chain[i])
  BY <1>1, <1>2, Appended DEF OnChain
<1>4. chain # <<>> => Head(chain') = Head(chain)
  <2>1. chain # <<>> => Head(chain) = chain[1] /\ 1 \in 1..n
    BY <1>1, <1>2, Popped
  <2>2. Head(chain') = chain'[1]
    BY <1>3, Popped
  <2>3. QED
    BY <1>3, <2>1, <2>2
<1>5. ChainOps'
  <2>1. SUFFICES ASSUME NEW i \in 1..(n + 1) PROVE OpOk(chain[i], i = 1)'
    BY <1>3 DEF ChainOps
  <2>2. CASE i = n + 1
    <3>1. chain'[i] = o
      BY <1>3, <2>2
    <3>2. QED
      BY <3>1 DEF OpOk
  <2>3. CASE i \in 1..n
    <3>1. PICK p \in Op : p = chain[i]
      BY <1>3, <2>3
    <3>2. PICK f \in BOOLEAN : f = (i = 1)
      OBVIOUS
    <3>3. OpOk(p, f)
      BY <1>2, <2>3, <3>1, <3>2 DEF IInv, ChainOps
    <3>4. OpOk(p, f)' /\ p = chain'[i]
      BY <1>3, <2>3, <3>1, <3>3
    <3>5. QED
      BY <3>2, <3>4
  <2>4. QED
    BY <1>2, <2>1, <2>2, <2>3
<1>6. ChainOrder'
  <2>1. SUFFICES ASSUME NEW i \in 1..(n + 1), NEW j \in 1..(n + 1), i < j
                 PROVE  InOrder(chain[i], chain[j])'
    BY <1>3 DEF ChainOrder
  <2>2. i \in 1..n
    BY <2>1
  <2>3. PICK p \in Op : p = chain[i] /\ p = chain'[i] /\ OnChain(p)
    BY <1>3, <2>2
  <2>4. CASE j = n + 1
    <3>1. chain'[j] = o /\ InOrder(p, o)'
      BY <1>3, <2>3, <2>4
    <3>2. QED
      BY <2>3, <3>1 DEF InOrder
  <2>5. CASE j \in 1..n
    <3>1. InOrder(chain[i], chain[j]) /\ chain'[j] = chain[j]
      BY <1>2, <1>3, <2>1, <2>2, <2>5 DEF IInv, ChainOrder
    <3>2. p.op \in Births /\ p.who \in Live' => p.who \in Live
      BY <2>3
    <3>3. QED
      BY <2>3, <3>1, <3>2 DEF InOrder
  <2>6. QED
    BY <1>2, <2>1, <2>4, <2>5
<1>7. OwnerAlone'
  <2>1. SUFFICES ASSUME NEW i \in 1..(n + 1), chain'[i].op \in Births, state'.owner \in Live'
                 PROVE  chain'[i].who = state'.owner
    BY <1>3 DEF OwnerAlone
  <2>2. CASE i = n + 1
    BY <1>3, <2>1, <2>2
  <2>3. CASE i \in 1..n
    BY <1>3, <2>1, <2>3
  <2>4. QED
    BY <1>2, <2>1, <2>2, <2>3
<1>8. QED
  BY <1>2, <1>3, <1>4, <1>5, <1>6, <1>7

(* What the entry has behind it, when it stays or goes and no operation    *)
(* joins that it would have to do with.                                    *)
Concerns(o) == o.op \in Births \cup {"commit", "load"}

LEMMA CommitterHolds ==
    ASSUME IInv, NEW o \in Op, OnChain(o), o.op = "commit"
    PROVE  /\ o.who \in Caller /\ call[o.who].at = "committing" /\ Holder(o.who)
           /\ Good(call[o.who].source) /\ call[o.who].draft \in Draft
           /\ Len(call[o.who].source.log) \in Nat /\ Len(call[o.who].source.log) <= Len(log)
           /\ entry.id = call[o.who].draft => entry.phase = "committing"
           /\ \/ entry.id = call[o.who].draft
              \/ Len(call[o.who].source.log) < Len(log)
<1>1. PICK i \in 1..Len(chain) : o = chain[i]
  BY DEF OnChain
<1>2. OpOk(o, i = 1)
  BY <1>1 DEF IInv, ChainOps
<1>3. PICK c \in Caller : c = o.who /\ call[c].at = "committing"
  BY <1>2 DEF OpOk
<1>4. Holder(c)
  BY <1>3 DEF Holder
<1>5. Good(call[c].source) /\ call[c].draft \in Draft
      /\ (entry.id = call[c].draft => entry.phase = "committing")
  BY <1>3, <1>4 DEF IInv, Callers
<1>6. PICK s \in Source : s = call[c].source /\ IsPrefix(s.log, log)
  BY <1>5 DEF Good
<1>7. Len(s.log) \in Nat /\ Len(s.log) <= Len(log)
  BY <1>6, LenProperties DEF Source, IsPrefix
<1>8. entry.id = call[c].draft \/ Len(s.log) < Len(log)
  BY <1>1, <1>3, <1>6 DEF IInv, EntryOrder
<1>9. QED
  BY <1>3, <1>4, <1>5, <1>6, <1>7, <1>8

LEMMA EntryKept ==
    ASSUME IInv, TypeOK',
           \A o \in Op : OnChain(o)' /\ Concerns(o) => OnChain(o),
           \A o \in Op : OnChain(o)' /\ o.op = "commit" =>
              /\ call'[o.who].draft = call[o.who].draft
              /\ call'[o.who].source = call[o.who].source,
           Len(log) <= Len(log'),
           \/ /\ entry' = entry
              /\ entry.phase = "loading" => \E j \in 1..Len(chain') : LoadAt(j)'
           \/ /\ entry' = NoEntry
              /\ \A o \in Op : OnChain(o)' /\ o.op = "commit" =>
                    \/ entry.id # call[o.who].draft
                    \/ Len(call[o.who].source.log) < Len(log')
    PROVE  EntryOrder'
<1>1. Len(log) \in Nat /\ Len(log') \in Nat
  BY LenProperties DEF IInv, TypeOK
<1>2. ASSUME NEW i \in 1..Len(chain')
      PROVE  \E o \in Op : o = chain'[i] /\ OnChain(o)'
  <2>1. chain' \in Seq(Op)
    BY DEF TypeOK
  <2>2. PICK o : o = chain'[i]
    OBVIOUS
  <2>3. o \in Op
    BY <1>2, <2>1, <2>2, ElementOfSeq
  <2>4. OnChain(o)'
    BY <1>2, <2>2 DEF OnChain
  <2>5. QED
    BY <2>2, <2>3, <2>4
<1>3. ASSUME NEW i \in 1..Len(chain'), chain'[i].op = "commit"
      PROVE  \/ entry'.id = call'[chain'[i].who].draft
             \/ Len(call'[chain'[i].who].source.log) < Len(log')
  <2>1. PICK o \in Op : o = chain'[i] /\ OnChain(o)' /\ OnChain(o)
    BY <1>2, <1>3 DEF Concerns
  <2>2. PICK n \in Nat : n = Len(call[o.who].source.log)
    BY <1>3, <2>1, CommitterHolds
  <2>3. entry.id = call[o.who].draft \/ n < Len(log)
    BY <1>3, <2>1, <2>2, CommitterHolds
  <2>4. /\ call'[o.who].draft = call[o.who].draft
        /\ call'[o.who].source = call[o.who].source
    BY <1>3, <2>1
  <2>5. n < Len(log) => n < Len(log')
    BY <1>1
  <2>6. QED
    BY <1>3, <2>1, <2>2, <2>3, <2>4, <2>5
<1>4. CASE entry' = NoEntry
  <2>1. entry'.phase = "absent"
    BY <1>4 DEF NoEntry
  <2>2. QED
    BY <1>3, <2>1 DEF EntryOrder
<1>5. CASE entry' = entry /\ (entry.phase = "loading" => \E j \in 1..Len(chain') : LoadAt(j)')
  <2>1. ASSUME NEW o \in Op, OnChain(o)', Concerns(o)
        PROVE  /\ entry.phase \in {"ready", "committing", "reserved"} =>
                     o.op \notin Births /\ (o.op = "load" => o.who # entry.id)
               /\ entry.phase \in {"ready", "reserved"} => o.op # "commit"
               /\ entry.phase = "committing" /\ o.op = "commit" =>
                     call'[o.who].draft = entry.id
    <3>1. PICK i \in 1..Len(chain) : o = chain[i]
      BY <2>1 DEF OnChain
    <3>2. QED
      BY <2>1, <3>1 DEF IInv, EntryOrder
  <2>2. ASSUME NEW i \in 1..Len(chain')
        PROVE  /\ entry.phase \in {"ready", "committing", "reserved"} =>
                     /\ chain'[i].op \notin Births
                     /\ chain'[i].op = "load" => chain'[i].who # entry.id
               /\ entry.phase \in {"ready", "reserved"} => chain'[i].op # "commit"
               /\ entry.phase = "committing" /\ chain'[i].op = "commit" =>
                     call'[chain'[i].who].draft = entry.id
    <3>1. PICK o \in Op : o = chain'[i] /\ OnChain(o)'
      BY <1>2
    <3>2. QED
      BY <2>1, <3>1 DEF Concerns
  <2>3. QED
    BY <1>3, <1>5, <2>2 DEF EntryOrder
<1>6. QED
  BY <1>4, <1>5

(* The read the entry waits for stays where it is.                         *)
LEMMA LoadStays ==
    ASSUME IInv, entry.phase = "loading", UNCHANGED <<entry, chain>>
    PROVE  \E j \in 1..Len(chain') : LoadAt(j)'
<1>1. PICK j \in 1..Len(chain) : LoadAt(j)
  BY DEF IInv, EntryOrder
<1>2. LoadAt(j)'
  BY <1>1 DEF LoadAt
<1>3. QED
  BY <1>1, <1>2

LEMMA LoadPops ==
    ASSUME IInv, entry.phase = "loading", entry' = entry, chain # <<>>, Pop,
           Head(chain).op # "load" \/ Who # entry.id
    PROVE  \E j \in 1..Len(chain') : LoadAt(j)'
<1>1. chain \in Seq(Op)
  BY DEF IInv, TypeOK
<1>2. PICK n \in Nat : n = Len(chain) - 1
  BY <1>1, Popped
<1>3. /\ Len(chain) = n + 1 /\ Len(chain') = n /\ Head(chain) = chain[1]
      /\ \A i \in 1..n : chain'[i] = chain[i + 1]
  BY <1>1, <1>2, Popped DEF Pop
<1>4. PICK j \in 1..(n + 1) : LoadAt(j)
  BY <1>3 DEF IInv, EntryOrder
<1>5. j # 1
  BY <1>3, <1>4 DEF LoadAt, Who
<1>6. PICK k \in 1..n : j = k + 1
  <2>1. j - 1 \in 1..n /\ j = (j - 1) + 1
    BY <1>2, <1>4, <1>5
  <2>2. QED
    BY <2>1
<1>7. chain'[k].op = "load" /\ chain'[k].who = entry.id
  BY <1>3, <1>4, <1>6 DEF LoadAt
<1>8. ASSUME NEW i \in 1..n, i > k
      PROVE  chain'[i].op \notin Births \cup {"commit"}
  <2>1. i + 1 \in 1..(n + 1) /\ i + 1 > j
    BY <1>2, <1>6, <1>8
  <2>2. chain[i + 1].op \notin Births \cup {"commit"}
    BY <1>3, <1>4, <2>1 DEF LoadAt
  <2>3. QED
    BY <1>3, <1>8, <2>2
<1>9. LoadAt(k)'
  BY <1>3, <1>7, <1>8 DEF LoadAt
<1>10. QED
  BY <1>3, <1>6, <1>9

LEMMA LoadPushes ==
    ASSUME IInv, entry.phase = "loading", entry' = entry, NEW o \in Op,
           chain' = Append(chain, o), ~Concerns(o)
    PROVE  \E j \in 1..Len(chain') : LoadAt(j)'
<1>1. chain \in Seq(Op)
  BY DEF IInv, TypeOK
<1>2. PICK n \in Nat : n = Len(chain)
  BY <1>1, LenProperties
<1>3. Len(chain') = n + 1 /\ chain'[n + 1] = o /\ \A i \in 1..n : chain'[i] = chain[i]
  BY <1>1, <1>2, Appended
<1>4. PICK j \in 1..n : LoadAt(j)
  BY <1>2 DEF IInv, EntryOrder
<1>5. ASSUME NEW i \in 1..(n + 1), i > j
      PROVE  chain'[i].op \notin Births \cup {"commit"}
  <2>1. CASE i = n + 1
    BY <1>3, <2>1 DEF Concerns
  <2>2. CASE i # n + 1
    <3>1. i \in 1..n
      BY <1>2, <1>5, <2>2
    <3>2. QED
      BY <1>2, <1>3, <1>4, <1>5, <3>1 DEF LoadAt
  <2>3. QED
    BY <2>1, <2>2
<1>6. LoadAt(j)'
  BY <1>3, <1>4, <1>5 DEF LoadAt
<1>7. j \in 1..(n + 1)
  BY <1>2, <1>4
<1>8. QED
  BY <1>3, <1>6, <1>7

(* The running operation has found out what it has.                        *)
LEMMA StepsKept ==
    ASSUME IInv, UNCHANGED <<step, log, state>>,
           chain # <<>> => chain' # <<>> /\ Head(chain') = Head(chain),
           step = "repair" => /\ call'[Who].draft = call[Who].draft
                              /\ entry'.id = entry.id \/ entry.id # call[Who].draft,
           step = "truncate" => Seed' = Seed
    PROVE  Steps'
<1>1. step # "queued" => chain # <<>> /\ chain' # <<>> /\ Head(chain') = Head(chain) /\ Who' = Who
  BY DEF IInv, Steps, Who
<1>2. Owned' = Owned
  BY DEF Owned
<1>3. QED
  BY <1>1, <1>2 DEF IInv, Steps

(* What the callers hold, when the log grows or stays, nobody takes an     *)
(* entry, and what a commit has established stays so.                      *)
LEMMA GoodKept ==
    ASSUME TypeOK, TypeOK', IsPrefix(log, log'), NEW s, Good(s)
    PROVE  Good(s)'
<1>1. s.log \in Seq(Event) /\ log \in Seq(Event) /\ log' \in Seq(Event) /\ IsPrefix(s.log, log)
  BY DEF Good, Source, TypeOK
<1>2. IsPrefix(s.log, log')
  BY <1>1, PrefixTransitive
<1>3. QED
  BY <1>2 DEF Good, Base

LEMMA CallersKept ==
    ASSUME IInv, TypeOK', IsPrefix(log, log'), entry' = entry \/ entry' = NoEntry,
           \A c \in Caller : Holder(c)' =>
              /\ Holder(c)
              /\ call'[c].draft = call[c].draft
              /\ call'[c].source = call[c].source
              /\ call'[c].at = "holding" <=> call[c].at = "holding",
           \A c \in Caller : Committable(c)' =>
              /\ ~IsOpen(call[c].source.log)
              /\ entry'.id = call[c].draft =>
                    call[c].source.log = log' /\ ~torn' /\ state'.owner = None
    PROVE  Callers'
<1>1. TypeOK
  BY DEF IInv
<1>2. entry' = NoEntry => entry'.phase = "absent" /\ entry'.id = None
  BY DEF NoEntry
<1>3. entry'.phase \in {"ready", "committing", "reserved"} => Good(entry.source)'
  <2>1. SUFFICES ASSUME entry' = entry, entry.phase \in {"ready", "committing", "reserved"}
                 PROVE  Good(entry.source)'
    BY <1>2
  <2>2. PICK s : s = entry.source /\ Good(s)
    BY <2>1 DEF IInv, Callers
  <2>3. Good(s)'
    BY <1>1, <2>2, GoodKept
  <2>4. QED
    BY <2>1, <2>2, <2>3 DEF Good, Base
<1>4. entry'.phase \in {"ready", "committing"} => Len(entry'.source.session) = Base(entry'.source)
  BY <1>2 DEF IInv, Callers
<1>5. ASSUME NEW c \in Caller, Holder(c)'
      PROVE  /\ call'[c].draft \in Draft /\ Good(call[c].source)'
             /\ entry'.id = call'[c].draft =>
                   /\ entry'.source = call'[c].source
                   /\ entry'.phase = IF call'[c].at = "holding" THEN "reserved" ELSE "committing"
             /\ \A k \in Caller : Holder(k)' /\ call'[k].draft = call'[c].draft => k = c
  <2>1. /\ Holder(c) /\ call'[c].draft = call[c].draft /\ call'[c].source = call[c].source
        /\ call'[c].at = "holding" <=> call[c].at = "holding"
    BY <1>5
  <2>2. PICK s : s = call[c].source /\ Good(s)
    BY <2>1 DEF IInv, Callers
  <2>3. Good(s)'
    BY <1>1, <2>2, GoodKept
  <2>4. call[c].draft \in Draft
    BY <2>1 DEF IInv, Callers
  <2>5. entry'.id = call'[c].draft =>
                   /\ entry'.source = call'[c].source
                   /\ entry'.phase = IF call'[c].at = "holding" THEN "reserved" ELSE "committing"
    <3>1. entry'.id = call'[c].draft => entry' = entry
      BY <1>2, <2>1, <2>4, NoneAssumption
    <3>2. QED
      BY <2>1, <3>1 DEF IInv, Callers
  <2>6. \A k \in Caller : Holder(k)' /\ call'[k].draft = call'[c].draft => k = c
    BY <2>1 DEF IInv, Callers
  <2>7. Good(call[c].source)'
    BY <2>1, <2>2, <2>3 DEF Good, Base
  <2>8. QED
    BY <2>1, <2>4, <2>5, <2>6, <2>7
<1>6. ASSUME NEW c \in Caller, Committable(c)'
      PROVE  /\ ~IsOpen(call'[c].source.log)
             /\ entry'.id = call'[c].draft =>
                   call'[c].source.log = log' /\ ~torn' /\ state'.owner = None
  <2>1. Holder(c)'
    BY <1>6 DEF Committable, Holder
  <2>2. QED
    BY <1>6, <2>1
<1>7. QED
  BY <1>3, <1>4, <1>5, <1>6 DEF Callers

(* The same, when the state and the log stay as well.                      *)
LEMMA CallersStay ==
    ASSUME IInv, TypeOK', UNCHANGED <<log, state>>, torn' = torn \/ ~torn',
           entry' = entry \/ entry' = NoEntry,
           \A c \in Caller : Holder(c)' =>
              /\ Holder(c)
              /\ call'[c].draft = call[c].draft
              /\ call'[c].source = call[c].source
              /\ call'[c].at = "holding" <=> call[c].at = "holding",
           \A c \in Caller : Committable(c)' => Committable(c)
    PROVE  Callers'
<1>1. IsPrefix(log, log')
  BY PrefixItself DEF IInv, TypeOK
<1>2. ASSUME NEW c \in Caller, Committable(c)'
      PROVE  /\ ~IsOpen(call[c].source.log)
             /\ entry'.id = call[c].draft =>
                   call[c].source.log = log' /\ ~torn' /\ state'.owner = None
  <2>1. Committable(c) /\ Holder(c)
    BY <1>2 DEF Committable, Holder
  <2>2. call[c].draft \in Draft
    BY <2>1 DEF IInv, Callers
  <2>3. entry'.id = call[c].draft => entry' = entry
    BY <2>2, NoneAssumption DEF NoEntry
  <2>4. QED
    BY <2>1, <2>3 DEF IInv, Callers
<1>3. QED
  BY <1>1, <1>2, CallersKept

(* Sessions, state and log stay as they are, but for a repaired tail.      *)
LEMMA SessionsStay ==
    ASSUME IInv, UNCHANGED <<log, state, ses>>, torn' = torn \/ ~torn'
    PROVE  Tracked' /\ Sessions' /\ OneHistory' /\ WrittenStays' /\ Live' = Live
<1>1. \A l \in Life : HasWork(l)' = HasWork(l)
  BY DEF HasWork, Pending
<1>2. Tracked'
  BY DEF IInv, Tracked
<1>3. Sessions'
  BY <1>1 DEF IInv, Sessions, SessionOk
<1>4. OneHistory' /\ WrittenStays'
  BY <1>1 DEF IInv, OneHistory, WrittenStays
<1>5. QED
  BY <1>2, <1>3, <1>4 DEF Live

-----------------------------------------------------------------------------
(* The effects that actions share.                                         *)
Others(c) == \A k \in Caller : k # c => call'[k] = call[k]

LEMMA IdleTypes == Idle \in Call /\ Idle.at = "idle" /\ Idle.draft = None
BY DEF Idle, Call, Place

(* One field of the record of one caller is assigned.                      *)
Placed(f, g, c, p) == f = [g EXCEPT ![c].at = p]

LEMMA PlaceSet ==
    ASSUME NEW g \in [Caller -> Call], NEW c \in Caller, NEW p \in Place,
           NEW f, Placed(f, g, c, p)
    PROVE  /\ f \in [Caller -> Call] /\ \A k \in Caller : k # c => f[k] = g[k]
           /\ f[c].at = p /\ f[c].draft = g[c].draft /\ f[c].source = g[c].source
<1>1. PICK r \in Call : r = g[c]
  OBVIOUS
<1>2. PICK q : q = [r EXCEPT !.at = p]
  OBVIOUS
<1>3. q \in Call /\ q.at = p /\ q.draft = r.draft /\ q.source = r.source
  BY <1>1, <1>2 DEF Call
<1>4. f = [g EXCEPT ![c] = q]
  BY <1>1, <1>2 DEF Placed
<1>5. QED
  BY <1>1, <1>3, <1>4

Sourced(f, g, c, s) == f = [g EXCEPT ![c].source = s]

LEMMA SourceSet ==
    ASSUME NEW g \in [Caller -> Call], NEW c \in Caller, NEW s \in Source \cup {None},
           NEW f, Sourced(f, g, c, s)
    PROVE  /\ f \in [Caller -> Call] /\ \A k \in Caller : k # c => f[k] = g[k]
           /\ f[c].source = s /\ f[c].at = g[c].at /\ f[c].draft = g[c].draft
<1>1. PICK r \in Call : r = g[c]
  OBVIOUS
<1>2. PICK q : q = [r EXCEPT !.source = s]
  OBVIOUS
<1>3. q \in Call /\ q.source = s /\ q.at = r.at /\ q.draft = r.draft
  BY <1>1, <1>2 DEF Call
<1>4. f = [g EXCEPT ![c] = q]
  BY <1>1, <1>2 DEF Sourced
<1>5. QED
  BY <1>1, <1>3, <1>4

Drafted(f, g, c, d) == f = [g EXCEPT ![c].draft = d]

LEMMA DraftSet ==
    ASSUME NEW g \in [Caller -> Call], NEW c \in Caller, NEW d \in Draft \cup {None},
           NEW f, Drafted(f, g, c, d)
    PROVE  /\ f \in [Caller -> Call] /\ \A k \in Caller : k # c => f[k] = g[k]
           /\ f[c].draft = d /\ f[c].at = g[c].at /\ f[c].source = g[c].source
<1>1. PICK r \in Call : r = g[c]
  OBVIOUS
<1>2. PICK q : q = [r EXCEPT !.draft = d]
  OBVIOUS
<1>3. q \in Call /\ q.draft = d /\ q.at = r.at /\ q.source = r.source
  BY <1>1, <1>2 DEF Call
<1>4. f = [g EXCEPT ![c] = q]
  BY <1>1, <1>2 DEF Drafted
<1>5. QED
  BY <1>1, <1>3, <1>4

Awaiting(f, g, c, l) == f = [g EXCEPT ![c].awaits = l]

LEMMA AwaitsSet ==
    ASSUME NEW g \in [Caller -> Call], NEW c \in Caller, NEW l \in Life \cup {None},
           NEW f, Awaiting(f, g, c, l)
    PROVE  /\ f \in [Caller -> Call] /\ \A k \in Caller : k # c => f[k] = g[k]
           /\ f[c].at = g[c].at /\ f[c].draft = g[c].draft /\ f[c].source = g[c].source
<1>1. PICK r \in Call : r = g[c]
  OBVIOUS
<1>2. PICK q : q = [r EXCEPT !.awaits = l]
  OBVIOUS
<1>3. q \in Call /\ q.at = r.at /\ q.draft = r.draft /\ q.source = r.source
  BY <1>1, <1>2 DEF Call
<1>4. f = [g EXCEPT ![c] = q]
  BY <1>1, <1>2 DEF Awaiting
<1>5. QED
  BY <1>1, <1>3, <1>4

Gone(f, g, c) == f = [g EXCEPT ![c].aborted = TRUE]

LEMMA AbortedSet ==
    ASSUME NEW g \in [Caller -> Call], NEW c \in Caller, NEW f, Gone(f, g, c)
    PROVE  /\ f \in [Caller -> Call] /\ \A k \in Caller : k # c => f[k] = g[k]
           /\ f[c].at = g[c].at /\ f[c].draft = g[c].draft /\ f[c].source = g[c].source
<1>1. PICK r \in Call : r = g[c]
  OBVIOUS
<1>2. PICK q : q = [r EXCEPT !.aborted = TRUE]
  OBVIOUS
<1>3. q \in Call /\ q.at = r.at /\ q.draft = r.draft /\ q.source = r.source
  BY <1>1, <1>2 DEF Call
<1>4. f = [g EXCEPT ![c] = q]
  BY <1>1, <1>2 DEF Gone
<1>5. QED
  BY <1>1, <1>3, <1>4

Ended(f, g, c, v) == f = [g EXCEPT ![c].outcome = v]

LEMMA OutcomeSet ==
    ASSUME NEW g \in [Caller -> Call], NEW c \in Caller, NEW v \in {"ok", "stale", "error"},
           NEW f, Ended(f, g, c, v)
    PROVE  /\ f \in [Caller -> Call] /\ \A k \in Caller : k # c => f[k] = g[k]
           /\ f[c].outcome = v /\ f[c].at = g[c].at
           /\ f[c].draft = g[c].draft /\ f[c].source = g[c].source
<1>1. PICK r \in Call : r = g[c]
  OBVIOUS
<1>2. PICK q : q = [r EXCEPT !.outcome = v]
  OBVIOUS
<1>3. q \in Call /\ q.outcome = v /\ q.at = r.at /\ q.draft = r.draft /\ q.source = r.source
  BY <1>1, <1>2 DEF Call
<1>4. f = [g EXCEPT ![c] = q]
  BY <1>1, <1>2 DEF Ended
<1>5. QED
  BY <1>1, <1>3, <1>4

LEMMA LeaveShape ==
    ASSUME TypeOK, NEW c \in Caller, Leave(c)
    PROVE  call' \in [Caller -> Call] /\ Others(c) /\ call'[c].at = "idle"
BY IdleTypes DEF TypeOK, Leave, Others

LEMMA AgainShape ==
    ASSUME TypeOK, NEW c \in Caller, Again(c)
    PROVE  call' \in [Caller -> Call] /\ Others(c) /\ call'[c].at = "retirement"
<1>1. PICK k : k = [Idle EXCEPT !.op = call[c].op, !.at = "retirement", !.awaits = retiring]
  OBVIOUS
<1>2. k \in Call /\ k.at = "retirement"
  BY <1>1, CallShape DEF Idle, Call, Place, TypeOK
<1>3. call' = [call EXCEPT ![c] = k]
  BY <1>1 DEF Again
<1>4. QED
  BY <1>2, <1>3 DEF TypeOK, Others

LEMMA BeginShape ==
    ASSUME TypeOK, NEW c \in Caller, NEW op \in {"prepare", "inspect"}, Begin(c, op)
    PROVE  call' \in [Caller -> Call] /\ Others(c) /\ call'[c].at = "retirement"
<1>1. PICK k : k = [Idle EXCEPT !.op = op, !.at = "retirement", !.awaits = retiring]
  OBVIOUS
<1>2. k \in Call /\ k.at = "retirement"
  BY <1>1 DEF Idle, Call, Place, TypeOK
<1>3. call' = [call EXCEPT ![c] = k]
  BY <1>1 DEF Begin
<1>4. QED
  BY <1>2, <1>3 DEF TypeOK, Others

LEMMA EntryForShape ==
    ASSUME IInv, NEW c \in Caller, EntryFor(c)
    PROVE  /\ call' \in [Caller -> Call] /\ Others(c) /\ call'[c].at = "loading"
           /\ \/ entry # NoEntry /\ UNCHANGED <<entry, chain>>
              \/ /\ entry = NoEntry
                 /\ \E d \in FreeDraft :
                       /\ entry' = [id |-> d, phase |-> "loading", source |-> None]
                       /\ Serialize("load", d, 0)
<1>1. PICK d : d = IF entry = NoEntry THEN CHOOSE x \in FreeDraft : TRUE ELSE entry.id
  OBVIOUS
<1>2. TypeOK
  BY DEF IInv
<1>3. entry = NoEntry => d \in FreeDraft /\ d \in Draft
  BY <1>1 DEF EntryFor, FreeDraft
<1>4. d \in Draft
  BY <1>1, <1>2, <1>3, EntryShape
<1>5. entry.source \in Source \cup {None}
  BY <1>2, EntryShape
<1>6. call' = [call EXCEPT ![c].at = "loading", ![c].draft = d,
                           ![c].awaits = None, ![c].source = entry.source]
  BY <1>1 DEF EntryFor
<1>7. call' \in [Caller -> Call] /\ Others(c) /\ call'[c].at = "loading"
  <2>1. PICK f : Placed(f, call, c, "loading")
    BY DEF Placed
  <2>2. PICK g : Drafted(g, f, c, d)
    BY DEF Drafted
  <2>3. PICK h : Awaiting(h, g, c, None)
    BY DEF Awaiting
  <2>4. Sourced(call', h, c, entry.source)
    BY <1>6, <2>1, <2>2, <2>3 DEF Placed, Drafted, Awaiting, Sourced
  <2>5. f \in [Caller -> Call] /\ f[c].at = "loading" /\ \A k \in Caller : k # c => f[k] = call[k]
    <3>1. "loading" \in Place /\ call \in [Caller -> Call]
      BY <1>2 DEF TypeOK, Place
    <3>2. QED
      BY <2>1, <3>1, PlaceSet
  <2>6. g \in [Caller -> Call] /\ g[c].at = "loading" /\ \A k \in Caller : k # c => g[k] = f[k]
    BY <1>4, <2>2, <2>5, DraftSet
  <2>7. h \in [Caller -> Call] /\ h[c].at = "loading" /\ \A k \in Caller : k # c => h[k] = g[k]
    BY <2>3, <2>6, AwaitsSet
  <2>8. /\ call' \in [Caller -> Call] /\ call'[c].at = "loading"
        /\ \A k \in Caller : k # c => call'[k] = h[k]
    BY <1>5, <2>4, <2>7, SourceSet
  <2>9. QED
    BY <2>5, <2>6, <2>7, <2>8 DEF Others
<1>8. IF entry = NoEntry
      THEN /\ entry' = [id |-> d, phase |-> "loading", source |-> None]
           /\ Serialize("load", d, 0)
      ELSE UNCHANGED <<entry, chain>>
  BY <1>1 DEF EntryFor
<1>9. QED
  BY <1>3, <1>7, <1>8

(* A commit comes to its end.                                              *)
LEMMA CommitEndsShape ==
    ASSUME TypeOK, NEW b \in Caller, b = Who,
           NEW outcome \in {"ok", "stale", "error"}, CommitEnds(outcome)
    PROVE  /\ call' \in [Caller -> Call] /\ Others(b)
           /\ call'[b].at = "committed" /\ call'[b].outcome = outcome
           /\ call'[b].draft = call[b].draft /\ call'[b].source = call[b].source
           /\ Pop
<1>1. call' = [call EXCEPT ![b].at = "committed", ![b].outcome = outcome]
  BY DEF CommitEnds
<1>2. PICK f : Placed(f, call, b, "committed")
  BY DEF Placed
<1>3. Ended(call', f, b, outcome)
  BY <1>1, <1>2 DEF Placed, Ended
<1>4. /\ f \in [Caller -> Call] /\ f[b].at = "committed"
      /\ f[b].draft = call[b].draft /\ f[b].source = call[b].source
      /\ \A k \in Caller : k # b => f[k] = call[k]
  <2>1. "committed" \in Place /\ call \in [Caller -> Call]
    BY DEF TypeOK, Place
  <2>2. QED
    BY <1>2, <2>1, PlaceSet
<1>5. /\ call' \in [Caller -> Call] /\ call'[b].at = "committed" /\ call'[b].outcome = outcome
      /\ call'[b].draft = call[b].draft /\ call'[b].source = call[b].source
      /\ \A k \in Caller : k # b => call'[k] = call[k]
  BY <1>3, <1>4, OutcomeSet
<1>6. Pop
  BY DEF CommitEnds
<1>7. QED
  BY <1>5, <1>6 DEF Others

(* A Session is published.                                                 *)
LEMMA UnbornTypes == Unborn \in Session /\ Unborn.at = "unborn" /\ Unborn.init = "none"
                     /\ Unborn.retire = "none" /\ ~Unborn.writing /\ Unborn.next = 1
                     /\ Unborn.events = <<>>
BY EmptySeq DEF Unborn, Session, Retirement

LEMMA BornShape ==
    ASSUME NEW e \in Seq(Event), NEW init \in {"pending", "ok"}
    PROVE  /\ Born(e, init) \in Session /\ Born(e, init).at = "live"
           /\ Born(e, init).events = e /\ Born(e, init).init = init
           /\ Born(e, init).next = Len(e) + 1 /\ ~Born(e, init).writing
           /\ Born(e, init).retire = "none"
<1>1. PICK n \in Nat : n = Len(e)
  BY LenProperties
<1>2. PICK r : r = [Unborn EXCEPT !.at = "live"]
  OBVIOUS
<1>3. PICK q : q = [r EXCEPT !.events = e]
  OBVIOUS
<1>4. PICK p : p = [q EXCEPT !.init = init]
  OBVIOUS
<1>5. Born(e, init) = [p EXCEPT !.next = n + 1]
  BY <1>1, <1>2, <1>3, <1>4 DEF Born
<1>6. r \in Session /\ r.at = "live" /\ r.retire = "none" /\ ~r.writing
  BY <1>2, UnbornTypes DEF Session
<1>7. q \in Session /\ q.at = "live" /\ q.events = e /\ q.retire = "none" /\ ~q.writing
  BY <1>3, <1>6 DEF Session
<1>8. /\ p \in Session /\ p.at = "live" /\ p.events = e /\ p.init = init
      /\ p.retire = "none" /\ ~p.writing
  BY <1>4, <1>7 DEF Session
<1>9. QED
  BY <1>1, <1>5, <1>8 DEF Session

LEMMA NextLifeShape ==
    ASSUME Unused # {}
    PROVE  NextLife \in Life /\ ses[NextLife].at = "unborn"
BY DEF NextLife, Unused

LEMMA SerializedTypes ==
    ASSUME NEW op \in {"load", "commit", "check", "created", "suffix", "batch", "forget"},
           NEW who \in Caller \cup Draft \cup Life, NEW n \in Nat
    PROVE  Serialized(op, who, n) \in Op
BY DEF Serialized, Op

(* One Session changes, and the others do not.                             *)
Rest(l) == \A m \in Life : m # l => ses'[m] = ses[m]

LEMMA SessionSet ==
    ASSUME TypeOK, NEW l \in Life, NEW k \in Session, ses' = [ses EXCEPT ![l] = k]
    PROVE  ses' \in [Life -> Session] /\ Rest(l) /\ ses'[l] = k
BY DEF TypeOK, Rest

LEMMA InitShape ==
    ASSUME TypeOK, NEW l \in Life, NEW v \in {"ok", "failed"},
           ses' = [ses EXCEPT ![l].init = v]
    PROVE  /\ ses' \in [Life -> Session] /\ Rest(l) /\ ses'[l].init = v
           /\ ses'[l].at = ses[l].at /\ ses'[l].events = ses[l].events
           /\ ses'[l].next = ses[l].next /\ ses'[l].writing = ses[l].writing
           /\ ses'[l].retire = ses[l].retire
<1>1. PICK s \in Session : s = ses[l]
  BY SessionShape
<1>2. PICK k : k = [s EXCEPT !.init = v]
  OBVIOUS
<1>3. /\ k \in Session /\ k.init = v /\ k.at = s.at /\ k.events = s.events
      /\ k.next = s.next /\ k.writing = s.writing /\ k.retire = s.retire
  BY <1>1, <1>2 DEF Session
<1>4. ses' = [ses EXCEPT ![l] = k]
  BY <1>1, <1>2
<1>5. QED
  BY <1>1, <1>3, <1>4, SessionSet

LEMMA WritingShape ==
    ASSUME TypeOK, NEW l \in Life, ses' = [ses EXCEPT ![l].writing = TRUE]
    PROVE  /\ ses' \in [Life -> Session] /\ Rest(l) /\ ses'[l].writing
           /\ ses'[l].at = ses[l].at /\ ses'[l].events = ses[l].events
           /\ ses'[l].init = ses[l].init /\ ses'[l].next = ses[l].next
           /\ ses'[l].retire = ses[l].retire
<1>1. PICK s \in Session : s = ses[l]
  BY SessionShape
<1>2. PICK k : k = [s EXCEPT !.writing = TRUE]
  OBVIOUS
<1>3. /\ k \in Session /\ k.writing = TRUE /\ k.at = s.at /\ k.events = s.events
      /\ k.init = s.init /\ k.next = s.next /\ k.retire = s.retire
  BY <1>1, <1>2 DEF Session
<1>4. ses' = [ses EXCEPT ![l] = k]
  BY <1>1, <1>2
<1>5. QED
  BY <1>1, <1>3, <1>4, SessionSet

LEMMA RetireShape ==
    ASSUME TypeOK, NEW l \in Life, NEW v \in Retirement,
           ses' = [ses EXCEPT ![l].retire = v]
    PROVE  /\ ses' \in [Life -> Session] /\ Rest(l) /\ ses'[l].retire = v
           /\ ses'[l].at = ses[l].at /\ ses'[l].events = ses[l].events
           /\ ses'[l].init = ses[l].init /\ ses'[l].next = ses[l].next
           /\ ses'[l].writing = ses[l].writing
<1>1. PICK s \in Session : s = ses[l]
  BY SessionShape
<1>2. PICK k : k = [s EXCEPT !.retire = v]
  OBVIOUS
<1>3. /\ k \in Session /\ k.retire = v /\ k.at = s.at /\ k.events = s.events
      /\ k.init = s.init /\ k.next = s.next /\ k.writing = s.writing
  BY <1>1, <1>2 DEF Session
<1>4. ses' = [ses EXCEPT ![l] = k]
  BY <1>1, <1>2
<1>5. QED
  BY <1>1, <1>3, <1>4, SessionSet

Drains(l) == ses' = [ses EXCEPT ![l].writing = TRUE, ![l].retire = "draining"]
Leaves(l) == ses' = [ses EXCEPT ![l].at = "disposed", ![l].retire = "flushing"]

LEMMA DrainingShape ==
    ASSUME TypeOK, NEW l \in Life, Drains(l)
    PROVE  /\ ses' \in [Life -> Session] /\ Rest(l)
           /\ ses'[l].writing /\ ses'[l].retire = "draining"
           /\ ses'[l].at = ses[l].at /\ ses'[l].events = ses[l].events
           /\ ses'[l].init = ses[l].init /\ ses'[l].next = ses[l].next
<1>1. PICK v \in Retirement : v = "draining"
  BY DEF Retirement
<1>2. PICK s \in Session : s = ses[l]
  BY SessionShape
<1>3. PICK q : q = [s EXCEPT !.writing = TRUE]
  OBVIOUS
<1>4. /\ q \in Session /\ q.writing /\ q.at = s.at /\ q.events = s.events
      /\ q.init = s.init /\ q.next = s.next
  BY <1>2, <1>3 DEF Session
<1>5. PICK k : k = [q EXCEPT !.retire = v]
  OBVIOUS
<1>6. /\ k \in Session /\ k.retire = v /\ k.writing /\ k.at = q.at /\ k.events = q.events
      /\ k.init = q.init /\ k.next = q.next
  BY <1>4, <1>5 DEF Session
<1>7. ses' = [ses EXCEPT ![l] = k]
  BY <1>1, <1>2, <1>3, <1>5 DEF Drains
<1>8. QED
  BY <1>1, <1>2, <1>4, <1>6, <1>7, SessionSet

LEMMA DisposedShape ==
    ASSUME TypeOK, NEW l \in Life, Leaves(l)
    PROVE  /\ ses' \in [Life -> Session] /\ Rest(l)
           /\ ses'[l].at = "disposed" /\ ses'[l].retire = "flushing"
           /\ ses'[l].events = ses[l].events /\ ses'[l].init = ses[l].init
           /\ ses'[l].next = ses[l].next /\ ses'[l].writing = ses[l].writing
<1>1. PICK v \in Retirement : v = "flushing"
  BY DEF Retirement
<1>2. PICK s \in Session : s = ses[l]
  BY SessionShape
<1>3. PICK q : q = [s EXCEPT !.at = "disposed"]
  OBVIOUS
<1>4. /\ q \in Session /\ q.at = "disposed" /\ q.events = s.events
      /\ q.init = s.init /\ q.next = s.next /\ q.writing = s.writing
  BY <1>2, <1>3 DEF Session
<1>5. PICK k : k = [q EXCEPT !.retire = v]
  OBVIOUS
<1>6. /\ k \in Session /\ k.retire = v /\ k.at = q.at /\ k.events = q.events
      /\ k.init = q.init /\ k.next = q.next /\ k.writing = q.writing
  BY <1>4, <1>5 DEF Session
<1>7. ses' = [ses EXCEPT ![l] = k]
  BY <1>1, <1>2, <1>3, <1>5 DEF Leaves
<1>8. QED
  BY <1>1, <1>2, <1>4, <1>6, <1>7, SessionSet

LEMMA EmittedShape ==
    ASSUME TypeOK, NEW l \in Life, Emit(l)
    PROVE  /\ ses' \in [Life -> Session] /\ Rest(l)
           /\ ses'[l].events = Append(ses[l].events, NextOf(ses[l].events, l))
           /\ NextOf(ses[l].events, l) \in Event
           /\ ses'[l].at = ses[l].at /\ ses'[l].init = ses[l].init
           /\ ses'[l].next = ses[l].next /\ ses'[l].writing = ses[l].writing
           /\ ses'[l].retire = ses[l].retire
<1>1. PICK e : e = Append(ses[l].events, NextOf(ses[l].events, l))
  OBVIOUS
<1>2. NextOf(ses[l].events, l) \in Event
  BY DEF NextOf, Event
<1>3. e \in Seq(Event)
  BY <1>1, <1>2, SessionShape, Appended
<1>4. PICK s \in Session : s = ses[l]
  BY SessionShape
<1>5. PICK q : q = [s EXCEPT !.events = e]
  OBVIOUS
<1>6. /\ q \in Session /\ q.events = e /\ q.at = s.at /\ q.init = s.init
      /\ q.next = s.next /\ q.writing = s.writing /\ q.retire = s.retire
  BY <1>3, <1>4, <1>5 DEF Session
<1>7. PICK k : k = [q EXCEPT !.paused = FALSE]
  OBVIOUS
<1>8. /\ k \in Session /\ k.events = e /\ k.at = q.at /\ k.init = q.init
      /\ k.next = q.next /\ k.writing = q.writing /\ k.retire = q.retire
  BY <1>6, <1>7 DEF Session
<1>9. ses' = [ses EXCEPT ![l] = k]
  BY <1>1, <1>4, <1>5, <1>7 DEF Emit
<1>10. QED
  BY <1>1, <1>2, <1>4, <1>6, <1>8, <1>9, SessionSet

Bears(l, e, v) == ses' = [ses EXCEPT ![l] = Born(e, v)]

LEMMA PublishedShape ==
    ASSUME TypeOK, NEW l \in Life, NEW e \in Seq(Event), NEW v \in {"pending", "ok"},
           Bears(l, e, v)
    PROVE  /\ ses' \in [Life -> Session] /\ Rest(l)
           /\ ses'[l].at = "live" /\ ses'[l].events = e /\ ses'[l].init = v
           /\ ses'[l].next = Len(e) + 1 /\ ~ses'[l].writing /\ ses'[l].retire = "none"
<1>1. PICK b : b = Born(e, v)
  OBVIOUS
<1>2. ses' = [ses EXCEPT ![l] = b] /\ b \in Session
  BY <1>1, BornShape DEF Bears
<1>3. ses' \in [Life -> Session] /\ Rest(l) /\ ses'[l] = b
  BY <1>2, SessionSet
<1>4. QED
  BY <1>1, <1>3, BornShape

(* The running write ends well ...                                         *)
LEMMA WrittenShape ==
    ASSUME TypeOK, NEW l \in Life, NEW n \in Nat, n = Head(chain).upTo,
           ses' = [ses EXCEPT ![l] = Written(@)]
    PROVE  /\ ses' \in [Life -> Session] /\ Rest(l)
           /\ ses'[l].at = ses[l].at /\ ses'[l].events = ses[l].events
           /\ Head(chain).op = "batch" =>
                 /\ ses'[l].init = ses[l].init /\ ~ses'[l].writing /\ ses'[l].next = n + 1
                 /\ ses'[l].retire = IF ses[l].retire = "draining" THEN "flushing"
                                                                    ELSE ses[l].retire
           /\ Head(chain).op # "batch" =>
                 /\ ses'[l].init = "ok" /\ ses'[l].writing = ses[l].writing
                 /\ ses'[l].next = ses[l].next /\ ses'[l].retire = ses[l].retire
<1>1. PICK s \in Session : s = ses[l]
  BY SessionShape
<1>2. PICK k : k = Written(s)
  OBVIOUS
<1>3. ses' = [ses EXCEPT ![l] = k]
  BY <1>1, <1>2
<1>4. CASE Head(chain).op = "batch"
  <2>1. PICK v \in Retirement : v = IF s.retire = "draining" THEN "flushing" ELSE s.retire
    BY <1>1 DEF Session, Retirement
  <2>2. PICK q : q = [s EXCEPT !.writing = FALSE]
    OBVIOUS
  <2>3. PICK r : r = [q EXCEPT !.next = n + 1]
    OBVIOUS
  <2>4. k = [r EXCEPT !.retire = v]
    BY <1>2, <1>4, <2>1, <2>2, <2>3 DEF Written
  <2>5. /\ q \in Session /\ ~q.writing /\ q.at = s.at /\ q.events = s.events
        /\ q.init = s.init
    BY <1>1, <2>2 DEF Session
  <2>6. /\ r \in Session /\ ~r.writing /\ r.at = s.at /\ r.events = s.events
        /\ r.init = s.init /\ r.next = n + 1
    BY <2>3, <2>5 DEF Session
  <2>7. /\ k \in Session /\ ~k.writing /\ k.at = s.at /\ k.events = s.events
        /\ k.init = s.init /\ k.next = n + 1 /\ k.retire = v
    BY <2>1, <2>4, <2>6 DEF Session
  <2>8. ses' \in [Life -> Session] /\ Rest(l) /\ ses'[l] = k
    BY <1>3, <2>7, SessionSet
  <2>9. QED
    BY <1>1, <1>4, <2>1, <2>7, <2>8
<1>5. CASE Head(chain).op # "batch"
  <2>1. k = [s EXCEPT !.init = "ok"]
    BY <1>2, <1>5 DEF Written
  <2>2. /\ k \in Session /\ k.at = s.at /\ k.events = s.events /\ k.init = "ok"
        /\ k.writing = s.writing /\ k.next = s.next /\ k.retire = s.retire
    BY <1>1, <2>1 DEF Session
  <2>3. ses' \in [Life -> Session] /\ Rest(l) /\ ses'[l] = k
    BY <1>3, <2>2, SessionSet
  <2>4. QED
    BY <1>1, <1>5, <2>2, <2>3
<1>6. QED
  BY <1>4, <1>5

(* ... or fails.                                                           *)
LEMMA UnwrittenShape ==
    ASSUME TypeOK, NEW l \in Life, ses' = [ses EXCEPT ![l] = Unwritten(@)]
    PROVE  /\ ses' \in [Life -> Session] /\ Rest(l)
           /\ ses'[l].at = ses[l].at /\ ses'[l].events = ses[l].events
           /\ ses'[l].next = ses[l].next
           /\ Head(chain).op = "batch" =>
                 /\ ses'[l].init = ses[l].init /\ ~ses'[l].writing
                 /\ ses'[l].retire = IF ses[l].retire = "draining" THEN "failed"
                                                                    ELSE ses[l].retire
           /\ Head(chain).op # "batch" =>
                 /\ ses'[l].init = "failed" /\ ses'[l].writing = ses[l].writing
                 /\ ses'[l].retire = ses[l].retire
<1>1. PICK s \in Session : s = ses[l]
  BY SessionShape
<1>2. PICK k : k = Unwritten(s)
  OBVIOUS
<1>3. ses' = [ses EXCEPT ![l] = k]
  BY <1>1, <1>2
<1>4. CASE Head(chain).op = "batch"
  <2>1. PICK v \in Retirement : v = IF s.retire = "draining" THEN "failed" ELSE s.retire
    BY <1>1 DEF Session, Retirement
  <2>2. PICK q : q = [s EXCEPT !.writing = FALSE]
    OBVIOUS
  <2>3. PICK r : r = [q EXCEPT !.paused = TRUE]
    OBVIOUS
  <2>4. k = [r EXCEPT !.retire = v]
    BY <1>2, <1>4, <2>1, <2>2, <2>3 DEF Unwritten
  <2>5. /\ q \in Session /\ ~q.writing /\ q.at = s.at /\ q.events = s.events
        /\ q.init = s.init /\ q.next = s.next
    BY <1>1, <2>2 DEF Session
  <2>6. /\ r \in Session /\ ~r.writing /\ r.at = s.at /\ r.events = s.events
        /\ r.init = s.init /\ r.next = s.next
    BY <2>3, <2>5 DEF Session
  <2>7. /\ k \in Session /\ ~k.writing /\ k.at = s.at /\ k.events = s.events
        /\ k.init = s.init /\ k.next = s.next /\ k.retire = v
    BY <2>1, <2>4, <2>6 DEF Session
  <2>8. ses' \in [Life -> Session] /\ Rest(l) /\ ses'[l] = k
    BY <1>3, <2>7, SessionSet
  <2>9. QED
    BY <1>1, <1>4, <2>1, <2>7, <2>8
<1>5. CASE Head(chain).op # "batch"
  <2>1. k = [s EXCEPT !.init = "failed"]
    BY <1>2, <1>5 DEF Unwritten
  <2>2. /\ k \in Session /\ k.at = s.at /\ k.events = s.events /\ k.init = "failed"
        /\ k.writing = s.writing /\ k.next = s.next /\ k.retire = s.retire
    BY <1>1, <2>1 DEF Session
  <2>3. ses' \in [Life -> Session] /\ Rest(l) /\ ses'[l] = k
    BY <1>3, <2>2, SessionSet
  <2>4. QED
    BY <1>1, <1>5, <2>2, <2>3
<1>6. QED
  BY <1>4, <1>5

-----------------------------------------------------------------------------
(* Who runs on the chain.                                                  *)
LEMMA HeadCommits ==
    ASSUME IInv, chain # <<>>, Head(chain).op = "commit"
    PROVE  /\ Who \in Caller /\ call[Who].at = "committing" /\ Holder(Who)
           /\ Good(call[Who].source) /\ call[Who].source \in Source
           /\ call[Who].draft \in Draft
           /\ \A i \in 2..Len(chain) : chain[i].op # "commit"
<1>1. OpOk(chain[1], TRUE) /\ Head(chain) = chain[1] /\ Who = chain[1].who
      /\ \A i \in 2..Len(chain) : InOrder(chain[1], chain[i])
  BY HeadShape
<1>2. Who \in Caller /\ call[Who].at = "committing"
  BY <1>1 DEF OpOk
<1>3. Holder(Who)
  BY <1>2 DEF Holder
<1>4. Good(call[Who].source) /\ call[Who].draft \in Draft
  BY <1>2, <1>3 DEF IInv, Callers
<1>5. QED
  BY <1>1, <1>2, <1>3, <1>4 DEF Good, InOrder

LEMMA HeadInitializes ==
    ASSUME IInv, chain # <<>>, Head(chain).op \in Births
    PROVE  /\ Who \in Life /\ ses[Who].init = "pending" /\ Head(chain).upTo \in Nat
           /\ Head(chain).upTo = ses[Who].next - 1 /\ ~ses[Who].writing
           /\ ses[Who].next \in 1..(Len(ses[Who].events) + 1)
           /\ Head(chain).upTo <= Len(ses[Who].events)
           /\ ses[Who].at \in {"live", "disposed"}
           /\ ses[Who].retire \notin {"forgetting", "done"}
           /\ \A i \in 2..Len(chain) :
                 chain[i].op \in Births => chain[i].who # Who /\ Who \notin Live
           /\ \A i \in 2..Len(chain) : chain[i].op # "suffix"
           /\ entry.phase \notin {"ready", "committing", "reserved"}
<1>1. /\ OpOk(chain[1], TRUE) /\ Head(chain) = chain[1] /\ Who = chain[1].who
      /\ chain[1] \in Op /\ Len(chain) \in Nat \ {0}
      /\ \A i \in 2..Len(chain) : InOrder(chain[1], chain[i])
  BY HeadShape
<1>2. PICK l \in Life : l = Who /\ ses[l].init = "pending" /\ chain[1].upTo = ses[l].next - 1
  BY <1>1 DEF OpOk
<1>3. SessionOk(l) /\ TypeOK
  BY DEF IInv, Sessions
<1>4. /\ ses[l].next \in 1..(Len(ses[l].events) + 1) /\ ses[l].retire \notin {"forgetting", "done"}
      /\ ses[l].at \notin {"unborn", "lost"} /\ ~ses[l].writing
  BY <1>2, <1>3 DEF SessionOk
<1>5. ses[l].at \in {"live", "disposed"} /\ Len(ses[l].events) \in Nat
  BY <1>3, <1>4, SessionShape
<1>6. chain[1].upTo \in Nat
  BY <1>1 DEF Op
<1>7. chain[1].upTo <= Len(ses[l].events)
  BY <1>2, <1>4, <1>5
<1>8. \A i \in 2..Len(chain) : /\ chain[i].op \in Births => chain[i].who # Who /\ Who \notin Live
                               /\ chain[i].op # "suffix"
  BY <1>1 DEF InOrder
<1>9. entry.phase \notin {"ready", "committing", "reserved"}
  BY <1>1 DEF IInv, EntryOrder
<1>10. QED
  BY <1>1, <1>2, <1>4, <1>5, <1>6, <1>7, <1>8, <1>9

LEMMA HeadWrites ==
    ASSUME IInv, chain # <<>>, Head(chain).op \in {"batch", "forget"}
    PROVE  /\ Who \in Life /\ ses[Who].init = "ok" /\ Head(chain).upTo \in Nat
           /\ Head(chain).op = "batch" =>
                 /\ ses[Who].writing /\ HasWork(Who)
                 /\ Head(chain).upTo <= Len(ses[Who].events)
           /\ Head(chain).op = "forget" =>
                 /\ ses[Who].retire = "forgetting" /\ ~HasWork(Who) /\ ses[Who].at = "disposed"
           /\ \A i \in 2..Len(chain) : chain[i].op = Head(chain).op => chain[i].who # Who
<1>1. /\ OpOk(chain[1], TRUE) /\ Head(chain) = chain[1] /\ Who = chain[1].who
      /\ chain[1] \in Op
      /\ \A i \in 2..Len(chain) : InOrder(chain[1], chain[i])
  BY HeadShape
<1>2. \A i \in 2..Len(chain) : chain[i].op = Head(chain).op => chain[i].who # Who
  BY <1>1 DEF InOrder
<1>3. chain[1].upTo \in Nat
  BY <1>1 DEF Op
<1>4. PICK l \in Life : l = Who
  BY <1>1 DEF OpOk
<1>5. SessionOk(l)
  BY DEF IInv, Sessions
<1>6. CASE chain[1].op = "batch"
  <2>1. ses[l].init = "ok" /\ ses[l].writing /\ chain[1].upTo <= Len(ses[l].events)
    BY <1>1, <1>4, <1>6 DEF OpOk
  <2>2. HasWork(l)
    BY <2>1 DEF HasWork
  <2>3. QED
    BY <1>1, <1>2, <1>3, <1>4, <1>6, <2>1, <2>2
<1>7. CASE chain[1].op = "forget"
  <2>1. ses[l].retire = "forgetting"
    BY <1>1, <1>4, <1>7 DEF OpOk
  <2>2. ses[l].init = "ok" /\ ~HasWork(l) /\ ses[l].at = "disposed"
    BY <1>5, <2>1 DEF SessionOk
  <2>3. QED
    BY <1>1, <1>2, <1>3, <1>4, <1>7, <2>1, <2>2
<1>8. QED
  BY <1>1, <1>6, <1>7

(* Whoever is about to write owns the state, and continues the log.        *)
LEMMA HeadOwns ==
    ASSUME IInv, NEW at \in {"queued", "append"}, Appending(at)
    PROVE  /\ chain # <<>> /\ Who \in Life /\ state.owner = Who /\ state \in State
           /\ state.cursor = Len(log) /\ IsPrefix(log, ses[Who].events)
           /\ Head(chain).upTo \in Nat /\ Head(chain).upTo <= Len(ses[Who].events)
           /\ Head(chain).op \in {"batch", "suffix", "created"}
           /\ Head(chain).op # "batch" => /\ ses[Who].init = "pending"
                                          /\ Head(chain).upTo = ses[Who].next - 1
           /\ Head(chain).op = "batch" => ses[Who].init = "ok" /\ HasWork(Who)
<1>1. /\ chain # <<>> /\ step = at
      /\ \/ Head(chain).op \in {"batch", "suffix"}
         \/ Head(chain).op = "created" /\ step = "append"
  BY DEF Appending
<1>2. TypeOK
  BY DEF IInv
<1>3. Who \in Life /\ Head(chain).upTo \in Nat /\ Head(chain).upTo <= Len(ses[Who].events)
  BY <1>1, HeadInitializes, HeadWrites DEF Births
<1>4. state.owner = Who
  <2>1. CASE Head(chain).op = "batch"
    <3>1. ses[Who].init = "ok" /\ HasWork(Who)
      BY <1>1, <2>1, HeadWrites
    <3>2. QED
      BY <1>3, <3>1 DEF IInv, OneHistory
  <2>2. CASE Head(chain).op = "suffix"
    BY <1>1, <2>2, HeadShape DEF OpOk
  <2>3. CASE Head(chain).op = "created" /\ step = "append"
    BY <2>3 DEF IInv, Steps
  <2>4. QED
    BY <1>1, <2>1, <2>2, <2>3
<1>5. state \in State /\ state.cursor = Len(log) /\ IsPrefix(log, ses[Who].events)
  BY <1>2, <1>3, <1>4, StateShape DEF IInv, OneHistory
<1>6. Head(chain).op # "batch" => ses[Who].init = "pending" /\ Head(chain).upTo = ses[Who].next - 1
  BY <1>1, HeadInitializes DEF Births
<1>7. Head(chain).op = "batch" => ses[Who].init = "ok" /\ HasWork(Who)
  BY <1>1, HeadWrites
<1>8. QED
  BY <1>1, <1>3, <1>4, <1>5, <1>6, <1>7

(* What it writes: its events from the cursor on.                          *)
LEMMA FreshShape ==
    ASSUME IInv, NEW at \in {"queued", "append"}, Appending(at)
    PROVE  /\ Fresh \in Seq(Event)
           /\ Fresh = <<>> <=> Head(chain).upTo <= Len(log)
           /\ Head(chain).upTo > Len(log) =>
                 /\ Len(Fresh) = Head(chain).upTo - Len(log)
                 /\ \A i \in 1..Len(Fresh) : Fresh[i] = ses[Who].events[Len(log) + i]
<1>1. PICK e \in Seq(Event) : e = ses[Who].events
  BY HeadOwns, SessionShape DEF IInv
<1>2. PICK m \in Nat : m = Len(log) /\ m = state.cursor
  BY HeadOwns, LenProperties DEF IInv, TypeOK
<1>3. PICK n \in Nat : n = Head(chain).upTo /\ n <= Len(e)
  BY <1>1, HeadOwns
<1>4. Fresh = SubSeq(e, m + 1, n)
  BY <1>1, <1>2, <1>3 DEF Fresh
<1>5. CASE n <= m
  <2>1. SubSeq(e, m + 1, n) = <<>>
    <3>1. m + 1 > n
      BY <1>5
    <3>2. QED
      BY <3>1, SubSeqEmpty
  <2>2. QED
    BY <1>2, <1>3, <1>4, <1>5, <2>1, EmptySeq
<1>6. CASE n > m
  <2>1. PICK x : x = SubSeq(e, m + 1, n)
    OBVIOUS
  <2>2. /\ x \in Seq(Event) /\ Len(x) = n - m
        /\ \A i \in 1..(n - m) : x[i] = e[m + i]
    BY <1>3, <1>6, <2>1, Middle
  <2>3. x # <<>>
    BY <1>6, <2>2, EmptySeq
  <2>4. Fresh = x /\ Head(chain).upTo = n /\ Len(log) = m /\ ses[Who].events = e
    BY <1>1, <1>2, <1>3, <1>4, <2>1
  <2>5. /\ x = <<>> <=> n <= m
        /\ n > m => /\ Len(x) = n - m
                    /\ \A i \in 1..Len(x) : x[i] = e[m + i]
    BY <1>2, <1>3, <1>6, <2>2, <2>3
  <2>6. QED
    BY <2>2, <2>4, <2>5
<1>7. QED
  BY <1>5, <1>6

-----------------------------------------------------------------------------
(* Every step keeps every variable in its type.                            *)
LEMMA TypesMean ==
    ASSUME log' \in Seq(Event), torn' \in BOOLEAN, state' \in State \cup {NoState},
           entry' \in Entry \cup {NoEntry}, call' \in [Caller -> Call],
           chain' \in Seq(Op), step' \in Step, ses' \in [Life -> Session],
           \A l \in Life : Len(ses'[l].events) <= MaxLog,
           retiring' \in Life \cup {None}, mishaps' \in 0..MaxMishap
    PROVE  TypeOK'
BY DEF TypeOK

(* The queue after an operation has joined or left it.                     *)
LEMMA QueueTypes ==
    ASSUME TypeOK
    PROVE  /\ \A o \in Op : Append(chain, o) \in Seq(Op)
           /\ chain # <<>> => Tail(chain) \in Seq(Op)
           /\ \A i \in 1..Len(chain) : RemoveAt(chain, i) \in Seq(Op)
BY Appended, Popped, Withdrawn DEF TypeOK

LEMMA CallerTypes ==
    ASSUME IInv, NEW c \in Caller,
           \/ Begin(c, "prepare") \/ Begin(c, "inspect")
           \/ Enter(c) \/ Reserve(c) \/ Committed(c) \/ Abort(c)
           \/ Inspect(c) \/ Checked(c)
    PROVE  TypeOK'
<1>1. TypeOK
  BY DEF IInv
<1>2. /\ log \in Seq(Event) /\ torn \in BOOLEAN /\ state \in State \cup {NoState}
      /\ entry \in Entry \cup {NoEntry} /\ call \in [Caller -> Call]
      /\ chain \in Seq(Op) /\ step \in Step /\ ses \in [Life -> Session]
      /\ \A l \in Life : Len(ses[l].events) <= MaxLog
      /\ retiring \in Life \cup {None} /\ mishaps \in 0..MaxMishap
  BY <1>1 DEF TypeOK
<1>3. UNCHANGED <<log, torn, state, step, ses, retiring, mishaps>>
  BY DEF Begin, Enter, Reserve, Committed, Abort, Inspect, Checked
<1>4. SUFFICES entry' \in Entry \cup {NoEntry} /\ call' \in [Caller -> Call] /\ chain' \in Seq(Op)
  BY <1>2, <1>3, TypesMean
<1>5. Removed(call[c].draft) \in Entry \cup {NoEntry}
  BY <1>2 DEF Removed
<1>6. Leave(c) \/ Again(c) => call' \in [Caller -> Call]
  BY <1>1, LeaveShape, AgainShape

<1>a. call[c].at = "committed" => call[c].outcome \in {"ok", "stale", "error"}
  BY DEF IInv, Answers
<1>b. call[c].at = "checked" => call[c].outcome \in {"ok", "stale", "error"}
  BY DEF IInv, Answers
<1>c. call[c].aborted \in BOOLEAN
  BY <1>1, CallShape
<1>7. CASE Begin(c, "prepare") \/ Begin(c, "inspect")
  <2>1. call' \in [Caller -> Call]
    BY <1>1, <1>7, BeginShape
  <2>2. UNCHANGED <<entry, chain>>
    BY <1>7 DEF Begin
  <2>3. QED
    BY <1>2, <2>1, <2>2
<1>8. CASE Enter(c)
  <2>1. CASE Leave(c) /\ UNCHANGED <<entry, chain>>
    BY <1>2, <1>6, <2>1
  <2>2. CASE EntryFor(c)
    <3>1. call' \in [Caller -> Call]
      BY <2>2, EntryForShape
    <3>2. CASE UNCHANGED <<entry, chain>>
      BY <1>2, <3>1, <3>2
    <3>3. CASE \E d \in FreeDraft :
                  /\ entry' = [id |-> d, phase |-> "loading", source |-> None]
                  /\ Serialize("load", d, 0)
      <4>1. PICK d \in Draft : /\ entry' = [id |-> d, phase |-> "loading", source |-> None]
                               /\ Serialize("load", d, 0)
        BY <3>3 DEF FreeDraft
      <4>2. Serialized("load", d, 0) \in Op
        BY SerializedTypes
      <4>3. chain' \in Seq(Op)
        BY <1>1, <4>1, <4>2, QueueTypes DEF Serialize
      <4>4. entry' \in Entry
        BY <4>1 DEF Entry
      <4>5. QED
        BY <3>1, <4>3, <4>4
    <3>4. QED
      BY <2>2, <3>2, <3>3, EntryForShape
  <2>3. QED
    BY <1>8, <2>1, <2>2 DEF Enter
<1>9. CASE Reserve(c)
  <2>1. CASE (Leave(c) \/ Again(c)) /\ UNCHANGED <<entry, chain>>
    BY <1>2, <1>6, <2>1
  <2>2. CASE /\ call[c].source # Missing /\ entry.id = call[c].draft
             /\ entry' = [entry EXCEPT !.phase = "committing"]
             /\ call' = [call EXCEPT ![c].at = "committing", ![c].source = entry.source]
             /\ Serialize("commit", c, 0)
    <3>1. PICK f : Placed(f, call, c, "committing")
      BY DEF Placed
    <3>2. Sourced(call', f, c, entry.source)
      BY <2>2, <3>1 DEF Placed, Sourced
    <3>3. f \in [Caller -> Call] /\ entry.source \in Source \cup {None}
      <4>1. "committing" \in Place
        BY DEF Place
      <4>2. QED
        BY <1>1, <1>2, <3>1, <4>1, EntryShape, PlaceSet
    <3>4. call' \in [Caller -> Call]
      BY <3>2, <3>3, SourceSet
    <3>5. Serialized("commit", c, 0) \in Op /\ chain' = Append(chain, Serialized("commit", c, 0))
      BY <2>2, SerializedTypes DEF Serialize
    <3>6. chain' \in Seq(Op)
      BY <1>1, <3>5, QueueTypes
    <3>7. entry' = [entry EXCEPT !.phase = "committing"] /\ entry \in Entry
      <4>1. entry.phase = "ready"
        BY <1>9, <2>2 DEF Reserve, HeldUp
      <4>2. QED
        BY <1>1, <2>2, <4>1, EntryShape
    <3>8. entry' \in Entry
      BY <3>7 DEF Entry
    <3>9. QED
      BY <3>4, <3>6, <3>8
  <2>3. QED
    BY <1>9, <2>1, <2>2 DEF Reserve
<1>10. CASE Committed(c)
  <2>1. chain' = chain
    BY <1>10 DEF Committed
  <2>2. CASE (Leave(c) \/ Again(c)) /\ (entry' = entry \/ GiveUp(c) \/ GiveBack(c))
    <3>1. entry' = entry \/ GiveUp(c) \/ GiveBack(c)
      BY <2>2
    <3>2. entry' \in Entry \cup {NoEntry}
      <4>1. CASE GiveBack(c) /\ entry.id = call[c].draft
        <5>1. entry' = [entry EXCEPT !.phase = "ready"]
          BY <4>1 DEF GiveBack, MadeReady
        <5>2. Holder(c)
          BY <1>10 DEF Committed, Holder
        <5>3. entry \in Entry
          BY <1>1, <4>1, <5>2, EntryShape DEF IInv, Callers
        <5>4. QED
          BY <5>1, <5>3 DEF Entry
      <4>2. CASE GiveBack(c) /\ entry.id # call[c].draft
        BY <1>2, <4>2 DEF GiveBack, MadeReady
      <4>3. QED
        BY <1>2, <1>5, <3>1, <4>1, <4>2 DEF GiveUp
    <3>3. QED
      BY <1>2, <1>6, <2>1, <2>2, <3>2
  <2>3. CASE /\ entry' = [entry EXCEPT !.phase = "reserved"] /\ entry.id = call[c].draft
             /\ call' = [call EXCEPT ![c].at = "holding"]
    <3>1. Holder(c)
      BY <1>10 DEF Committed, Holder
    <3>2. entry \in Entry
      BY <1>1, <2>3, <3>1, EntryShape DEF IInv, Callers
    <3>3. entry' \in Entry
      BY <2>3, <3>2 DEF Entry
    <3>4. call' \in [Caller -> Call]
      <4>1. "holding" \in Place /\ Placed(call', call, c, "holding")
        BY <2>3 DEF Place, Placed
      <4>2. QED
        BY <1>2, <4>1, PlaceSet
    <3>5. QED
      BY <1>2, <2>1, <3>3, <3>4
  <2>4. QED
    BY <1>a, <1>c, <1>10, <2>2, <2>3 DEF Committed
<1>11. CASE Abort(c)
  <2>1. CASE Leave(c) /\ UNCHANGED <<entry, chain>>
    BY <1>2, <1>6, <2>1
  <2>2. CASE /\ \E i \in 1..Len(chain) : chain' = RemoveAt(chain, i)
             /\ GiveUp(c) /\ Leave(c)
    BY <1>1, <1>5, <1>6, <2>2, QueueTypes DEF GiveUp
  <2>3. CASE call' = [call EXCEPT ![c].aborted = TRUE] /\ UNCHANGED <<entry, chain>>
    <3>1. call' \in [Caller -> Call]
      <4>1. Gone(call', call, c)
        BY <2>3 DEF Gone
      <4>2. QED
        BY <1>2, <4>1, AbortedSet
    <3>2. QED
      BY <1>2, <2>3, <3>1
  <2>4. QED
    BY <1>11, <2>1, <2>2, <2>3 DEF Abort
<1>12. CASE Inspect(c)
  <2>1. CASE Leave(c) /\ UNCHANGED chain
    BY <1>2, <1>6, <1>12, <2>1 DEF Inspect
  <2>2. CASE call' = [call EXCEPT ![c].at = "checking"] /\ Serialize("check", c, 0)
    <3>1. call' \in [Caller -> Call]
      <4>1. "checking" \in Place /\ Placed(call', call, c, "checking")
        BY <2>2 DEF Place, Placed
      <4>2. QED
        BY <1>2, <4>1, PlaceSet
    <3>2. Serialized("check", c, 0) \in Op
      BY SerializedTypes
    <3>3. chain' \in Seq(Op)
      BY <1>1, <2>2, <3>2, QueueTypes DEF Serialize
    <3>4. QED
      BY <1>2, <1>12, <3>1, <3>3 DEF Inspect
  <2>3. QED
    BY <1>12, <2>1, <2>2 DEF Inspect
<1>13. CASE Checked(c)
  <2>1. chain' = chain /\ (Leave(c) \/ Again(c)) /\ (entry' = entry \/ GiveUp(c))
    BY <1>b, <1>13 DEF Checked
  <2>2. QED
    BY <1>2, <1>5, <1>6, <2>1 DEF GiveUp
<1>14. QED
  BY <1>7, <1>8, <1>9, <1>10, <1>11, <1>12, <1>13

(* What a caller that holds a preparation has in hand.                     *)
LEMMA HolderShape ==
    ASSUME IInv, NEW c \in Caller, Holder(c)
    PROVE  /\ call[c].draft \in Draft /\ call[c].source \in Source
           /\ call[c].source.log \in Seq(Event) /\ call[c].source.session \in Seq(Event)
           /\ Good(call[c].source)
           /\ entry.id = call[c].draft => entry \in Entry /\ entry.source = call[c].source
BY EntryShape DEF IInv, Callers, Good, Source

LEMMA SetupShape ==
    ASSUME IInv, NEW c \in Caller, Setup(c)
    PROVE  \E g \in Source :
              /\ g.log = call[c].source.log
              /\ g.session = Append(call[c].source.session, [by |-> call[c].draft, kind |-> "note"])
              /\ [by |-> call[c].draft, kind |-> "note"] \in Event
              /\ call' \in [Caller -> Call] /\ Others(c)
              /\ call'[c].source = g /\ call'[c].at = "holding" /\ call'[c].draft = call[c].draft
              /\ IF Reserves(c) THEN entry' \in Entry /\ entry'.source = g /\ entry'.id = entry.id
                                     /\ entry'.phase = entry.phase
                                ELSE entry' = entry
<1>1. Holder(c) /\ TypeOK
  BY DEF IInv, Setup, Holder
<1>2. PICK x : x = [by |-> call[c].draft, kind |-> "note"]
  OBVIOUS
<1>3. PICK s \in Source : s = call[c].source /\ call[c].draft \in Draft
  BY <1>1, HolderShape
<1>4. x \in Event
  BY <1>2, <1>3 DEF Event
<1>5. PICK q : q = Append(s.session, x)
  OBVIOUS
<1>6. q \in Seq(Event)
  BY <1>3, <1>4, <1>5, Appended DEF Source
<1>7. PICK g : g = [s EXCEPT !.session = q]
  OBVIOUS
<1>8. g \in Source /\ g.log = s.log /\ g.session = q
  BY <1>3, <1>6, <1>7 DEF Source
<1>9. /\ call' = [call EXCEPT ![c].source = g]
      /\ entry' = IF Reserves(c) THEN [entry EXCEPT !.source = g] ELSE entry
  BY <1>2, <1>3, <1>5, <1>7 DEF Setup
<1>10. /\ call' \in [Caller -> Call] /\ Others(c) /\ call'[c].source = g
       /\ call'[c].at = call[c].at /\ call'[c].draft = call[c].draft
  <2>1. call \in [Caller -> Call] /\ g \in Source \cup {None}
    BY <1>1, <1>8 DEF TypeOK
  <2>2. Sourced(call', call, c, g)
    BY <1>9 DEF Sourced
  <2>3. QED
    BY <2>1, <2>2, SourceSet DEF Others
<1>11. IF Reserves(c) THEN entry' \in Entry /\ entry'.source = g /\ entry'.id = entry.id
                           /\ entry'.phase = entry.phase
                      ELSE entry' = entry
  <2>1. CASE Reserves(c)
    <3>1. entry \in Entry /\ entry' = [entry EXCEPT !.source = g]
      BY <1>1, <1>9, <2>1, EntryShape DEF Reserves
    <3>2. QED
      BY <1>8, <2>1, <3>1 DEF Entry
  <2>2. CASE ~Reserves(c)
    BY <1>9, <2>2
  <2>3. QED
    BY <2>1, <2>2
<1>12. call[c].at = "holding"
  BY DEF Setup
<1>13. QED
  BY <1>2, <1>3, <1>4, <1>5, <1>8, <1>10, <1>11, <1>12

LEMMA PublishShape ==
    ASSUME IInv, NEW c \in Caller, Publish(c)
    PROVE  \E l \in Life, e \in Seq(Event), v \in {"pending", "ok"} :
              /\ e = call[c].source.session /\ Len(e) <= MaxLog
              /\ ses[l].at = "unborn" /\ Live = {} /\ l = NextLife
              /\ ses' = [ses EXCEPT ![l] = Born(e, v)]
              /\ state' \in State /\ state'.owner = l /\ state'.cursor = state.cursor
              /\ v = IF Len(e) > state.cursor THEN "pending" ELSE "ok"
              /\ IF Len(e) > state.cursor
                 THEN chain' = Append(chain, Serialized("suffix", l, Len(e)))
                 ELSE chain' = chain
              /\ entry' = NoEntry /\ Leave(c)
              /\ state \in State
<1>1. Holder(c) /\ Committable(c) /\ TypeOK /\ entry.id = call[c].draft
  BY DEF IInv, Publish, Reserves, Holder, Committable
<1>2. state.owner = None
  BY <1>1 DEF IInv, Callers
<1>3. state \in State
  BY <1>1, <1>2, StateShape
<1>4. PICK l \in Life : l = NextLife /\ ses[l].at = "unborn"
  BY NextLifeShape DEF Publish
<1>5. PICK e \in Seq(Event) : e = call[c].source.session
  BY <1>1, HolderShape
<1>6. PICK v \in {"pending", "ok"} : v = IF Len(e) > state.cursor THEN "pending" ELSE "ok"
  OBVIOUS
<1>7. /\ state' = [state EXCEPT !.owner = l]
      /\ ses' = [ses EXCEPT ![l] = Born(e, v)]
      /\ IF Len(e) > state.cursor THEN Serialize("suffix", l, Len(e)) ELSE UNCHANGED chain
      /\ entry' = NoEntry /\ Leave(c) /\ Live = {} /\ Len(e) <= MaxLog
  BY <1>4, <1>5, <1>6 DEF Publish
<1>8. state' \in State /\ state'.owner = l /\ state'.cursor = state.cursor
  BY <1>3, <1>7 DEF State
<1>9. QED
  BY <1>3, <1>4, <1>5, <1>6, <1>7, <1>8 DEF Serialize

(* A Session that the coordinator knows nothing about.                     *)
LEMMA UnknownShape ==
    ASSUME IInv,
           \/ Create
           \/ \E c \in Caller : PublishUnknown(c) /\ entry = NoEntry
    PROVE  \E l \in Life, e \in Seq(Event) :
              /\ Len(e) <= MaxLog /\ ses[l].at = "unborn" /\ Live = {} /\ entry = NoEntry
              /\ ses' = [ses EXCEPT ![l] = Born(e, "pending")]
              /\ chain' = Append(chain, Serialized("created", l, Len(e)))
              /\ UNCHANGED <<log, torn, state, entry, step, retiring, mishaps>>
              /\ \/ e = <<>> /\ call' = call
                 \/ \E c \in Caller : /\ call[c].at = "holding" /\ e = call[c].source.session
                                      /\ Leave(c)
<1>1. CASE Create
  <2>1. PICK l \in Life : l = NextLife /\ ses[l].at = "unborn"
    BY <1>1, NextLifeShape DEF Create
  <2>2. PICK e \in Seq(Event) : e = <<>> /\ Len(e) = 0
    BY EmptySeq
  <2>3. /\ ses' = [ses EXCEPT ![l] = Born(e, "pending")]
        /\ Serialize("created", l, Len(e))
        /\ Live = {} /\ entry = NoEntry
        /\ UNCHANGED <<log, torn, state, entry, call, step, retiring, mishaps>>
    BY <1>1, <2>1, <2>2 DEF Create, Vetoed
  <2>4. Len(e) <= MaxLog
    BY <2>2, BoundsAssumption
  <2>5. QED
    BY <2>1, <2>2, <2>3, <2>4 DEF Serialize
<1>2. CASE \E c \in Caller : PublishUnknown(c) /\ entry = NoEntry
  <2>1. PICK c \in Caller : PublishUnknown(c) /\ entry = NoEntry
    BY <1>2
  <2>2. Holder(c) /\ call[c].at = "holding"
    BY <2>1 DEF PublishUnknown, Holder
  <2>3. PICK l \in Life : l = NextLife /\ ses[l].at = "unborn"
    BY <2>1, NextLifeShape DEF PublishUnknown
  <2>4. PICK e \in Seq(Event) : e = call[c].source.session
    BY <2>2, HolderShape
  <2>5. /\ ses' = [ses EXCEPT ![l] = Born(e, "pending")]
        /\ Serialize("created", l, Len(e))
        /\ Live = {} /\ Len(e) <= MaxLog /\ Leave(c)
        /\ UNCHANGED <<log, torn, state, entry, step, retiring, mishaps>>
    BY <2>1, <2>3, <2>4 DEF PublishUnknown, Vetoed
  <2>6. QED
    BY <2>1, <2>2, <2>3, <2>4, <2>5 DEF Serialize
<1>3. QED
  BY <1>1, <1>2

(* The initialization of a Session the coordinator does not know: it fails *)
(* and leaves the state to whoever has it, goes on to find out, or takes   *)
(* over what nobody owns.                                                  *)
Initializes ==
    CreatedStarts \/ CreatedMatches \/ CreatedProbes \/ CreatedTruncates \/ CreatedRechecks

GivesUp == InitFails(Who) /\ torn' \in {torn, FALSE} /\ UNCHANGED state

LooksOn ==
    /\ \E to \in {"probe", "match", "truncate", "recheck"} :
          /\ Proceed(to)
          /\ to = "probe" => state' = NoState
          /\ to = "match" => state.owner = None
          /\ to \in {"truncate", "recheck"} => state = NoState
          /\ to = "truncate" => IsPrefix(log, Seed)
    /\ \/ state' = state
       \/ state' = NoState /\ state.owner \in Life /\ ~HasWork(state.owner)
    /\ UNCHANGED <<torn, ses>>

TakesOver ==
    /\ ~Owned
    /\ state' \in State /\ state'.owner = Who /\ state'.cursor = Len(log)
    /\ torn' \in {torn, FALSE}
    /\ IsPrefix(log, ses[Who].events)
    /\ \/ Len(log) = Head(chain).upTo /\ InitSucceeds(Who)
       \/ Len(log) < Head(chain).upTo /\ Proceed("append") /\ UNCHANGED ses

LEMMA SeedShape ==
    ASSUME IInv, chain # <<>>, Head(chain).op = "created"
    PROVE  /\ Seed \in Seq(Event) /\ Len(Seed) = Head(chain).upTo
           /\ IsPrefix(Seed, ses[Who].events)
           /\ IsPrefix(log, Seed) => Len(log) <= Head(chain).upTo
                                     /\ IsPrefix(log, ses[Who].events)
<1>1. TypeOK
  BY DEF IInv
<1>2. PICK e \in Seq(Event) : e = ses[Who].events
  BY <1>1, HeadInitializes, SessionShape DEF Births
<1>3. PICK n \in Nat : n = Head(chain).upTo /\ n <= Len(e)
  BY <1>2, HeadInitializes DEF Births
<1>4. PICK d : d = Seed
  OBVIOUS
<1>5. d = SubSeq(e, 1, n)
  BY <1>2, <1>3, <1>4 DEF Seed
<1>6. d \in Seq(Event) /\ Len(d) = n /\ \A i \in 1..n : d[i] = e[i]
  BY <1>3, <1>5, Opening
<1>7. IsPrefix(d, e)
  BY <1>3, <1>6, PrefixAt DEF Begins
<1>8. log \in Seq(Event)
  BY <1>1 DEF TypeOK
<1>9. IsPrefix(log, d) => Len(log) <= n /\ IsPrefix(log, e)
  BY <1>6, <1>7, <1>8, PrefixTransitive DEF IsPrefix
<1>10. QED
  BY <1>2, <1>3, <1>4, <1>6, <1>7, <1>9

LEMMA OwnShape ==
    ASSUME IInv, chain # <<>>, Head(chain).op = "created", ~Owned, IsPrefix(log, Seed),
           torn' \in {torn, FALSE}, NEW n \in Nat, n = Len(log), NEW m \in BOOLEAN, Own(n, m)
    PROVE  TakesOver
<1>1. state' = [cursor |-> n, materialized |-> m, owner |-> Who] /\ Who \in Life
  BY HeadInitializes DEF Own, Births
<1>2. state' \in State /\ state'.owner = Who /\ state'.cursor = n
  BY <1>1 DEF State
<1>3. Len(Seed) = Head(chain).upTo /\ n <= Len(Seed) /\ IsPrefix(log, ses[Who].events)
      /\ Head(chain).upTo \in Nat
  BY SeedShape, HeadInitializes DEF Births
<1>4. ~Exclusive
  BY HeadInitializes DEF Exclusive, Births
<1>5. CASE n = Len(Seed)
  <2>1. InitSucceeds(Who)
    BY <1>5 DEF Own
  <2>2. QED
    BY <1>2, <1>3, <1>5, <2>1 DEF TakesOver
<1>6. CASE n # Len(Seed)
  <2>1. Proceed("append") /\ UNCHANGED ses
    BY <1>4, <1>6 DEF Own
  <2>2. n < Head(chain).upTo
    BY <1>3, <1>6
  <2>3. QED
    BY <1>2, <1>3, <2>1, <2>2 DEF TakesOver
<1>7. QED
  BY <1>5, <1>6

LEMMA CreatedShape ==
    ASSUME IInv, Initializes
    PROVE  /\ chain # <<>> /\ Head(chain).op = "created" /\ step # "append"
           /\ UNCHANGED <<log, entry, call, retiring, mishaps>>
           /\ GivesUp \/ LooksOn \/ TakesOver
<1>1. chain # <<>> /\ Head(chain).op = "created"
  BY DEF Initializes, CreatedStarts, CreatedMatches, CreatedProbes, CreatedTruncates,
         CreatedRechecks, Running
<1>2. step # "append"
  BY DEF Initializes, CreatedStarts, CreatedMatches, CreatedProbes, CreatedTruncates,
         CreatedRechecks, Running
<1>3. UNCHANGED <<log, entry, call, retiring, mishaps>>
  BY DEF Initializes, CreatedStarts, CreatedMatches, CreatedProbes, CreatedTruncates,
         CreatedRechecks
<1>4. TypeOK /\ log \in Seq(Event) /\ Len(log) \in Nat /\ torn \in BOOLEAN
  BY LenProperties DEF IInv, TypeOK
<1>5. state = NoState => ~Owned
  BY DEF Owned
<1>6. CASE CreatedStarts
  <2>1. CASE state = NoState
    <3>1. Proceed("probe") /\ UNCHANGED <<torn, state, ses>>
      BY <1>5, <1>6, <2>1 DEF CreatedStarts
    <3>2. QED
      BY <1>1, <1>2, <1>3, <2>1, <3>1 DEF LooksOn
  <2>2. CASE state # NoState /\ ~Owned
    <3>1. Proceed("match") /\ UNCHANGED <<torn, state, ses>>
      BY <1>6, <2>2 DEF CreatedStarts
    <3>2. state.owner = None
      BY <2>2 DEF Owned
    <3>3. QED
      BY <1>1, <1>2, <1>3, <3>1, <3>2 DEF LooksOn
  <2>3. CASE Owned
    <3>1. torn' = torn /\ \/ state' = NoState /\ Proceed("probe") /\ UNCHANGED ses
                             /\ ~HasWork(state.owner)
                          \/ InitFails(Who) /\ UNCHANGED state
      BY <1>5, <1>6, <2>3 DEF CreatedStarts
    <3>2. state.owner \in Life
      BY <1>4, <2>3, StateShape
    <3>3. QED
      BY <1>1, <1>2, <1>3, <3>1, <3>2 DEF LooksOn, GivesUp
  <2>4. QED
    BY <2>1, <2>2, <2>3
<1>7. CASE CreatedMatches
  <2>1. state.owner = None
    BY <1>7 DEF CreatedMatches, Running, IInv, Steps
  <2>2. state \in State /\ state.cursor = Len(log) /\ state.materialized \in BOOLEAN /\ ~Owned
    BY <1>4, <2>1, StateShape, NoneAssumption DEF IInv, Tracked
  <2>3. torn' = torn
    BY <1>7 DEF CreatedMatches
  <2>4. CASE SeedMatches
    <3>1. SubSeq(log, 1, state.cursor) = log
      BY <1>4, <2>2, SubSeqFull
    <3>2. IsPrefix(log, Seed)
      BY <2>4, <3>1 DEF SeedMatches
    <3>3. Own(state.cursor, state.materialized)
      BY <1>7, <2>4 DEF CreatedMatches
    <3>4. TakesOver
      BY <1>1, <1>4, <2>2, <2>3, <3>2, <3>3, OwnShape
    <3>5. QED
      BY <1>1, <1>2, <1>3, <3>4
  <2>5. CASE ~SeedMatches
    BY <1>1, <1>2, <1>3, <1>7, <2>3, <2>5 DEF CreatedMatches, GivesUp
  <2>6. QED
    BY <2>4, <2>5
<1>8. CASE CreatedProbes
  <2>1. state = NoState /\ torn' = torn
    BY <1>8 DEF CreatedProbes, Running, IInv, Steps
  <2>2. CASE InitFails(Who) /\ UNCHANGED state
    BY <1>1, <1>2, <1>3, <2>1, <2>2 DEF GivesUp
  <2>3. CASE IsPrefix(log, Seed) /\ Proceed("truncate") /\ UNCHANGED <<state, ses>>
    BY <1>1, <1>2, <1>3, <2>1, <2>3 DEF LooksOn
  <2>4. CASE IsPrefix(log, Seed) /\ Own(Len(log), TRUE)
    BY <1>1, <1>2, <1>3, <1>4, <1>5, <2>1, <2>4, OwnShape
  <2>5. CASE Proceed("recheck") /\ UNCHANGED <<state, ses>>
    BY <1>1, <1>2, <1>3, <2>1, <2>5 DEF LooksOn
  <2>6. QED
    BY <1>8, <2>2, <2>3, <2>4, <2>5 DEF CreatedProbes
<1>9. CASE CreatedTruncates
  <2>1. state = NoState /\ IsPrefix(log, Seed)
    BY <1>9 DEF CreatedTruncates, Running, IInv, Steps
  <2>2. torn' = FALSE /\ Own(Len(log), TRUE)
    BY <1>9 DEF CreatedTruncates
  <2>3. QED
    BY <1>1, <1>2, <1>3, <1>4, <1>5, <2>1, <2>2, OwnShape
<1>10. CASE CreatedRechecks
  <2>1. state = NoState /\ torn' = torn
    BY <1>10 DEF CreatedRechecks, Running, IInv, Steps
  <2>2. CASE log # <<>>
    BY <1>1, <1>2, <1>3, <1>10, <2>1, <2>2 DEF CreatedRechecks, GivesUp
  <2>3. CASE log = <<>>
    <3>1. Own(0, FALSE) /\ Len(log) = 0
      BY <1>10, <2>3, EmptySeq DEF CreatedRechecks
    <3>2. Begins(log, Seed)
      BY <1>1, <3>1, SeedShape, LenProperties DEF Begins
    <3>3. IsPrefix(log, Seed)
      BY <1>1, <1>4, <3>2, SeedShape, PrefixAt
    <3>4. QED
      BY <1>1, <1>2, <1>3, <1>4, <1>5, <2>1, <3>1, <3>3, OwnShape
  <2>4. QED
    BY <2>2, <2>3
<1>11. QED
  BY <1>6, <1>7, <1>8, <1>9, <1>10 DEF Initializes

LEMMA CreatedFailsShape ==
    ASSUME IInv, CreatedFails
    PROVE  /\ chain # <<>> /\ Head(chain).op = "created" /\ mishaps' \in 0..MaxMishap
           /\ GivesUp /\ UNCHANGED <<log, entry, call, retiring>>
<1>1. mishaps \in 0..MaxMishap /\ mishaps' = mishaps + 1 /\ mishaps < MaxMishap
  BY DEF IInv, TypeOK, CreatedFails, Mishap
<1>2. mishaps' \in 0..MaxMishap
  BY <1>1, BoundsAssumption
<1>3. torn' \in {torn, FALSE}
  BY DEF CreatedFails
<1>4. QED
  BY <1>2, <1>3 DEF CreatedFails, Running, GivesUp

LEMMA HoldingTypes ==
    ASSUME IInv,
           Create \/ \E c \in Caller : Setup(c) \/ Release(c) \/ Publish(c) \/ PublishUnknown(c)
    PROVE  TypeOK'
<1>1. TypeOK
  BY DEF IInv
<1>2. /\ log \in Seq(Event) /\ torn \in BOOLEAN /\ state \in State \cup {NoState}
      /\ entry \in Entry \cup {NoEntry} /\ call \in [Caller -> Call]
      /\ chain \in Seq(Op) /\ step \in Step /\ ses \in [Life -> Session]
      /\ \A l \in Life : Len(ses[l].events) <= MaxLog
      /\ retiring \in Life \cup {None} /\ mishaps \in 0..MaxMishap
  BY <1>1 DEF TypeOK
<1>3. UNCHANGED <<log, torn, step, retiring, mishaps>>
  BY DEF Create, Setup, Release, Publish, PublishUnknown
<1>4. CASE \E c \in Caller : Setup(c)
  <2>1. PICK c \in Caller : Setup(c)
    BY <1>4
  <2>2. call' \in [Caller -> Call] /\ entry' \in Entry \cup {NoEntry}
    BY <1>2, <2>1, SetupShape
  <2>3. UNCHANGED <<state, chain, ses>>
    BY <2>1 DEF Setup
  <2>4. QED
    BY <1>2, <1>3, <2>2, <2>3, TypesMean
<1>5. CASE \E c \in Caller : Release(c)
  <2>1. PICK c \in Caller : Release(c)
    BY <1>5
  <2>2. UNCHANGED <<state, chain, ses>> /\ Leave(c)
    BY <2>1 DEF Release
  <2>3. call' \in [Caller -> Call]
    BY <1>1, <2>2, LeaveShape
  <2>4. CASE Reserves(c) /\ entry' = MadeReady(entry.id)
    <3>1. entry' = [entry EXCEPT !.phase = "ready"] /\ entry \in Entry
      BY <1>1, <2>4, EntryShape DEF MadeReady, Reserves
    <3>2. entry' \in Entry
      BY <3>1 DEF Entry
    <3>3. QED
      BY <1>2, <1>3, <2>2, <2>3, <3>2, TypesMean
  <2>5. CASE entry' = entry \/ entry' = NoEntry
    BY <1>2, <1>3, <2>2, <2>3, <2>5, TypesMean
  <2>6. QED
    BY <2>1, <2>4, <2>5 DEF Release
<1>6. CASE \E c \in Caller : Publish(c)
  <2>1. PICK c \in Caller : Publish(c)
    BY <1>6
  <2>2. PICK l \in Life, e \in Seq(Event), v \in {"pending", "ok"} :
           /\ Len(e) <= MaxLog /\ ses' = [ses EXCEPT ![l] = Born(e, v)]
           /\ state' \in State /\ entry' = NoEntry /\ Leave(c)
           /\ \/ chain' = Append(chain, Serialized("suffix", l, Len(e)))
              \/ chain' = chain
    BY <2>1, PublishShape
  <2>3. call' \in [Caller -> Call]
    BY <1>1, <2>2, LeaveShape
  <2>4. ses' \in [Life -> Session] /\ Rest(l) /\ ses'[l].events = e
    <3>1. Bears(l, e, v)
      BY <2>2 DEF Bears
    <3>2. QED
      BY <1>1, <3>1, PublishedShape
  <2>5. \A m \in Life : Len(ses'[m].events) <= MaxLog
    BY <1>2, <2>2, <2>4 DEF Rest
  <2>6. Len(e) \in Nat
    BY <2>2, LenProperties
  <2>7. Serialized("suffix", l, Len(e)) \in Op
    BY <2>2, <2>6, SerializedTypes
  <2>8. chain' \in Seq(Op)
    BY <1>1, <1>2, <2>2, <2>7, QueueTypes
  <2>9. QED
    BY <1>2, <1>3, <2>2, <2>3, <2>4, <2>5, <2>8, TypesMean
<1>7. ASSUME Create \/ \E c \in Caller : PublishUnknown(c) /\ entry = NoEntry
      PROVE  TypeOK'
  <2>1. PICK l \in Life, e \in Seq(Event) :
           /\ Len(e) <= MaxLog
           /\ ses' = [ses EXCEPT ![l] = Born(e, "pending")]
           /\ chain' = Append(chain, Serialized("created", l, Len(e)))
           /\ UNCHANGED <<log, torn, state, entry, step, retiring, mishaps>>
           /\ call' = call \/ \E c \in Caller : Leave(c)
    BY <1>7, UnknownShape
  <2>2. ses' \in [Life -> Session] /\ Rest(l) /\ ses'[l].events = e
    <3>1. Bears(l, e, "pending")
      BY <2>1 DEF Bears
    <3>2. QED
      BY <1>1, <3>1, PublishedShape
  <2>3. \A m \in Life : Len(ses'[m].events) <= MaxLog
    BY <1>2, <2>1, <2>2 DEF Rest
  <2>4. Len(e) \in Nat
    BY <2>1, LenProperties
  <2>5. Serialized("created", l, Len(e)) \in Op
    BY <2>1, <2>4, SerializedTypes
  <2>6. chain' \in Seq(Op)
    BY <1>1, <2>1, <2>5, QueueTypes
  <2>7. call' \in [Caller -> Call]
    BY <1>1, <1>2, <2>1, LeaveShape
  <2>8. QED
    BY <1>2, <2>1, <2>2, <2>3, <2>6, <2>7, TypesMean
<1>8. CASE \E c \in Caller : PublishUnknown(c) /\ entry # NoEntry
  <2>1. PICK c \in Caller : PublishUnknown(c) /\ entry # NoEntry
    BY <1>8
  <2>2. Leave(c) /\ UNCHANGED <<state, entry, chain, ses>>
    BY <2>1 DEF PublishUnknown, Vetoed
  <2>3. call' \in [Caller -> Call]
    BY <1>1, <2>2, LeaveShape
  <2>4. QED
    BY <1>2, <1>3, <2>2, <2>3, TypesMean
<1>9. QED
  BY <1>4, <1>5, <1>6, <1>7, <1>8

LEMMA AnsweredShape ==
    ASSUME TypeOK, NEW d, NEW s \in Source, call' = Answered(d, s)
    PROVE  /\ call' \in [Caller -> Call]
           /\ \A c \in Caller : /\ call'[c].at = call[c].at /\ call'[c].draft = call[c].draft
                                /\ call'[c].outcome = call[c].outcome
                                /\ call[c].at # "loading" => call'[c] = call[c]
<1>1. ASSUME NEW c \in Caller
      PROVE  /\ call'[c] \in Call /\ call'[c].at = call[c].at /\ call'[c].draft = call[c].draft
             /\ call'[c].outcome = call[c].outcome
             /\ call[c].at # "loading" => call'[c] = call[c]
  <2>1. PICK k \in Call : k = call[c]
    BY CallShape
  <2>2. CASE k.at = "loading" /\ k.draft = d
    <3>1. call'[c] = [k EXCEPT !.source = s]
      BY <2>1, <2>2 DEF Answered
    <3>2. QED
      BY <2>1, <2>2, <3>1 DEF Call
  <2>3. CASE ~(k.at = "loading" /\ k.draft = d)
    <3>1. call'[c] = call[c]
      BY <2>1, <2>3 DEF Answered
    <3>2. QED
      BY <2>1, <3>1
  <2>4. QED
    BY <2>2, <2>3
<1>2. call' = [c \in Caller |-> call'[c]]
  BY DEF Answered
<1>3. QED
  BY <1>1, <1>2

(* What a failed append may leave.                                         *)
LEMMA PartShape ==
    ASSUME TypeOK, NEW e \in Seq(Event), PartlyAppended(e)
    PROVE  /\ log' \in Seq(Event) /\ torn' \in BOOLEAN /\ IsPrefix(log, log')
           /\ \A i \in 1..Len(log') : i > Len(log) =>
                 i - Len(log) \in 1..Len(e) /\ log'[i] = e[i - Len(log)]
<1>1. log \in Seq(Event) /\ torn \in BOOLEAN /\ Len(log) \in Nat /\ Len(e) \in Nat
  BY LenProperties DEF TypeOK
<1>2. PICK n \in 0..Len(e) : /\ log' = log \o SubSeq(e, 1, n)
                             /\ torn' \in {torn, torn \/ (log # <<>> /\ n < Len(e))}
  BY DEF PartlyAppended
<1>3. PICK p : p = SubSeq(e, 1, n)
  OBVIOUS
<1>4. p \in Seq(Event) /\ Len(p) = n /\ \A i \in 1..n : p[i] = e[i]
  BY <1>1, <1>2, <1>3, Opening
<1>5. /\ log' \in Seq(Event) /\ Len(log') = Len(log) + n /\ IsPrefix(log, log')
      /\ \A i \in 1..n : log'[Len(log) + i] = p[i]
  <2>1. log' = log \o p
    BY <1>2, <1>3
  <2>2. /\ log \o p \in Seq(Event) /\ Len(log \o p) = Len(log) + Len(p)
        /\ IsPrefix(log, log \o p)
        /\ \A i \in 1..Len(p) : (log \o p)[Len(log) + i] = p[i]
    <3>1. log \in Seq(Event) /\ p \in Seq(Event)
      BY <1>1, <1>4
    <3>2. log \o p \in Seq(Event) /\ Len(log \o p) = Len(log) + Len(p)
      BY <3>1, Joined
    <3>3. IsPrefix(log, log \o p)
      BY <3>1, Joined
    <3>4. \A i \in 1..Len(p) : (log \o p)[Len(log) + i] = p[i]
      BY <3>1, Joined
    <3>5. QED
      BY <3>2, <3>3, <3>4
  <2>3. Len(log \o p) = Len(log) + n
    BY <1>4, <2>2
  <2>4. \A i \in 1..n : (log \o p)[Len(log) + i] = p[i]
    BY <1>4, <2>2
  <2>5. QED
    BY <2>1, <2>2, <2>3, <2>4
<1>6. torn' \in BOOLEAN
  BY <1>1, <1>2
<1>7. ASSUME NEW i \in 1..Len(log'), i > Len(log)
      PROVE  i - Len(log) \in 1..Len(e) /\ log'[i] = e[i - Len(log)]
  <2>1. PICK k \in 1..n : k = i - Len(log) /\ i = Len(log) + k
    <3>1. i - Len(log) \in 1..n /\ i = Len(log) + (i - Len(log))
      BY <1>1, <1>2, <1>5, <1>7
    <3>2. QED
      BY <3>1
  <2>2. log'[Len(log) + k] = e[k]
    BY <1>4, <1>5, <2>1
  <2>3. k \in 1..Len(e)
    BY <1>1, <1>2, <2>1
  <2>4. QED
    BY <2>1, <2>2, <2>3
<1>8. QED
  BY <1>5, <1>6, <1>7

(* What the controllers hold when the plugin is reloaded, and what is      *)
(* written when the process crashes; a repair only writes for nobody.      *)
NobodyWrites == \A l \in Life : ses[l].at # "live" /\ (ses[l].init = "ok" => ~HasWork(l))

LEMMA UnflushedShape ==
    ASSUME IInv
    PROVE  Unflushed \in Seq(Event) /\ \A i \in 1..Len(Unflushed) : Unflushed[i].by # "closer"
<1>1. CASE \E l \in Life : state.owner = l /\ HasWork(l)
  <2>1. PICK l \in Life : state.owner = l /\ HasWork(l)
    BY <1>1
  <2>2. TypeOK
    BY DEF IInv
  <2>3. PICK e \in Seq(Event) : e = ses[l].events
    BY <2>1, <2>2, SessionShape
  <2>4. PICK m \in Nat : m = Len(log) /\ m = state.cursor /\ m <= Len(e)
    <3>1. state.cursor = Len(log) /\ IsPrefix(log, ses[l].events)
      BY <2>1 DEF IInv, OneHistory
    <3>2. Len(log) \in Nat
      BY <2>2, LenProperties DEF TypeOK
    <3>3. QED
      BY <2>3, <3>1, <3>2 DEF IsPrefix
  <2>5. PICK n \in Nat : n = Len(e)
    BY <2>3, LenProperties
  <2>6. Unflushed = SubSeq(e, m + 1, n)
    BY <1>1, <2>1, <2>3, <2>4, <2>5 DEF Unflushed
  <2>7. PICK x : x = SubSeq(e, m + 1, n)
    OBVIOUS
  <2>8. x \in Seq(Event) /\ Len(x) = n - m /\ \A i \in 1..(n - m) : x[i] = e[m + i]
    <3>1. m \in Nat /\ n \in Nat /\ m <= n /\ n <= Len(e) /\ e \in Seq(Event)
      BY <2>3, <2>4, <2>5
    <3>2. QED
      BY <2>7, <3>1, Middle
  <2>9. \A i \in 1..n : i > m => e[i].by # "closer"
    BY <2>1, <2>3, <2>4, <2>5 DEF IInv, Sessions, SessionOk
  <2>10. ASSUME NEW i \in 1..(n - m) PROVE x[i].by # "closer"
    <3>1. m + i \in 1..n /\ m + i > m
      BY <2>4, <2>5
    <3>2. QED
      BY <2>8, <2>9, <3>1
  <2>11. QED
    BY <2>6, <2>7, <2>8, <2>10
<1>2. CASE ~\E l \in Life : state.owner = l /\ HasWork(l)
  BY <1>2, EmptySeq DEF Unflushed
<1>3. QED
  BY <1>1, <1>2

LEMMA FreshIsNoRepair ==
    ASSUME IInv, NEW at \in {"queued", "append"}, Appending(at)
    PROVE  \A i \in 1..Len(Fresh) : Fresh[i].by # "closer"
<1>1. PICK f \in Seq(Event) : f = Fresh
  BY FreshShape
<1>2. PICK m \in Nat : m = Len(log)
  BY LenProperties DEF IInv, TypeOK
<1>3. PICK n \in Nat : n = Head(chain).upTo /\ n <= Len(ses[Who].events)
  BY HeadOwns
<1>4. PICK k \in Nat : k = Len(ses[Who].events)
  BY HeadOwns, SessionShape DEF IInv
<1>5. \A i \in 1..k : i > m => ses[Who].events[i].by # "closer"
  BY <1>2, <1>4, HeadOwns DEF IInv, Sessions, SessionOk
<1>6. CASE n <= m
  BY <1>1, <1>2, <1>3, <1>6, FreshShape, EmptySeq
<1>7. CASE n > m
  <2>1. Len(f) = n - m /\ \A i \in 1..(n - m) : f[i] = ses[Who].events[m + i]
    BY <1>1, <1>2, <1>3, <1>7, FreshShape
  <2>2. ASSUME NEW i \in 1..(n - m) PROVE f[i].by # "closer"
    <3>1. m + i \in 1..k /\ m + i > m
      BY <1>2, <1>3, <1>4
    <3>2. QED
      BY <1>5, <2>1, <3>1
  <2>3. QED
    BY <1>1, <2>1, <2>2
<1>8. QED
  BY <1>6, <1>7

LEMMA RepairsNobody ==
    ASSUME IInv, step = "repair"
    PROVE  /\ chain # <<>> /\ Head(chain).op = "commit" /\ state = NoState
           /\ entry.id = call[Who].draft /\ entry # NoEntry /\ Live = {} /\ NobodyWrites
<1>1. /\ chain # <<>> /\ Head(chain).op = "commit" /\ state = NoState
      /\ entry.id = call[Who].draft
  BY DEF IInv, Steps
<1>2. entry # NoEntry
  BY <1>1, HeadCommits, EntryShape DEF IInv
<1>3. Live = {}
  BY <1>2 DEF IInv, OneLive, PreparedOrLive
<1>4. state.owner \notin Life
  BY <1>1, StateShape DEF IInv
<1>5. NobodyWrites
  BY <1>3, <1>4 DEF NobodyWrites, Live, IInv, OneHistory
<1>6. QED
  BY <1>1, <1>2, <1>3, <1>5

LEMMA CrashTailShape ==
    ASSUME IInv
    PROVE  /\ CrashTail \in Seq(Event)
           /\ \A i \in 1..Len(CrashTail) : CrashTail[i].by = "closer" => NobodyWrites
<1>1. CASE Appending("append")
  BY <1>1, FreshShape, FreshIsNoRepair DEF CrashTail
<1>2. CASE ~Appending("append") /\ Running("commit", "repair") /\ ~torn
  <2>1. CrashTail = Closers(log)
    BY <1>2 DEF CrashTail
  <2>2. NobodyWrites
    BY <1>2, RepairsNobody DEF Running
  <2>3. QED
    BY <2>1, <2>2, Closing DEF IInv, TypeOK
<1>3. CASE ~Appending("append") /\ ~(Running("commit", "repair") /\ ~torn)
  BY <1>3, EmptySeq DEF CrashTail
<1>4. QED
  BY <1>1, <1>2, <1>3

LEMMA ReloadShape ==
    ASSUME IInv, Reload
    PROVE  /\ ses' \in [Life -> Session]
           /\ \A l \in Live : /\ ses'[l].at = "live" /\ ses'[l].events = ses[l].events
                              /\ ses'[l].init = "pending" /\ ~ses'[l].writing
                              /\ ses'[l].next = Len(ses[l].events) + 1
                              /\ ses'[l].retire = "none"
           /\ \A l \in Life \ Live : /\ ses'[l].at \in {"unborn", "lost"}
                                     /\ ses'[l].events = <<>> /\ ses'[l].init = "none"
                                     /\ ~ses'[l].writing /\ ses'[l].next = 1
                                     /\ ses'[l].retire = "none"
           /\ chain' \in Seq(Op)
           /\ Live = {} => chain' = <<>>
           /\ \A l \in Live : Len(chain') = 1
                              /\ chain'[1] = Serialized("created", l, Len(ses[l].events))
<1>1. TypeOK /\ \A l, m \in Live : l = m
  BY DEF IInv, OneLive
<1>2. ses' = [l \in Life |->
                 CASE l \in Live -> Born(ses[l].events, "pending")
                   [] l \in Unused -> Unborn
                   [] OTHER -> [Unborn EXCEPT !.at = "lost"]]
  BY DEF Reload
<1>3. PICK u : u = [Unborn EXCEPT !.at = "lost"]
  OBVIOUS
<1>4. /\ u \in Session /\ u.at = "lost" /\ u.events = <<>> /\ u.init = "none"
      /\ ~u.writing /\ u.next = 1 /\ u.retire = "none"
  BY <1>3, UnbornTypes DEF Session
<1>5. Live \subseteq Life
  BY DEF Live
<1>6. ASSUME NEW l \in Live
      PROVE  /\ ses'[l] \in Session /\ ses'[l].at = "live" /\ ses'[l].events = ses[l].events
             /\ ses'[l].init = "pending" /\ ~ses'[l].writing
             /\ ses'[l].next = Len(ses[l].events) + 1
             /\ ses'[l].retire = "none"
  <2>1. ses'[l] = Born(ses[l].events, "pending")
    <3>1. l \notin Unused /\ l \in Life
      BY <1>6 DEF Live, Unused
    <3>2. QED
      BY <1>2, <1>6, <3>1
  <2>2. PICK e \in Seq(Event) : e = ses[l].events
    BY <1>1, <1>5, <1>6, SessionShape
  <2>3. QED
    BY <2>1, <2>2, BornShape
<1>7. ASSUME NEW l \in Life \ Live
      PROVE  /\ ses'[l] \in Session /\ ses'[l].at \in {"unborn", "lost"}
             /\ ses'[l].events = <<>> /\ ses'[l].init = "none"
             /\ ~ses'[l].writing /\ ses'[l].next = 1 /\ ses'[l].retire = "none"
  <2>1. ses'[l] = Unborn \/ ses'[l] = u
    BY <1>2, <1>3, <1>7
  <2>2. QED
    BY <1>4, <2>1, UnbornTypes
<1>8. ses' \in [Life -> Session]
  <2>1. ses' = [l \in Life |-> ses'[l]]
    BY <1>2
  <2>2. \A l \in Life : ses'[l] \in Session
    BY <1>6, <1>7
  <2>3. QED
    BY <2>1, <2>2
<1>9. chain' = SetToSeq({Serialized("created", l, Len(ses[l].events)) : l \in Live})
  BY DEF Reload
<1>10. Live = {} => chain' = <<>>
  <2>1. Live = {} => {Serialized("created", l, Len(ses[l].events)) : l \in Live} = {}
    OBVIOUS
  <2>2. QED
    BY <1>9, <2>1, SetToSeqEmpty
<1>11. ASSUME NEW l \in Live
       PROVE  /\ Len(chain') = 1 /\ chain' \in Seq(Op)
              /\ chain'[1] = Serialized("created", l, Len(ses[l].events))
  <2>1. PICK o : o = Serialized("created", l, Len(ses[l].events))
    OBVIOUS
  <2>2. Live = {l}
    BY <1>1, <1>11
  <2>3. {Serialized("created", m, Len(ses[m].events)) : m \in Live} = {o}
    BY <2>1, <2>2
  <2>4. Len(chain') = 1 /\ chain'[1] = o /\ chain' \in Seq({o})
    BY <1>9, <2>3, SetToSeqSingleton
  <2>5. o \in Op
    BY <1>1, <1>5, <1>11, <2>1, SessionShape, SerializedTypes
  <2>6. chain' \in Seq(Op)
    BY <2>4, <2>5, SeqMonotonic
  <2>7. QED
    BY <2>1, <2>4, <2>6
<1>12. chain' \in Seq(Op)
  BY <1>10, <1>11, EmptySeq
<1>13. QED
  BY <1>6, <1>7, <1>8, <1>10, <1>11, <1>12

LEMMA CrashShape ==
    ASSUME IInv, Crash
    PROVE  /\ ses' \in [Life -> Session] /\ call' \in [Caller -> Call]
           /\ \A l \in Life : /\ ses'[l].at \in {"unborn", "lost"} /\ ses'[l].events = <<>>
                              /\ ses'[l].init = "none" /\ ~ses'[l].writing
                              /\ ses'[l].next = 1 /\ ses'[l].retire = "none"
           /\ \A c \in Caller : call'[c].at = "idle"
<1>1. PICK u : u = [Unborn EXCEPT !.at = "lost"]
  OBVIOUS
<1>2. /\ u \in Session /\ u.at = "lost" /\ u.events = <<>> /\ u.init = "none"
      /\ ~u.writing /\ u.next = 1 /\ u.retire = "none"
  BY <1>1, UnbornTypes DEF Session
<1>3. ses' = [l \in Life |-> IF ses[l].at = "unborn" THEN Unborn ELSE u]
  BY <1>1 DEF Crash
<1>4. \A l \in Life : ses'[l] = Unborn \/ ses'[l] = u
  BY <1>3
<1>5. ses' \in [Life -> Session]
  BY <1>2, <1>3, UnbornTypes
<1>6. \A l \in Life : /\ ses'[l].at \in {"unborn", "lost"} /\ ses'[l].events = <<>>
                      /\ ses'[l].init = "none" /\ ~ses'[l].writing
                      /\ ses'[l].next = 1 /\ ses'[l].retire = "none"
  BY <1>2, <1>4, UnbornTypes
<1>7. call' \in [Caller -> Call] /\ \A c \in Caller : call'[c].at = "idle"
  BY IdleTypes DEF Crash
<1>8. QED
  BY <1>5, <1>6, <1>7

LEMMA CommitTypes ==
    ASSUME IInv,
           \/ Load \/ LoadFails \/ CommitStarts \/ CommitChecks
           \/ RepairTruncates \/ RepairCloses \/ CommitFails \/ Check \/ CheckFails
    PROVE  TypeOK'
<1>1. TypeOK
  BY DEF IInv
<1>2. /\ log \in Seq(Event) /\ torn \in BOOLEAN /\ state \in State \cup {NoState}
      /\ entry \in Entry \cup {NoEntry} /\ call \in [Caller -> Call]
      /\ chain \in Seq(Op) /\ step \in Step /\ ses \in [Life -> Session]
      /\ \A l \in Life : Len(ses[l].events) <= MaxLog
      /\ retiring \in Life \cup {None} /\ mishaps \in 0..MaxMishap
  BY <1>1 DEF TypeOK
<1>3. chain # <<>> /\ Tail(chain) \in Seq(Op)
  <2>1. chain # <<>>
    BY DEF Load, LoadFails, CommitStarts, CommitChecks, RepairTruncates, RepairCloses,
           CommitFails, Check, CheckFails, Running
  <2>2. QED
    BY <1>1, <2>1, QueueTypes
<1>4. Pop => chain' \in Seq(Op) /\ step' \in Step
  BY <1>3 DEF Pop, Step
<1>5. \A to \in Step : Proceed(to) => chain' \in Seq(Op) /\ step' \in Step
  BY <1>2 DEF Proceed
<1>6. "revision" \in Step /\ "repair" \in Step
  BY DEF Step
<1>7. ASSUME Head(chain).op = "commit", NEW v \in {"ok", "stale", "error"}, CommitEnds(v)
      PROVE  call' \in [Caller -> Call] /\ Pop
  BY <1>1, <1>3, <1>7, HeadCommits, CommitEndsShape
<1>8. CASE Load \/ LoadFails
  <2>1. /\ Running("load", "queued") /\ Pop /\ UNCHANGED <<log, torn, state, ses, retiring>>
        /\ mishaps' \in 0..MaxMishap
    BY <1>2, <1>8, BoundsAssumption DEF Load, LoadFails, Mishap
  <2>2. PICK d \in Draft : d = Who
    <3>1. OpOk(chain[1], TRUE) /\ Head(chain) = chain[1]
      BY <1>3, HeadShape
    <3>2. QED
      BY <2>1, <3>1 DEF Running, OpOk, Who
  <2>3. CASE /\ call' = Answered(d, Missing) /\ entry' = Removed(d)
    <3>1. entry' \in Entry \cup {NoEntry}
      BY <1>2, <2>3 DEF Removed
    <3>2. call' \in [Caller -> Call]
      BY <1>1, <2>3, AnsweredShape, MissingTypes
    <3>3. QED
      BY <1>2, <1>4, <2>1, <3>1, <3>2, TypesMean
  <2>4. CASE /\ call' = Answered(d, SourceOf(d))
             /\ entry' = IF entry.id = d
                         THEN [entry EXCEPT !.phase = "ready", !.source = SourceOf(d)]
                         ELSE entry
    <3>1. PICK s \in Source : s = SourceOf(d)
      BY <1>1, Reading
    <3>2. call' \in [Caller -> Call]
      BY <1>1, <2>4, <3>1, AnsweredShape
    <3>3. CASE entry.id = d
      <4>1. PICK p : p = [entry EXCEPT !.phase = "ready"]
        OBVIOUS
      <4>2. entry' = [p EXCEPT !.source = s]
        BY <2>4, <3>1, <3>3, <4>1
      <4>3. entry \in Entry
        BY <1>1, <3>3, EntryShape
      <4>4. p \in Entry
        BY <4>1, <4>3 DEF Entry
      <4>5. entry' \in Entry
        BY <3>1, <4>2, <4>4 DEF Entry
      <4>6. QED
        BY <1>2, <1>4, <2>1, <3>2, <4>5, TypesMean
    <3>4. CASE entry.id # d
      BY <1>2, <1>4, <2>1, <2>4, <3>2, <3>4, TypesMean
    <3>5. QED
      BY <3>3, <3>4
  <2>5. QED
    BY <1>8, <2>2, <2>3, <2>4 DEF Load, LoadFails
<1>9. CASE CommitStarts
  <2>1. CASE Owned
    <3>1. CommitEnds("error")
      BY <1>9, <2>1 DEF CommitStarts, CommitEnds
    <3>2. call' \in [Caller -> Call] /\ Pop
      BY <1>7, <1>9, <3>1 DEF CommitStarts, Running
    <3>3. UNCHANGED <<log, torn, state, entry, ses, retiring, mishaps>>
      BY <1>9 DEF CommitStarts
    <3>4. QED
      BY <1>2, <1>4, <3>2, <3>3, TypesMean
  <2>2. CASE ~Owned
    <3>1. Proceed("revision") /\ UNCHANGED <<log, torn, state, entry, call, ses, retiring, mishaps>>
      BY <1>9, <2>2 DEF CommitStarts
    <3>2. QED
      BY <1>2, <1>5, <1>6, <3>1, TypesMean
  <2>3. QED
    BY <2>1, <2>2
<1>10. CASE CommitChecks
  <2>1. Head(chain).op = "commit" /\ UNCHANGED <<log, torn, entry, ses, retiring, mishaps>>
    BY <1>10 DEF CommitChecks, Running
  <2>2. PICK s \in Source : s = call[Who].source
    BY <1>3, <2>1, HeadCommits
  <2>3. CASE Proceed("repair") /\ UNCHANGED <<state, call>>
    BY <1>2, <1>5, <1>6, <2>1, <2>3, TypesMean
  <2>4. CASE CommitEnds("stale") /\ UNCHANGED state
    BY <1>2, <1>4, <1>7, <2>1, <2>4, TypesMean
  <2>5. CASE /\ CommitEnds("ok")
             /\ state' = [cursor |-> Len(s.log), materialized |-> TRUE, owner |-> None]
    <3>1. Len(s.log) \in Nat
      BY <2>2, LenProperties DEF Source
    <3>2. state' \in State
      BY <2>5, <3>1 DEF State
    <3>3. QED
      BY <1>2, <1>4, <1>7, <2>1, <2>5, <3>2, TypesMean
  <2>6. QED
    BY <1>10, <2>2, <2>3, <2>4, <2>5 DEF CommitChecks
<1>11. CASE RepairTruncates
  <2>1. /\ Head(chain).op = "commit" /\ torn' = FALSE
        /\ UNCHANGED <<log, state, entry, ses, retiring, mishaps>>
        /\ UNCHANGED <<chain, step, call>> \/ CommitEnds("stale")
    BY <1>11 DEF RepairTruncates, Running
  <2>2. QED
    BY <1>2, <1>4, <1>7, <2>1, TypesMean
<1>12. CASE RepairCloses
  <2>1. /\ Head(chain).op = "commit" /\ log' = log \o Closers(log) /\ CommitEnds("stale")
        /\ UNCHANGED <<torn, state, entry, ses, retiring, mishaps>>
    BY <1>12 DEF RepairCloses, Running
  <2>2. log' \in Seq(Event)
    BY <1>2, <2>1, Closing, Joined
  <2>3. QED
    BY <1>2, <1>4, <1>7, <2>1, <2>2, TypesMean
<1>13. CASE CommitFails
  <2>1. /\ Head(chain).op = "commit" /\ CommitEnds("error")
        /\ mishaps' = mishaps + 1 /\ mishaps < MaxMishap
        /\ UNCHANGED <<log, state, entry, ses, retiring>>
    BY <1>13 DEF CommitFails, Running, Mishap
  <2>2. torn' \in {torn, FALSE}
    BY <1>13 DEF CommitFails
  <2>3. torn' \in BOOLEAN
    BY <1>2, <2>2
  <2>4. mishaps' \in 0..MaxMishap
    BY <1>2, <2>1, BoundsAssumption
  <2>5. QED
    BY <1>2, <1>4, <1>7, <2>1, <2>3, <2>4, TypesMean
<1>14. CASE Check \/ CheckFails
  <2>1. Pop /\ UNCHANGED <<log, torn, state, entry, ses, retiring>> /\ mishaps' \in 0..MaxMishap
    BY <1>2, <1>14, BoundsAssumption DEF Check, CheckFails, Mishap
  <2>2. call' \in [Caller -> Call]
    <3>1. PICK v \in {"ok", "stale", "error"} :
             call' = [call EXCEPT ![Who].at = "checked", ![Who].outcome = v]
      BY <1>14 DEF Check, CheckFails
    <3>2. PICK g : Placed(g, call, Who, "checked")
      BY DEF Placed
    <3>3. Ended(call', g, Who, v)
      BY <3>1, <3>2 DEF Placed, Ended
    <3>4. g \in [Caller -> Call] /\ Who \in Caller
      <4>1. "checked" \in Place
        BY DEF Place
      <4>2. Who \in Caller
        <5>1. chain # <<>> /\ Head(chain).op = "check"
          BY <1>14 DEF Check, CheckFails, Running
        <5>2. OpOk(chain[1], TRUE) /\ Head(chain) = chain[1] /\ Who = chain[1].who
          BY <1>3, <5>1, HeadShape
        <5>3. QED
          BY <5>1, <5>2 DEF OpOk
      <4>3. QED
        BY <1>2, <3>2, <4>1, <4>2, PlaceSet
    <3>5. v \in {"ok", "stale", "error"}
      BY <3>1
    <3>6. QED
      BY <3>3, <3>4, <3>5, OutcomeSet
  <2>3. chain' \in Seq(Op) /\ step' \in Step
    <3>1. chain # <<>>
      BY <1>14 DEF Check, CheckFails, Running
    <3>2. QED
      BY <1>4, <2>1
  <2>4. QED
    BY <1>2, <2>1, <2>2, <2>3, TypesMean
<1>15. QED
  BY <1>8, <1>9, <1>10, <1>11, <1>12, <1>13, <1>14

LEMMA WritingTypes ==
    ASSUME IInv, Initializes \/ CreatedFails \/ AppendStarts \/ AppendEnds \/ AppendFails \/ Forget
    PROVE  TypeOK'
<1>1. TypeOK
  BY DEF IInv
<1>2. /\ log \in Seq(Event) /\ torn \in BOOLEAN /\ state \in State \cup {NoState}
      /\ entry \in Entry \cup {NoEntry} /\ call \in [Caller -> Call]
      /\ chain \in Seq(Op) /\ step \in Step /\ ses \in [Life -> Session]
      /\ \A l \in Life : Len(ses[l].events) <= MaxLog
      /\ retiring \in Life \cup {None} /\ mishaps \in 0..MaxMishap
  BY <1>1 DEF TypeOK
<1>3. chain # <<>> => (Pop => chain' \in Seq(Op) /\ step' \in Step)
  BY <1>1, QueueTypes DEF Pop, Step
<1>4. \A to \in Step : Proceed(to) => chain' \in Seq(Op) /\ step' \in Step
  BY <1>2 DEF Proceed
<1>5. {"probe", "match", "truncate", "recheck", "append"} \subseteq Step
  BY DEF Step
<1>6. ASSUME NEW l \in Life, ses' \in [Life -> Session], Rest(l),
             ses'[l].events = ses[l].events
      PROVE  \A m \in Life : Len(ses'[m].events) <= MaxLog
  BY <1>2, <1>6 DEF Rest
<1>7. retiring' = None => retiring' \in Life \cup {None}
  OBVIOUS
<1>8. CASE Initializes \/ CreatedFails
  <2>1. /\ chain # <<>> /\ Head(chain).op = "created"
        /\ UNCHANGED <<log, entry, call, retiring>> /\ mishaps' \in 0..MaxMishap
        /\ GivesUp \/ LooksOn \/ TakesOver
    BY <1>2, <1>8, CreatedShape, CreatedFailsShape
  <2>2. PICK l \in Life : l = Who
    BY <2>1, HeadInitializes DEF Births
  <2>3. ASSUME NEW v \in {"ok", "failed"}, ses' = [ses EXCEPT ![l].init = v]
        PROVE  ses' \in [Life -> Session] /\ \A m \in Life : Len(ses'[m].events) <= MaxLog
    BY <1>1, <1>6, <2>3, InitShape
  <2>4. CASE GivesUp
    BY <1>2, <1>3, <2>1, <2>2, <2>3, <2>4, TypesMean DEF GivesUp, InitFails
  <2>5. CASE LooksOn
    <3>1. UNCHANGED <<torn, ses>> /\ state' \in State \cup {NoState}
      BY <1>2, <2>5 DEF LooksOn
    <3>2. chain' \in Seq(Op) /\ step' \in Step
      BY <1>4, <1>5, <2>5 DEF LooksOn
    <3>3. QED
      BY <1>2, <2>1, <3>1, <3>2, TypesMean
  <2>6. CASE TakesOver
    <3>1. state' \in State /\ torn' \in BOOLEAN
      BY <1>2, <2>6 DEF TakesOver
    <3>2. CASE InitSucceeds(Who)
      BY <1>2, <1>3, <2>1, <2>2, <2>3, <3>1, <3>2, TypesMean DEF InitSucceeds
    <3>3. CASE Proceed("append") /\ UNCHANGED ses
      BY <1>2, <1>4, <1>5, <2>1, <3>1, <3>3, TypesMean
    <3>4. QED
      BY <2>6, <3>2, <3>3 DEF TakesOver
  <2>7. QED
    BY <2>1, <2>4, <2>5, <2>6
<1>9. ASSUME NEW at \in {"queued", "append"}, Appending(at),
             ses' = [ses EXCEPT ![Who] = Written(@)] \/ ses' = [ses EXCEPT ![Who] = Unwritten(@)]
      PROVE  ses' \in [Life -> Session] /\ \A m \in Life : Len(ses'[m].events) <= MaxLog
  <2>1. PICK l \in Life : l = Who
    BY <1>9, HeadOwns
  <2>2. PICK n \in Nat : n = Head(chain).upTo
    BY <1>9, HeadOwns
  <2>3. ses' \in [Life -> Session] /\ Rest(l) /\ ses'[l].events = ses[l].events
    BY <1>1, <1>9, <2>1, <2>2, WrittenShape, UnwrittenShape
  <2>4. QED
    BY <1>6, <2>3
<1>10. CASE AppendStarts
  <2>1. Appending("queued") /\ UNCHANGED <<log, torn, state, entry, call, mishaps>>
    BY <1>10 DEF AppendStarts
  <2>2. chain # <<>>
    BY <2>1 DEF Appending
  <2>3. CASE AppendFailed
    <3>1. ses' = [ses EXCEPT ![Who] = Unwritten(@)] /\ Pop /\ retiring' \in {None, retiring}
      BY <2>3 DEF AppendFailed
    <3>2. retiring' \in Life \cup {None}
      BY <1>2, <3>1
    <3>3. QED
      BY <1>2, <1>3, <1>9, <2>1, <2>2, <3>1, <3>2, TypesMean
  <2>4. CASE ses' = [ses EXCEPT ![Who] = Written(@)] /\ Pop /\ UNCHANGED retiring
    BY <1>2, <1>3, <1>9, <2>1, <2>2, <2>4, TypesMean
  <2>5. CASE Proceed("append") /\ UNCHANGED <<ses, retiring>>
    BY <1>2, <1>4, <1>5, <2>1, <2>5, TypesMean
  <2>6. QED
    BY <1>10, <2>3, <2>4, <2>5 DEF AppendStarts
<1>11. CASE AppendEnds
  <2>1. /\ Appending("append") /\ log' = log \o Fresh /\ entry' = NoEntry
        /\ ses' = [ses EXCEPT ![Who] = Written(@)] /\ Pop
        /\ UNCHANGED <<torn, call, retiring, mishaps>>
    BY <1>11 DEF AppendEnds
  <2>2. chain # <<>>
    BY <2>1 DEF Appending
  <2>3. log' \in Seq(Event)
    BY <1>2, <2>1, FreshShape, Joined
  <2>4. state' \in State
    <3>1. state \in State /\ Head(chain).upTo \in Nat
      BY <2>1, HeadOwns
    <3>2. PICK p : p = [state EXCEPT !.cursor = Head(chain).upTo]
      OBVIOUS
    <3>3. state' = [p EXCEPT !.materialized = TRUE]
      BY <1>11, <3>2 DEF AppendEnds
    <3>4. p \in State
      BY <3>1, <3>2 DEF State
    <3>5. QED
      BY <3>3, <3>4 DEF State
  <2>5. QED
    BY <1>2, <1>3, <1>9, <2>1, <2>2, <2>3, <2>4, TypesMean
<1>12. CASE AppendFails
  <2>1. /\ Appending("append") /\ mishaps' \in 0..MaxMishap
        /\ ses' = [ses EXCEPT ![Who] = Unwritten(@)] /\ Pop /\ retiring' \in {None, retiring}
        /\ UNCHANGED <<log, torn, state, entry, call>>
    BY <1>2, <1>12, BoundsAssumption DEF AppendFails, AppendFailed, Mishap
  <2>2. retiring' \in Life \cup {None} /\ chain # <<>>
    BY <1>2, <2>1 DEF Appending
  <2>3. QED
    BY <1>2, <1>3, <1>9, <2>1, <2>2, TypesMean
<1>13. CASE Forget
  <2>1. /\ chain # <<>> /\ Head(chain).op = "forget" /\ state' \in {NoState, state}
        /\ ses' = [ses EXCEPT ![Who].retire = "done"] /\ retiring' \in {None, retiring} /\ Pop
        /\ UNCHANGED <<log, torn, entry, call, mishaps>>
    BY <1>13 DEF Forget, Running, Released
  <2>2. PICK l \in Life : l = Who
    BY <2>1, HeadWrites
  <2>3. PICK v \in Retirement : v = "done"
    BY DEF Retirement
  <2>4. ses' \in [Life -> Session] /\ Rest(l) /\ ses'[l].events = ses[l].events
    BY <1>1, <2>1, <2>2, <2>3, RetireShape
  <2>5. retiring' \in Life \cup {None} /\ state' \in State \cup {NoState}
    BY <1>2, <2>1
  <2>6. QED
    BY <1>2, <1>3, <1>6, <2>1, <2>4, <2>5, TypesMean
<1>14. QED
  BY <1>8, <1>10, <1>11, <1>12, <1>13

LEMMA RestTypes ==
    ASSUME IInv,
           \/ \E l \in Life : Emit(l) \/ Dispose(l) \/ Write(l) \/ Drain(l)
           \/ Evict \/ Foreign \/ Reload \/ Crash
    PROVE  TypeOK'
<1>1. TypeOK
  BY DEF IInv
<1>2. /\ log \in Seq(Event) /\ torn \in BOOLEAN /\ state \in State \cup {NoState}
      /\ entry \in Entry \cup {NoEntry} /\ call \in [Caller -> Call]
      /\ chain \in Seq(Op) /\ step \in Step /\ ses \in [Life -> Session]
      /\ \A l \in Life : Len(ses[l].events) <= MaxLog
      /\ retiring \in Life \cup {None} /\ mishaps \in 0..MaxMishap
  BY <1>1 DEF TypeOK
<1>3. \A o \in Op : Append(chain, o) \in Seq(Op)
  BY <1>1, QueueTypes
<1>4. ASSUME NEW l \in Life, ses' \in [Life -> Session], Rest(l),
             ses'[l].events = ses[l].events
      PROVE  \A m \in Life : Len(ses'[m].events) <= MaxLog
  BY <1>2, <1>4 DEF Rest
<1>5. Mishap => mishaps' \in 0..MaxMishap
  BY <1>2, BoundsAssumption DEF Mishap
<1>6. \A l \in Life : ses[l].events \in Seq(Event) /\ Len(ses[l].events) \in Nat
  BY <1>1, SessionShape
<1>7. ASSUME NEW l \in Life, Emit(l) PROVE TypeOK'
  <2>1. /\ ses' \in [Life -> Session] /\ Rest(l)
        /\ ses'[l].events = Append(ses[l].events, NextOf(ses[l].events, l))
        /\ NextOf(ses[l].events, l) \in Event
    BY <1>1, <1>7, EmittedShape
  <2>2. Len(ses'[l].events) = Len(ses[l].events) + 1
    BY <1>6, <2>1, Appended
  <2>3. Len(ses[l].events) < MaxLog
    BY <1>7 DEF Emit
  <2>4. \A m \in Life : Len(ses'[m].events) <= MaxLog
    BY <1>2, <1>6, <2>1, <2>2, <2>3, BoundsAssumption DEF Rest
  <2>5. UNCHANGED <<log, torn, state, entry, call, chain, step, retiring, mishaps>>
    BY <1>7 DEF Emit
  <2>6. QED
    BY <1>2, <2>1, <2>4, <2>5, TypesMean
<1>8. ASSUME NEW l \in Life, Dispose(l) PROVE TypeOK'
  <2>1. Leaves(l) /\ retiring' = l
        /\ UNCHANGED <<log, torn, state, entry, call, chain, step, mishaps>>
    BY <1>8 DEF Dispose, Leaves
  <2>2. ses' \in [Life -> Session] /\ Rest(l) /\ ses'[l].events = ses[l].events
    BY <1>1, <2>1, DisposedShape
  <2>3. QED
    BY <1>2, <1>4, <2>1, <2>2, TypesMean
<1>9. ASSUME NEW l \in Life, Write(l) PROVE TypeOK'
  <2>1. /\ ses' = [ses EXCEPT ![l].writing = TRUE] /\ Serialize("batch", l, Len(ses[l].events))
        /\ UNCHANGED <<log, torn, state, entry, call, step, retiring, mishaps>>
    BY <1>9 DEF Write
  <2>2. ses' \in [Life -> Session] /\ Rest(l) /\ ses'[l].events = ses[l].events
    BY <1>1, <2>1, WritingShape
  <2>3. chain' \in Seq(Op)
    BY <1>3, <1>6, <2>1, SerializedTypes DEF Serialize
  <2>4. QED
    BY <1>2, <1>4, <2>1, <2>2, <2>3, TypesMean
<1>10. ASSUME NEW l \in Life, Drain(l) PROVE TypeOK'
  <2>1. UNCHANGED <<log, torn, state, entry, call, step, mishaps>>
    BY <1>10 DEF Drain
  <2>2. \/ /\ ses' = [ses EXCEPT ![l].retire = "failed"] /\ retiring' \in {None, retiring}
           /\ UNCHANGED chain
        \/ Drains(l) /\ Serialize("batch", l, Len(ses[l].events)) /\ UNCHANGED retiring
        \/ /\ ses' = [ses EXCEPT ![l].retire = "forgetting"]
           /\ Serialize("forget", l, 0) /\ UNCHANGED retiring
    BY <1>10 DEF Drain, CanDrain, Drains
  <2>3. ses' \in [Life -> Session] /\ Rest(l) /\ ses'[l].events = ses[l].events
    <3>1. "failed" \in Retirement /\ "forgetting" \in Retirement
      BY DEF Retirement
    <3>2. CASE ses' = [ses EXCEPT ![l].retire = "failed"]
      BY <1>1, <3>1, <3>2, RetireShape
    <3>3. CASE ses' = [ses EXCEPT ![l].retire = "forgetting"]
      BY <1>1, <3>1, <3>3, RetireShape
    <3>4. CASE Drains(l)
      BY <1>1, <3>4, DrainingShape
    <3>5. QED
      BY <2>2, <3>2, <3>3, <3>4
  <2>4. chain' \in Seq(Op) /\ retiring' \in Life \cup {None}
    <3>1. Serialized("batch", l, Len(ses[l].events)) \in Op /\ Serialized("forget", l, 0) \in Op
      BY <1>6, SerializedTypes
    <3>2. chain' \in Seq(Op)
      BY <1>2, <1>3, <2>2, <3>1 DEF Serialize
    <3>3. QED
      BY <1>2, <2>2, <3>2
  <2>5. QED
    BY <1>2, <1>4, <2>1, <2>3, <2>4, TypesMean
<1>11. CASE Evict
  BY <1>2, <1>5, <1>11, TypesMean DEF Evict
<1>12. CASE Foreign
  <2>1. NextOf(log, "foreign") \in Event
    BY DEF NextOf, Event
  <2>2. log' \in Seq(Event)
    BY <1>2, <1>12, <2>1, Appended DEF Foreign
  <2>3. QED
    BY <1>2, <1>5, <1>12, <2>2, TypesMean DEF Foreign
<1>13. CASE Reload
  <2>1. /\ Mishap /\ PartlyAppended(Unflushed) /\ state' = NoState /\ entry' = NoEntry
        /\ UNCHANGED <<call, step, retiring>>
    BY <1>13 DEF Reload
  <2>2. log' \in Seq(Event) /\ torn' \in BOOLEAN
    BY <1>1, <2>1, UnflushedShape, PartShape
  <2>3. ses' \in [Life -> Session] /\ chain' \in Seq(Op)
    BY <1>13, ReloadShape
  <2>4. \A l \in Life : ses'[l].events = ses[l].events \/ ses'[l].events = <<>>
    BY <1>13, ReloadShape
  <2>5. \A l \in Life : Len(ses'[l].events) <= MaxLog
    BY <1>2, <2>4, BoundsAssumption
  <2>6. QED
    BY <1>2, <1>5, <2>1, <2>2, <2>3, <2>5, TypesMean
<1>14. CASE Crash
  <2>1. /\ Mishap /\ PartlyAppended(CrashTail) /\ state' = NoState /\ entry' = NoEntry
        /\ chain' = <<>> /\ step' = "queued" /\ retiring' = None
    BY <1>14 DEF Crash
  <2>2. log' \in Seq(Event) /\ torn' \in BOOLEAN
    BY <1>1, <2>1, CrashTailShape, PartShape
  <2>3. /\ ses' \in [Life -> Session] /\ call' \in [Caller -> Call]
        /\ \A l \in Life : ses'[l].events = <<>>
    BY <1>14, CrashShape
  <2>4. \A l \in Life : Len(ses'[l].events) <= MaxLog
    BY <2>3, BoundsAssumption
  <2>5. chain' \in Seq(Op) /\ step' \in Step
    BY <2>1 DEF Step
  <2>6. QED
    BY <1>5, <2>1, <2>2, <2>3, <2>4, <2>5, TypesMean
<1>15. QED
  BY <1>7, <1>8, <1>9, <1>10, <1>11, <1>12, <1>13, <1>14

LEMMA TypesKept ==
    ASSUME IInv, [Next]_vars
    PROVE  TypeOK'
<1>1. TypeOK
  BY DEF IInv
<1>2. CASE UNCHANGED vars
  BY <1>1, <1>2 DEF TypeOK, vars
<1>3. CASE Next
  BY <1>3, CallerTypes, HoldingTypes, CommitTypes, WritingTypes, RestTypes
     DEF Next, Initializes
<1>4. QED
  BY <1>2, <1>3

-----------------------------------------------------------------------------
(* The steps of callers that touch neither the chain nor what is stored:   *)
(* whoever waits for the chain stays as he is, and nobody gets hold of an  *)
(* entry.  An entry only goes when no commit counts on it.                 *)
Unclaimed == \A o \in Op : OnChain(o) /\ o.op = "commit" => entry.id # call[o.who].draft

LEMMA MovesAround ==
    ASSUME IInv, TypeOK', UNCHANGED <<log, torn, state, chain, step, ses>>,
           entry' = entry \/ (entry' = NoEntry /\ Unclaimed),
           \A c \in Caller : call[c].at \in {"committing", "checking"} =>
              /\ call'[c].at = call[c].at /\ call'[c].draft = call[c].draft
              /\ call'[c].source = call[c].source,
           Callers',
           \A c \in Caller : \/ call'[c].at \notin {"committed", "checked"}
                             \/ call'[c].at = call[c].at /\ call'[c].outcome = call[c].outcome
    PROVE  IInv'
<1>1. TypeOK
  BY DEF IInv
<1>2. Tracked' /\ Sessions' /\ OneHistory' /\ WrittenStays' /\ Live' = Live
  BY SessionsStay
<1>3. OneLive'
  BY <1>2 DEF IInv, OneLive, PreparedOrLive
<1>4. ASSUME NEW o \in Op, NEW f \in BOOLEAN, OpOk(o, f) PROVE OpOk(o, f)'
  <2>1. o.op \in {"commit", "check"} => call'[o.who].at = call[o.who].at
    BY <1>4 DEF OpOk
  <2>2. QED
    BY <1>1, <1>4, <2>1, OpKept
<1>5. ChainOps' /\ ChainOrder' /\ OwnerAlone'
  <2>1. \A o \in Op, f \in BOOLEAN : OnChain(o) /\ OpOk(o, f) => OpOk(o, f)'
    BY <1>4
  <2>2. QED
    BY <1>2, <2>1, ChainStays
<1>6. \A o \in Op : OnChain(o)' <=> OnChain(o)
  BY DEF OnChain
<1>7. ASSUME NEW o \in Op, OnChain(o), o.op = "commit"
      PROVE  /\ call'[o.who].draft = call[o.who].draft
             /\ call'[o.who].source = call[o.who].source
  BY <1>7, CommitterHolds
<1>8. EntryOrder'
  <2>1. \A o \in Op : OnChain(o)' /\ Concerns(o) => OnChain(o)
    BY <1>6
  <2>2. \A o \in Op : OnChain(o)' /\ o.op = "commit" =>
           /\ call'[o.who].draft = call[o.who].draft
           /\ call'[o.who].source = call[o.who].source
    BY <1>6, <1>7
  <2>3. Len(log) <= Len(log')
    BY <1>1 DEF TypeOK
  <2>4. CASE entry' = entry
    <3>1. entry.phase = "loading" => \E j \in 1..Len(chain') : LoadAt(j)'
      BY <2>4, LoadStays
    <3>2. QED
      BY <2>1, <2>2, <2>3, <2>4, <3>1, EntryKept
  <2>5. CASE entry' = NoEntry /\ Unclaimed
    <3>1. \A o \in Op : OnChain(o)' /\ o.op = "commit" =>
             \/ entry.id # call[o.who].draft
             \/ Len(call[o.who].source.log) < Len(log')
      BY <1>6, <2>5 DEF Unclaimed
    <3>2. QED
      BY <2>1, <2>2, <2>3, <2>5, <3>1, EntryKept
  <2>6. QED
    BY <2>4, <2>5
<1>9. Steps'
  <2>1. ASSUME step = "repair"
        PROVE  /\ call'[Who].draft = call[Who].draft
               /\ entry'.id = entry.id \/ entry.id # call[Who].draft
    <3>1. chain # <<>> /\ Head(chain).op = "commit"
      BY <2>1, RepairsNobody
    <3>2. Head(chain) \in Op /\ OnChain(Head(chain))
      BY <3>1, HeadShape DEF OnChain
    <3>3. QED
      BY <1>7, <3>1, <3>2 DEF Unclaimed, Who
  <2>2. Seed' = Seed
    BY DEF Seed, Who
  <2>3. QED
    BY <2>1, <2>2, StepsKept
<1>10. Answers'
  <2>1. Answers
    BY DEF IInv
  <2>2. QED
    BY <2>1 DEF Answers
<1>11. QED
  BY <1>2, <1>3, <1>5, <1>8, <1>9, <1>10 DEF IInv

(* The same, when the holders of entries keep what they hold.              *)
LEMMA MovesKept ==
    ASSUME IInv, TypeOK', UNCHANGED <<log, torn, state, chain, step, ses>>,
           entry' = entry \/ (entry' = NoEntry /\ Unclaimed),
           \A c \in Caller : call[c].at \in {"committing", "checking"} =>
              /\ call'[c].at = call[c].at /\ call'[c].draft = call[c].draft
              /\ call'[c].source = call[c].source,
           \A c \in Caller : Holder(c)' =>
              /\ Holder(c) /\ call'[c].draft = call[c].draft
              /\ call'[c].source = call[c].source
              /\ call'[c].at = "holding" <=> call[c].at = "holding",
           \A c \in Caller : Committable(c)' => Committable(c),
           \A c \in Caller : \/ call'[c].at \notin {"committed", "checked"}
                             \/ call'[c].at = call[c].at /\ call'[c].outcome = call[c].outcome
    PROVE  IInv'
<1>1. Callers'
  <2>1. entry' = entry \/ entry' = NoEntry
    OBVIOUS
  <2>2. UNCHANGED <<log, state>> /\ (torn' = torn \/ ~torn')
    OBVIOUS
  <2>3. QED
    BY <2>1, <2>2, CallersStay
<1>2. QED
  BY <1>1, MovesAround

(* An entry that is offered or reserved, and one whose holder is back from *)
(* the chain, has no commit that counts on it.                             *)
LEMMA NoClaim ==
    ASSUME IInv,
           \/ entry.phase \in {"ready", "reserved"}
           \/ \E c \in Caller : /\ Holder(c) /\ call[c].at # "committing"
                                /\ entry.id = call[c].draft
    PROVE  Unclaimed
<1> SUFFICES ASSUME NEW o \in Op, OnChain(o), o.op = "commit", entry.id = call[o.who].draft
             PROVE  FALSE
  BY DEF Unclaimed
<1>1. /\ o.who \in Caller /\ call[o.who].at = "committing" /\ Holder(o.who)
      /\ entry.phase = "committing"
  BY CommitterHolds
<1>2. PICK c \in Caller : Holder(c) /\ call[c].at # "committing" /\ entry.id = call[c].draft
  BY <1>1
<1>3. c = o.who
  BY <1>1, <1>2 DEF IInv, Callers
<1>4. QED
  BY <1>1, <1>2, <1>3

(* A caller that waits for nothing on the chain goes where it holds        *)
(* nothing.                                                                *)
LEMMA TurnsAway ==
    ASSUME IInv, TypeOK', UNCHANGED <<log, torn, state, chain, step, ses>>,
           entry' = entry \/ (entry' = NoEntry /\ Unclaimed),
           NEW c \in Caller, Others(c), call[c].at \notin {"committing", "checking"},
           call'[c].at \in {"idle", "retirement", "loading"}
    PROVE  IInv'
<1>1. \A k \in Caller : k # c => call'[k] = call[k]
  BY DEF Others
<1>2. \A k \in Caller : call[k].at \in {"committing", "checking"} =>
         /\ call'[k].at = call[k].at /\ call'[k].draft = call[k].draft
         /\ call'[k].source = call[k].source
  BY <1>1
<1>3. \A k \in Caller : Holder(k)' => k # c
  BY DEF Holder
<1>4. \A k \in Caller : Committable(k)' => k # c
  BY DEF Committable
<1>5. \A k \in Caller : Holder(k)' =>
         /\ Holder(k) /\ call'[k].draft = call[k].draft
         /\ call'[k].source = call[k].source
         /\ call'[k].at = "holding" <=> call[k].at = "holding"
  BY <1>1, <1>3 DEF Holder
<1>6. \A k \in Caller : Committable(k)' => Committable(k)
  BY <1>1, <1>4 DEF Committable
<1>7. \A k \in Caller : \/ call'[k].at \notin {"committed", "checked"}
                        \/ call'[k].at = call[k].at /\ call'[k].outcome = call[k].outcome
  BY <1>1
<1>8. QED
  BY <1>2, <1>5, <1>6, <1>7, MovesKept

LEMMA BeginKept ==
    ASSUME IInv, TypeOK', NEW c \in Caller, NEW op \in {"prepare", "inspect"}, Begin(c, op)
    PROVE  IInv'
<1>1. Others(c) /\ call'[c].at = "retirement"
  BY BeginShape DEF IInv
<1>2. /\ call[c].at \notin {"committing", "checking"}
      /\ UNCHANGED <<log, torn, state, entry, chain, step, ses>>
  BY DEF Begin
<1>3. QED
  BY <1>1, <1>2, TurnsAway

LEMMA CheckedKept ==
    ASSUME IInv, TypeOK', NEW c \in Caller, Checked(c)
    PROVE  IInv'
<1>1. TypeOK
  BY DEF IInv
<1>2. /\ call[c].at = "checked" /\ call[c].outcome \in {"ok", "stale", "error"}
      /\ UNCHANGED <<log, torn, state, chain, step, ses>>
  BY DEF Checked, IInv, Answers
<1>3. /\ Leave(c) \/ Again(c)
      /\ \/ entry' = entry
         \/ entry' = NoEntry /\ entry.phase = "ready"
  BY <1>2 DEF Checked, GiveUp, Removed
<1>4. Others(c) /\ call'[c].at \in {"idle", "retirement"}
  BY <1>1, <1>3, LeaveShape, AgainShape
<1>5. entry' = entry \/ (entry' = NoEntry /\ Unclaimed)
  BY <1>3, NoClaim
<1>6. QED
  BY <1>2, <1>4, <1>5, TurnsAway

LEMMA EvictKept ==
    ASSUME IInv, TypeOK', Evict
    PROVE  IInv'
<1>1. /\ UNCHANGED <<log, torn, state, call, chain, step, ses>>
      /\ entry' = NoEntry /\ Unclaimed
  BY NoClaim DEF Evict
<1>2. \A c \in Caller : (Holder(c)' <=> Holder(c)) /\ (Committable(c)' <=> Committable(c))
  BY <1>1 DEF Holder, Committable
<1>3. QED
  BY <1>1, <1>2, MovesKept

(* Of those that hold something nobody else has that entry.                *)
LEMMA HeldOnce ==
    ASSUME IInv, NEW c \in Caller, Holder(c), entry.id = call[c].draft,
           NEW k \in Caller, k # c, Holder(k)
    PROVE  entry.id # call[k].draft
BY DEF IInv, Callers

(* The holder of an entry offers it again, or reserves it, or changes what *)
(* it has reserved.                                                        *)
LEMMA EntryMoves ==
    ASSUME IInv, TypeOK', UNCHANGED <<log, torn, state, chain, step, ses>>,
           NEW c \in Caller, Holder(c), call[c].at # "committing", entry.id = call[c].draft,
           Others(c), call'[c].at \in {"idle", "holding"},
           entry'.id = entry.id, entry'.phase \in {"ready", "reserved"},
           Good(entry.source)',
           entry'.phase = "ready" => /\ call'[c].at = "idle"
                                     /\ Len(entry'.source.session) = Base(entry'.source),
           entry'.phase = "reserved" =>
              /\ Committable(c) /\ call'[c].at = "holding" /\ call'[c].draft = call[c].draft
              /\ call'[c].source = entry'.source /\ call'[c].source.log = call[c].source.log
    PROVE  IInv'
<1>1. TypeOK
  BY DEF IInv
<1>2. Tracked' /\ Sessions' /\ OneHistory' /\ WrittenStays' /\ Live' = Live
  BY SessionsStay
<1>3. entry.phase \in {"committing", "reserved"} /\ entry # NoEntry
  <2>1. entry.phase = IF call[c].at = "holding" THEN "reserved" ELSE "committing"
    BY DEF IInv, Callers
  <2>2. QED
    BY <2>1 DEF NoEntry
<1>4. OneLive'
  BY <1>2, <1>3 DEF IInv, OneLive, PreparedOrLive
<1>5. ASSUME NEW o \in Op, NEW f \in BOOLEAN, OpOk(o, f) PROVE OpOk(o, f)'
  <2>1. call[c].at \in {"committed", "holding"}
    BY DEF Holder
  <2>2. o.op \in {"commit", "check"} => call'[o.who].at = call[o.who].at
    BY <1>5, <2>1 DEF OpOk, Others
  <2>3. QED
    BY <1>1, <1>5, <2>2, OpKept
<1>6. ChainOps' /\ ChainOrder' /\ OwnerAlone'
  <2>1. \A o \in Op, f \in BOOLEAN : OnChain(o) /\ OpOk(o, f) => OpOk(o, f)'
    BY <1>5
  <2>2. QED
    BY <1>2, <2>1, ChainStays
<1>7. Unclaimed
  BY NoClaim
<1>8. \A i \in 1..Len(chain) : chain[i].op # "commit"
  <2>1. SUFFICES ASSUME NEW i \in 1..Len(chain), chain[i].op = "commit" PROVE FALSE
    OBVIOUS
  <2>2. chain[i] \in Op /\ OnChain(chain[i])
    BY <1>1 DEF TypeOK, OnChain
  <2>3. entry.id # call[chain[i].who].draft
    BY <1>7, <2>1, <2>2 DEF Unclaimed
  <2>4. chain[i].who \in Caller /\ call[chain[i].who].at = "committing"
    BY <2>1, <2>2, CommitterHolds
  <2>5. CASE entry.phase = "committing"
    BY <2>1, <2>3, <2>5 DEF IInv, EntryOrder
  <2>6. CASE entry.phase = "reserved"
    BY <2>1, <2>6 DEF IInv, EntryOrder
  <2>7. QED
    BY <1>3, <2>5, <2>6
<1>9. EntryOrder'
  BY <1>3, <1>8 DEF IInv, EntryOrder
<1>10. Steps'
  <2>1. step # "repair"
    <3>1. ASSUME step = "repair" PROVE FALSE
      <4>1. chain # <<>> /\ Head(chain).op = "commit"
        BY <3>1, RepairsNobody
      <4>2. Head(chain) = chain[1] /\ 1 \in 1..Len(chain)
        BY <4>1, HeadShape
      <4>3. QED
        BY <1>8, <4>1, <4>2
    <3>2. QED
      BY <3>1
  <2>2. Seed' = Seed
    BY DEF Seed, Who
  <2>3. QED
    BY <2>1, <2>2, StepsKept
<1>11. Answers'
  BY DEF IInv, Answers, Others
<1>12. Callers'
  <2>1. Callers
    BY DEF IInv
  <2>2. ASSUME NEW k \in Caller, Holder(k)'
        PROVE  /\ Holder(k) /\ call'[k].draft = call[k].draft /\ Good(call[k].source)'
               /\ k # c => call'[k] = call[k] /\ entry.id # call[k].draft
               /\ k = c => entry'.phase = "reserved" /\ call'[c].at = "holding"
                           /\ call'[c].source = entry'.source
    <3>1. CASE k = c
      <4>1. call'[c].at = "holding" /\ entry'.phase = "reserved"
        BY <2>2, <3>1 DEF Holder
      <4>2. call'[c].source = entry'.source
        BY <4>1
      <4>3. Good(call[k].source)'
        BY <3>1, <4>2 DEF Good, Base
      <4>4. QED
        BY <3>1, <4>1, <4>2, <4>3
    <3>2. CASE k # c
      <4>1. call'[k] = call[k]
        BY <3>2 DEF Others
      <4>2. Holder(k)
        BY <2>2, <4>1 DEF Holder
      <4>3. Good(call[k].source) /\ entry.id # call[k].draft
        BY <4>2, <3>2, HeldOnce, <2>1 DEF Callers
      <4>4. Good(call[k].source)'
        BY <4>1, <4>3 DEF Good, Base
      <4>5. QED
        BY <3>2, <4>1, <4>2, <4>3, <4>4
    <3>3. QED
      BY <3>1, <3>2
  <2>3. ASSUME NEW k \in Caller, Committable(k)'
        PROVE  /\ ~IsOpen(call'[k].source.log)
               /\ entry'.id = call'[k].draft =>
                     call'[k].source.log = log' /\ ~torn' /\ state'.owner = None
    <3>1. Holder(k)'
      BY <2>3 DEF Committable, Holder
    <3>2. CASE k = c
      <4>1. Committable(c) /\ call'[c].source.log = call[c].source.log
        BY <2>2, <3>1, <3>2
      <4>2. QED
        BY <2>1, <3>2, <4>1 DEF Callers
    <3>3. CASE k # c
      <4>1. call'[k] = call[k] /\ entry.id # call[k].draft
        BY <2>2, <3>1, <3>3
      <4>2. Committable(k)
        BY <2>3, <4>1 DEF Committable
      <4>3. QED
        BY <2>1, <4>1, <4>2 DEF Callers
    <3>4. QED
      BY <3>2, <3>3
  <2>4. \A k, m \in Caller : Holder(k)' /\ Holder(m)' /\ call'[m].draft = call'[k].draft => m = k
    BY <2>1, <2>2 DEF Callers
  <2>5. ASSUME NEW k \in Caller, Holder(k)'
        PROVE  /\ call'[k].draft \in Draft /\ Good(call[k].source)'
               /\ entry'.id = call'[k].draft =>
                     /\ entry'.source = call'[k].source
                     /\ entry'.phase = IF call'[k].at = "holding" THEN "reserved"
                                                                   ELSE "committing"
    BY <2>1, <2>2, <2>5 DEF Callers
  <2>6. QED
    BY <2>3, <2>4, <2>5 DEF Callers
<1>13. QED
  BY <1>2, <1>4, <1>6, <1>9, <1>10, <1>11, <1>12 DEF IInv

LEMMA CommittedKept ==
    ASSUME IInv, TypeOK', NEW c \in Caller, Committed(c)
    PROVE  IInv'
<1>1. TypeOK /\ Callers
  BY DEF IInv
<1>2. /\ call[c].at = "committed" /\ Holder(c) /\ call[c].draft \in Draft
      /\ call[c].outcome \in {"ok", "stale", "error"}
      /\ UNCHANGED <<log, torn, state, chain, step, ses>>
  BY DEF Committed, Holder, IInv, Answers, Callers
<1>3. ASSUME Leave(c) \/ Again(c), entry' = entry \/ GiveUp(c) PROVE IInv'
  <2>1. Others(c) /\ call'[c].at \in {"idle", "retirement"}
    BY <1>1, <1>3, LeaveShape, AgainShape
  <2>2. entry' = entry \/ (entry' = NoEntry /\ Unclaimed)
    BY <1>2, <1>3, NoClaim DEF GiveUp, Removed
  <2>3. QED
    BY <1>2, <2>1, <2>2, TurnsAway
<1>4. ASSUME call[c].outcome = "ok", entry.id = call[c].draft PROVE
             /\ entry.phase = "committing" /\ entry \in Entry /\ Good(entry.source)
             /\ entry.source = call[c].source
             /\ Len(entry.source.session) = Base(entry.source)
  BY <1>1, <1>2, <1>4, EntryShape DEF Callers
<1>5. CASE call[c].outcome = "ok" /\ GiveBack(c) /\ Leave(c)
  <2>1. CASE entry.id # call[c].draft
    BY <1>3, <1>5, <2>1 DEF GiveBack, MadeReady
  <2>2. CASE entry.id = call[c].draft
    <3>1. entry' = [entry EXCEPT !.phase = "ready"]
      BY <1>5, <2>2 DEF GiveBack, MadeReady
    <3>2. /\ entry'.id = entry.id /\ entry'.source = entry.source /\ entry'.phase = "ready"
          /\ Good(entry.source) /\ Len(entry.source.session) = Base(entry.source)
      BY <1>4, <1>5, <2>2, <3>1 DEF Entry
    <3>3. Others(c) /\ call'[c].at = "idle"
      BY <1>1, <1>5, LeaveShape
    <3>4. Good(entry.source)' /\ Len(entry'.source.session) = Base(entry'.source)
      BY <1>2, <3>2 DEF Good, Base
    <3>5. QED
      BY <1>2, <2>2, <3>2, <3>3, <3>4, EntryMoves
  <2>3. QED
    BY <2>1, <2>2
<1>6. CASE /\ call[c].outcome = "ok" /\ entry.id = call[c].draft
           /\ entry' = [entry EXCEPT !.phase = "reserved"]
           /\ call' = [call EXCEPT ![c].at = "holding"]
  <2>1. /\ entry'.id = entry.id /\ entry'.source = entry.source /\ entry'.phase = "reserved"
        /\ entry.source = call[c].source
    BY <1>4, <1>6 DEF Entry
  <2>2. /\ Others(c) /\ call'[c].at = "holding" /\ call'[c].draft = call[c].draft
        /\ call'[c].source = call[c].source
    BY <1>1, <1>6 DEF Others, TypeOK, Call
  <2>3. Good(entry.source)'
    BY <1>2, <1>4, <1>6, <2>1 DEF Good, Base
  <2>4. Committable(c)
    BY <1>2, <1>6 DEF Committable
  <2>5. QED
    BY <1>2, <1>6, <2>1, <2>2, <2>3, <2>4, EntryMoves
<1>7. QED
  BY <1>2, <1>3, <1>5, <1>6 DEF Committed

LEMMA ReleaseKept ==
    ASSUME IInv, TypeOK', NEW c \in Caller, Release(c)
    PROVE  IInv'
<1>1. TypeOK /\ Callers
  BY DEF IInv
<1>2. /\ call[c].at = "holding" /\ Holder(c) /\ Committable(c)
      /\ UNCHANGED <<log, torn, state, chain, step, ses>>
  BY DEF Release, Holder, Committable
<1>3. Others(c) /\ call'[c].at = "idle"
  BY <1>1, LeaveShape DEF Release
<1>4. CASE entry' = entry
  BY <1>2, <1>3, <1>4, TurnsAway
<1>5. CASE Reserves(c) /\ entry' = NoEntry
  <2>1. Unclaimed
    BY <1>5, NoClaim DEF Reserves
  <2>2. QED
    BY <1>2, <1>3, <1>5, <2>1, TurnsAway
<1>6. CASE Reserves(c) /\ Pristine(call[c].source) /\ entry' = MadeReady(entry.id)
  <2>1. entry.id = call[c].draft /\ entry' = [entry EXCEPT !.phase = "ready"]
    BY <1>6 DEF Reserves, MadeReady
  <2>2. /\ entry \in Entry /\ Good(entry.source) /\ entry.source = call[c].source
    BY <1>1, <1>2, <2>1, EntryShape DEF Callers
  <2>3. entry'.id = entry.id /\ entry'.source = entry.source /\ entry'.phase = "ready"
    BY <2>1, <2>2 DEF Entry
  <2>4. Good(entry.source)'
    BY <1>2, <2>2, <2>3 DEF Good, Base
  <2>5. Len(entry'.source.session) = Base(entry'.source)
    BY <1>6, <2>2, <2>3 DEF Pristine, Base
  <2>6. QED
    BY <1>2, <1>3, <2>1, <2>3, <2>4, <2>5, EntryMoves
<1>7. QED
  BY <1>4, <1>5, <1>6 DEF Release

(* The setup only appends, and what it appends are no closers.             *)
LEMMA Grown ==
    ASSUME TypeOK, NEW s, Good(s), NEW g \in Source, NEW d \in Draft, NEW e \in Event,
           g.log = s.log, g.session = Append(s.session, e), e.by = d
    PROVE  Good(g)
<1>1. s.log \in Seq(Event) /\ s.session \in Seq(Event)
  BY DEF Good, Source
<1>2. PICK n \in Nat : n = Len(s.session)
  BY <1>1
<1>3. /\ g.session \in Seq(Event) /\ Len(g.session) = n + 1
      /\ \A i \in 1..n : g.session[i] = s.session[i]
      /\ g.session[n + 1] = e
      /\ IsPrefix(s.session, g.session)
  BY <1>1, <1>2, Appended
<1>4. IsPrefix(g.log, g.session)
  BY <1>1, <1>3, PrefixTransitive DEF Good
<1>5. Base(g) = Base(s)
  BY DEF Base
<1>6. PICK m : m = Base(s)
  OBVIOUS
<1>7. m \in Nat /\ m <= n
  <2>1. s.log \o Closers(s.log) \in Seq(Event)
    BY <1>1, Closing, Joined
  <2>2. m \in Nat
    BY <1>6, <2>1, Restoring DEF Base
  <2>3. QED
    BY <1>2, <1>6, <2>2 DEF Good
<1>8. \A i \in 1..m : i > Len(g.log) => g.session[i].kind # "note"
  BY <1>3, <1>6, <1>7 DEF Good
<1>9. ~IsOpen(g.log) => \A i \in 1..(n + 1) : i > Len(g.log) => g.session[i].by # "closer"
  BY <1>2, <1>3, MarkerAssumption DEF Good
<1>10. QED
  BY <1>2, <1>3, <1>4, <1>5, <1>6, <1>7, <1>8, <1>9 DEF Good

LEMMA SetupKept ==
    ASSUME IInv, TypeOK', NEW c \in Caller, Setup(c)
    PROVE  IInv'
<1>1. TypeOK /\ Callers
  BY DEF IInv
<1>2. /\ call[c].at = "holding" /\ Holder(c) /\ Committable(c)
      /\ UNCHANGED <<log, torn, state, chain, step, ses>>
  BY DEF Setup, Holder, Committable
<1>3. PICK g \in Source :
              /\ g.log = call[c].source.log
              /\ g.session = Append(call[c].source.session, [by |-> call[c].draft, kind |-> "note"])
              /\ [by |-> call[c].draft, kind |-> "note"] \in Event
              /\ call' \in [Caller -> Call] /\ Others(c)
              /\ call'[c].source = g /\ call'[c].at = "holding" /\ call'[c].draft = call[c].draft
              /\ IF Reserves(c) THEN entry' \in Entry /\ entry'.source = g /\ entry'.id = entry.id
                                     /\ entry'.phase = entry.phase
                                ELSE entry' = entry
  BY SetupShape
<1>4. Good(g)
  <2>1. Good(call[c].source) /\ call[c].draft \in Draft
    BY <1>1, <1>2 DEF Callers
  <2>2. PICK s : s = call[c].source /\ Good(s)
    BY <2>1
  <2>3. PICK d \in Draft : d = call[c].draft
    BY <2>1
  <2>4. PICK e \in Event : e = [by |-> d, kind |-> "note"]
    BY <1>3, <2>3
  <2>5. QED
    BY <1>1, <1>3, <2>2, <2>3, <2>4, Grown
<1>5. CASE Reserves(c)
  <2>1. entry.id = call[c].draft /\ entry'.phase = "reserved"
    BY <1>3, <1>5 DEF Reserves
  <2>2. Good(entry.source)'
    BY <1>2, <1>3, <1>4, <1>5 DEF Good, Base
  <2>3. QED
    BY <1>2, <1>3, <1>5, <2>1, <2>2, EntryMoves
<1>6. CASE ~Reserves(c)
  <2>1. entry.id # call[c].draft
    BY <1>1, <1>2, <1>6 DEF Callers, Reserves
  <2>2. entry' = entry
    BY <1>3, <1>6
  <2>3. \A k \in Caller : /\ k # c => call'[k] = call[k]
                          /\ call'[k].at = call[k].at /\ call'[k].draft = call[k].draft
    BY <1>2, <1>3 DEF Others
  <2>4. \A k \in Caller : /\ Holder(k)' <=> Holder(k)
                          /\ Committable(k)' => Committable(k)
    BY <1>2, <1>3, <2>3 DEF Holder, Committable
  <2>5. ASSUME NEW k \in Caller, Holder(k) PROVE Good(call[k].source)'
    <3>1. CASE k = c
      BY <1>2, <1>3, <1>4, <3>1 DEF Good, Base
    <3>2. CASE k # c
      <4>1. call'[k] = call[k] /\ Good(call[k].source)
        BY <1>1, <2>3, <2>5, <3>2 DEF Callers
      <4>2. QED
        BY <1>2, <1>3, <4>1 DEF Good, Base
    <3>3. QED
      BY <3>1, <3>2
  <2>6. entry.phase \in {"ready", "committing", "reserved"} => Good(entry.source)'
    BY <1>1, <1>2, <2>2 DEF Callers, Good, Base
  <2>7. ASSUME NEW k \in Caller, Holder(k)
        PROVE  /\ call'[k].draft \in Draft /\ Good(call[k].source)'
               /\ entry'.id = call'[k].draft =>
                     /\ entry'.source = call'[k].source
                     /\ entry'.phase = IF call'[k].at = "holding" THEN "reserved"
                                                                   ELSE "committing"
    BY <1>1, <2>1, <2>2, <2>3, <2>5, <2>7 DEF Callers
  <2>8. \A k, m \in Caller : Holder(k) /\ Holder(m) /\ call'[m].draft = call'[k].draft => m = k
    BY <1>1, <2>3 DEF Callers
  <2>9. ASSUME NEW k \in Caller, Committable(k)
        PROVE  /\ ~IsOpen(call'[k].source.log)
               /\ entry'.id = call'[k].draft =>
                     call'[k].source.log = log' /\ ~torn' /\ state'.owner = None
    BY <1>1, <1>2, <1>3, <2>1, <2>2, <2>3, <2>9 DEF Callers
  <2>10. Callers'
    <3>1. entry'.phase \in {"ready", "committing"} =>
             Len(entry'.source.session) = Base(entry'.source)
      BY <1>1, <2>2 DEF Callers
    <3>2. QED
      BY <2>2, <2>4, <2>6, <2>7, <2>8, <2>9, <3>1 DEF Callers
  <2>11. \A k \in Caller : call[k].at \in {"committing", "checking"} => call'[k] = call[k]
    BY <1>2, <2>3
  <2>12. \A k \in Caller : \/ call'[k].at \notin {"committed", "checked"}
                           \/ call'[k] = call[k]
    BY <1>2, <1>3, <2>3
  <2>13. QED
    BY <1>2, <2>2, <2>10, <2>11, <2>12, MovesAround
<1>7. QED
  BY <1>5, <1>6

(* A caller queues an operation that initializes nobody.                   *)
LEMMA CallerPushes ==
    ASSUME IInv, TypeOK', UNCHANGED <<log, torn, state, step, ses>>,
           NEW c \in Caller, Others(c), call[c].at \notin {"committing", "checking"},
           NEW o \in Op, o.op \notin Births, chain' = Append(chain, o),
           \A p \in Op : OnChain(p) => InOrder(p, o),
           OpOk(o, FALSE)'
    PROVE  /\ ChainOps' /\ ChainOrder' /\ OwnerAlone'
           /\ Tracked' /\ Sessions' /\ OneHistory' /\ WrittenStays' /\ Live' = Live
           /\ chain' # <<>> /\ (chain # <<>> => Head(chain') = Head(chain))
           /\ Len(chain') = Len(chain) + 1 /\ chain'[Len(chain) + 1] = o
           /\ \A i \in 1..Len(chain) : chain'[i] = chain[i]
           /\ Seed' = Seed \/ chain = <<>>
<1>1. TypeOK
  BY DEF IInv
<1>2. Tracked' /\ Sessions' /\ OneHistory' /\ WrittenStays' /\ Live' = Live
  BY SessionsStay
<1>3. \A p \in Op, f \in BOOLEAN : OnChain(p) /\ OpOk(p, f) => OpOk(p, f)'
  <2>1. SUFFICES ASSUME NEW p \in Op, NEW f \in BOOLEAN, OpOk(p, f) PROVE OpOk(p, f)'
    OBVIOUS
  <2>2. p.op \in {"commit", "check"} => call'[p.who].at = call[p.who].at
    BY <2>1 DEF OpOk, Others
  <2>3. QED
    BY <1>1, <2>1, <2>2, OpKept
<1>4. \A p \in Op : OnChain(p) /\ p.op \in Births =>
         /\ p.who \in Live' => p.who \in Live
         /\ state'.owner \in Live' => p.who = state'.owner
  BY <1>2 DEF IInv, OwnerAlone, OnChain
<1>5. \A p \in Op : OnChain(p) => InOrder(p, o)'
  BY <1>2 DEF InOrder
<1>6. o.op \in Births /\ state'.owner \in Live' => o.who = state'.owner
  OBVIOUS
<1>7. /\ ChainOps' /\ ChainOrder' /\ OwnerAlone'
      /\ chain' # <<>> /\ (chain # <<>> => Head(chain') = Head(chain))
      /\ Len(chain') = Len(chain) + 1 /\ chain'[Len(chain) + 1] = o
      /\ \A i \in 1..Len(chain) : chain'[i] = chain[i]
  BY <1>3, <1>4, <1>5, <1>6, ChainPushes
<1>8. Seed' = Seed \/ chain = <<>>
  BY <1>7 DEF Seed, Who
<1>9. QED
  BY <1>2, <1>7, <1>8

(* prepare or inspect read the stored log for the pool.                    *)
LEMMA EnterKept ==
    ASSUME IInv, TypeOK', NEW c \in Caller, Enter(c)
    PROVE  IInv'
<1>1. TypeOK
  BY DEF IInv
<1>2. call[c].at = "retirement" /\ UNCHANGED <<log, torn, state, step, ses>>
  BY DEF Enter
<1>3. CASE Leave(c) /\ UNCHANGED <<entry, chain>>
  <2>1. Others(c) /\ call'[c].at = "idle"
    BY <1>1, <1>3, LeaveShape
  <2>2. QED
    BY <1>2, <1>3, <2>1, TurnsAway
<1>4. CASE Live = {} /\ EntryFor(c)
  <2>1. /\ Others(c) /\ call'[c].at = "loading"
        /\ \/ entry # NoEntry /\ UNCHANGED <<entry, chain>>
           \/ /\ entry = NoEntry
              /\ \E d \in FreeDraft :
                    /\ entry' = [id |-> d, phase |-> "loading", source |-> None]
                    /\ Serialize("load", d, 0)
    BY <1>4, EntryForShape
  <2>2. CASE UNCHANGED <<entry, chain>>
    BY <1>2, <2>1, <2>2, TurnsAway
  <2>3. CASE /\ entry = NoEntry
             /\ \E d \in FreeDraft :
                    /\ entry' = [id |-> d, phase |-> "loading", source |-> None]
                    /\ Serialize("load", d, 0)
    <3>1. PICK d \in FreeDraft : /\ entry' = [id |-> d, phase |-> "loading", source |-> None]
                                 /\ Serialize("load", d, 0)
      BY <2>3
    <3>2. /\ d \in Draft /\ \A k \in Caller : call[k].draft # d
          /\ \A i \in 1..Len(chain) : chain[i].who # d
      BY DEF FreeDraft
    <3>3. PICK o \in Op : o = Serialized("load", d, 0)
      BY <3>2, SerializedTypes
    <3>4. o.op = "load" /\ o.who = d /\ chain' = Append(chain, o)
      BY <3>1, <3>3 DEF Serialized, Serialize
    <3>5. \A p \in Op : OnChain(p) => InOrder(p, o)
      BY <3>2, <3>4 DEF InOrder, OnChain, Births
    <3>6. OpOk(o, FALSE)'
      BY <3>2, <3>4 DEF OpOk, Births
    <3>7. /\ ChainOps' /\ ChainOrder' /\ OwnerAlone'
          /\ Tracked' /\ Sessions' /\ OneHistory' /\ WrittenStays' /\ Live' = Live
          /\ chain' # <<>> /\ (chain # <<>> => Head(chain') = Head(chain))
          /\ Len(chain') = Len(chain) + 1 /\ chain'[Len(chain) + 1] = o
          /\ \A i \in 1..Len(chain) : chain'[i] = chain[i]
          /\ Seed' = Seed \/ chain = <<>>
      BY <1>2, <2>1, <3>4, <3>5, <3>6, CallerPushes DEF Births
    <3>8. OneLive'
      BY <1>4, <3>7 DEF IInv, OneLive, PreparedOrLive
    <3>9. entry.id = None /\ entry'.id = d /\ entry'.phase = "loading"
      BY <2>3, <3>1 DEF NoEntry
    <3>10. \A k \in Caller : call[k].at \in {"committing", "committed", "holding"} =>
              call'[k] = call[k]
      BY <1>2, <2>1 DEF Others
    <3>11. PICK n \in Nat : n = Len(chain)
      BY <1>1 DEF TypeOK
    <3>12. LoadAt(n + 1)' /\ n + 1 \in 1..Len(chain')
      BY <3>4, <3>7, <3>9, <3>11 DEF LoadAt
    <3>13. ASSUME NEW i \in 1..Len(chain'), chain'[i].op = "commit"
           PROVE  Len(call'[chain'[i].who].source.log) < Len(log')
      <4>1. i \in 1..n /\ chain'[i] = chain[i] /\ chain[i] \in Op
        <5>1. i # n + 1
          BY <3>4, <3>7, <3>11, <3>13
        <5>2. i \in 1..n
          BY <3>7, <3>11, <5>1
        <5>3. chain[i] \in Op
          BY <1>1, <3>11, <5>2 DEF TypeOK
        <5>4. QED
          BY <3>7, <3>11, <5>2, <5>3
      <4>2. OnChain(chain[i])
        BY <3>11, <4>1 DEF OnChain
      <4>3. /\ chain[i].who \in Caller /\ call[chain[i].who].at = "committing"
            /\ call[chain[i].who].draft \in Draft
            /\ \/ entry.id = call[chain[i].who].draft
               \/ Len(call[chain[i].who].source.log) < Len(log)
        BY <3>13, <4>1, <4>2, CommitterHolds
      <4>4. Len(call[chain[i].who].source.log) < Len(log)
        BY <3>9, <4>3, NoneAssumption
      <4>5. QED
        BY <1>2, <3>10, <4>1, <4>3, <4>4
    <3>14. EntryOrder'
      BY <3>9, <3>12, <3>13 DEF EntryOrder
    <3>15. step # "repair"
      BY <2>3, RepairsNobody
    <3>16. Steps'
      <4>1. step = "truncate" => Seed' = Seed
        BY <3>7 DEF IInv, Steps
      <4>2. QED
        BY <1>2, <3>7, <3>15, <4>1, StepsKept
    <3>17. ASSUME NEW k \in Caller, Holder(k)'
           PROVE  Holder(k) /\ call'[k] = call[k] /\ call[k].draft # d
      BY <1>2, <2>1, <3>2, <3>17 DEF Holder, Others
    <3>18. ASSUME NEW k \in Caller, Holder(k)'
           PROVE  call'[k].draft \in Draft /\ Good(call[k].source)' /\ entry'.id # call'[k].draft
      <4>1. Good(call[k].source) /\ call[k].draft \in Draft
        BY <3>17, <3>18 DEF IInv, Callers
      <4>2. Good(call[k].source)'
        BY <1>2, <3>17, <3>18, <4>1 DEF Good, Base
      <4>3. QED
        BY <3>9, <3>17, <3>18, <4>1, <4>2
    <3>19. \A k \in Caller : Committable(k)' => Holder(k)' /\ Committable(k)
      BY <1>2, <2>1 DEF Committable, Holder, Others
    <3>20. \A k \in Caller : Committable(k)' =>
              ~IsOpen(call'[k].source.log) /\ entry'.id # call'[k].draft
      BY <3>17, <3>18, <3>19 DEF IInv, Callers
    <3>21. \A k, m \in Caller : Holder(k)' /\ Holder(m)' /\ call'[m].draft = call'[k].draft => m = k
      BY <3>17 DEF IInv, Callers
    <3>22. Callers'
      BY <3>9, <3>18, <3>20, <3>21 DEF Callers
    <3>23. Answers'
      BY <2>1 DEF IInv, Answers, Others
    <3>24. QED
      BY <3>7, <3>8, <3>14, <3>16, <3>22, <3>23 DEF IInv
  <2>4. QED
    BY <2>1, <2>2, <2>3
<1>5. QED
  BY <1>3, <1>4 DEF Enter

(* inspect leaves the entry to the others.                                 *)
LEMMA InspectKept ==
    ASSUME IInv, TypeOK', NEW c \in Caller, Inspect(c)
    PROVE  IInv'
<1>1. TypeOK
  BY DEF IInv
<1>2. call[c].at = "loading" /\ UNCHANGED <<log, torn, state, entry, step, ses>>
  BY DEF Inspect
<1>3. CASE Leave(c) /\ UNCHANGED chain
  <2>1. Others(c) /\ call'[c].at = "idle"
    BY <1>1, <1>3, LeaveShape
  <2>2. QED
    BY <1>2, <1>3, <2>1, TurnsAway
<1>4. CASE call' = [call EXCEPT ![c].at = "checking"] /\ Serialize("check", c, 0)
  <2>1. Others(c) /\ call'[c].at = "checking"
    BY <1>1, <1>4 DEF Others, TypeOK, Call
  <2>2. PICK o \in Op : o = Serialized("check", c, 0)
    BY SerializedTypes
  <2>3. o.op = "check" /\ o.who = c /\ chain' = Append(chain, o)
    BY <1>4, <2>2 DEF Serialized, Serialize
  <2>4. \A p \in Op : OnChain(p) => InOrder(p, o)
    <3>1. SUFFICES ASSUME NEW p \in Op, OnChain(p), p.op = "check" PROVE p.who # c
      BY <2>3 DEF InOrder, Births
    <3>2. call[p.who].at = "checking"
      BY <3>1 DEF IInv, ChainOps, OnChain, OpOk
    <3>3. QED
      BY <1>2, <3>2
  <2>5. OpOk(o, FALSE)'
    BY <2>1, <2>3 DEF OpOk, Births
  <2>6. /\ ChainOps' /\ ChainOrder' /\ OwnerAlone'
        /\ Tracked' /\ Sessions' /\ OneHistory' /\ WrittenStays' /\ Live' = Live
        /\ chain' # <<>> /\ (chain # <<>> => Head(chain') = Head(chain))
        /\ Len(chain') = Len(chain) + 1 /\ chain'[Len(chain) + 1] = o
        /\ \A i \in 1..Len(chain) : chain'[i] = chain[i]
        /\ Seed' = Seed \/ chain = <<>>
    BY <1>2, <2>1, <2>3, <2>4, <2>5, CallerPushes DEF Births
  <2>7. OneLive'
    BY <1>2, <2>6 DEF IInv, OneLive, PreparedOrLive
  <2>8. ~Concerns(o)
    BY <2>3 DEF Concerns, Births
  <2>9. PICK n \in Nat : n = Len(chain)
    BY <1>1 DEF TypeOK
  <2>10. \A p \in Op : OnChain(p)' /\ Concerns(p) => OnChain(p)
    <3>1. SUFFICES ASSUME NEW i \in 1..Len(chain'), Concerns(chain'[i])
                   PROVE  \E j \in 1..Len(chain) : chain'[i] = chain[j]
      BY DEF OnChain
    <3>2. i # n + 1
      BY <2>6, <2>8, <2>9, <3>1
    <3>3. QED
      BY <2>6, <2>9, <3>2
  <2>11. \A k \in Caller : call[k].at \in {"committing", "committed", "holding"} =>
            call'[k] = call[k]
    BY <1>2, <2>1 DEF Others
  <2>12. \A p \in Op : OnChain(p)' /\ p.op = "commit" =>
            /\ call'[p.who].draft = call[p.who].draft
            /\ call'[p.who].source = call[p.who].source
    BY <2>10, <2>11, CommitterHolds DEF Concerns
  <2>13. EntryOrder'
    <3>1. entry.phase = "loading" => \E j \in 1..Len(chain') : LoadAt(j)'
      BY <1>2, <2>3, <2>8, LoadPushes
    <3>2. Len(log) <= Len(log')
      BY <1>1, <1>2 DEF TypeOK
    <3>3. QED
      BY <1>2, <2>10, <2>12, <3>1, <3>2, EntryKept
  <2>14. Steps'
    <3>1. step = "repair" => call'[Who].draft = call[Who].draft
      <4>1. SUFFICES ASSUME step = "repair" PROVE call'[Who].draft = call[Who].draft
        OBVIOUS
      <4>2. Who \in Caller /\ call[Who].at = "committing"
        BY <4>1, RepairsNobody, HeadCommits
      <4>3. QED
        BY <2>11, <4>2
    <3>2. step = "truncate" => Seed' = Seed
      BY <2>6 DEF IInv, Steps
    <3>3. QED
      BY <1>2, <2>6, <3>1, <3>2, StepsKept
  <2>15. Callers'
    <3>1. \A k \in Caller : Holder(k)' => Holder(k) /\ call'[k] = call[k]
      BY <1>2, <2>1 DEF Holder, Others
    <3>2. \A k \in Caller : Committable(k)' => Committable(k)
      BY <1>2, <2>1 DEF Committable, Others
    <3>3. UNCHANGED <<log, state>> /\ (torn' = torn \/ ~torn')
      BY <1>2
    <3>4. QED
      BY <1>2, <3>1, <3>2, <3>3, CallersStay
  <2>16. Answers'
    BY <2>1 DEF IInv, Answers, Others
  <2>17. QED
    BY <2>6, <2>7, <2>13, <2>14, <2>15, <2>16 DEF IInv
<1>5. QED
  BY <1>3, <1>4 DEF Inspect

Takes(c) == call' = [call EXCEPT ![c].at = "committing", ![c].source = entry.source]

(* Whoever takes the entry that is offered is the only one to have it.     *)
LEMMA ReserveKept ==
    ASSUME IInv, TypeOK', NEW c \in Caller, Reserve(c)
    PROVE  IInv'
<1>1. TypeOK /\ Callers
  BY DEF IInv
<1>2. /\ call[c].at = "loading" /\ ~HeldUp(c) /\ call[c].op = "prepare"
      /\ UNCHANGED <<log, torn, state, step, ses>>
  BY DEF Reserve
<1>3. CASE (Leave(c) \/ Again(c)) /\ UNCHANGED <<entry, chain>>
  <2>1. Others(c) /\ call'[c].at \in {"idle", "retirement"}
    BY <1>1, <1>3, LeaveShape, AgainShape
  <2>2. QED
    BY <1>2, <1>3, <2>1, TurnsAway
<1>4. CASE /\ call[c].source # Missing /\ entry.id = call[c].draft
           /\ entry' = [entry EXCEPT !.phase = "committing"]
           /\ Takes(c)
           /\ Serialize("commit", c, 0)
  <2>1. entry.phase = "ready" /\ entry \in Entry /\ entry # NoEntry /\ entry.id \in Draft
    <3>1. entry.phase = "ready"
      BY <1>2, <1>4 DEF HeldUp
    <3>2. QED
      BY <1>1, <3>1, EntryShape
  <2>2. entry'.id = entry.id /\ entry'.phase = "committing" /\ entry'.source = entry.source
    BY <1>4, <2>1 DEF Entry
  <2>3. /\ Others(c) /\ call'[c].at = "committing" /\ call'[c].draft = call[c].draft
        /\ call'[c].source = entry.source
    <3>1. PICK f : f = [call EXCEPT ![c].at = "committing"]
      OBVIOUS
    <3>2. call' = [f EXCEPT ![c].source = entry.source]
      BY <1>4, <3>1 DEF Takes
    <3>3. call \in [Caller -> Call] /\ c \in Caller
      BY <1>1 DEF TypeOK
    <3>4. /\ f \in [Caller -> Call] /\ f[c].at = "committing" /\ f[c].draft = call[c].draft
          /\ \A k \in Caller : k # c => f[k] = call[k]
      BY <3>1, <3>3 DEF Call, Place
    <3>5. QED
      BY <3>2, <3>3, <3>4 DEF Others, Call
  <2>4. PICK o \in Op : o = Serialized("commit", c, 0)
    BY SerializedTypes
  <2>5. o.op = "commit" /\ o.who = c
    BY <2>4 DEF Serialized
  <2>6. chain' = Append(chain, o)
    BY <1>4, <2>4 DEF Serialize
  <2>7. \A i \in 1..Len(chain) : /\ chain[i].op \notin Births /\ chain[i].op # "commit"
                                 /\ chain[i].op = "load" => chain[i].who # entry.id
    BY <2>1 DEF IInv, EntryOrder
  <2>8. \A p \in Op : OnChain(p) => InOrder(p, o)
    BY <2>5, <2>7 DEF InOrder, OnChain, Births
  <2>9. OpOk(o, FALSE)'
    BY <2>3, <2>5 DEF OpOk, Births
  <2>10. /\ ChainOps' /\ ChainOrder' /\ OwnerAlone'
         /\ Tracked' /\ Sessions' /\ OneHistory' /\ WrittenStays' /\ Live' = Live
         /\ chain' # <<>> /\ (chain # <<>> => Head(chain') = Head(chain))
         /\ Len(chain') = Len(chain) + 1 /\ chain'[Len(chain) + 1] = o
         /\ \A i \in 1..Len(chain) : chain'[i] = chain[i]
         /\ Seed' = Seed \/ chain = <<>>
    BY <1>2, <2>3, <2>5, <2>6, <2>8, <2>9, CallerPushes DEF Births
  <2>11. OneLive'
    BY <2>1, <2>10 DEF IInv, OneLive, PreparedOrLive
  <2>12. PICK n \in Nat : n = Len(chain)
    BY <1>1 DEF TypeOK
  <2>13. ASSUME NEW i \in 1..Len(chain')
         PROVE  /\ chain'[i].op \notin Births
                /\ chain'[i].op = "load" => chain'[i].who # entry.id
                /\ chain'[i].op = "commit" => chain'[i].who = c
    <3>1. CASE i = n + 1
      BY <2>5, <2>10, <2>12, <3>1 DEF Births
    <3>2. CASE i # n + 1
      <4>1. i \in 1..Len(chain)
        BY <2>10, <2>12, <3>2
      <4>2. QED
        BY <2>7, <2>10, <4>1
    <3>3. QED
      BY <3>1, <3>2
  <2>14. EntryOrder'
    BY <1>4, <2>2, <2>3, <2>13 DEF EntryOrder
  <2>15. step # "repair"
    <3>1. SUFFICES ASSUME step = "repair" PROVE FALSE
      OBVIOUS
    <3>2. chain # <<>> /\ Head(chain).op = "commit"
      BY <3>1, RepairsNobody
    <3>3. Head(chain) = chain[1] /\ 1 \in 1..Len(chain)
      BY <3>2, HeadShape
    <3>4. QED
      BY <2>7, <3>2, <3>3
  <2>16. Steps'
    <3>1. step = "truncate" => Seed' = Seed
      BY <2>10 DEF IInv, Steps
    <3>2. QED
      BY <1>2, <2>10, <2>15, <3>1, StepsKept
  <2>17. Good(entry.source) /\ Len(entry.source.session) = Base(entry.source)
    BY <1>1, <2>1 DEF Callers
  <2>18. Good(entry.source)' /\ Len(entry'.source.session) = Base(entry'.source)
    BY <1>2, <2>2, <2>17 DEF Good, Base
  <2>19. ASSUME NEW k \in Caller, Holder(k)', k # c
         PROVE  Holder(k) /\ call'[k] = call[k] /\ entry.id # call[k].draft
                /\ call[k].draft \in Draft /\ Good(call[k].source)'
    <3>1. call'[k] = call[k]
      BY <2>3, <2>19 DEF Others
    <3>2. Holder(k)
      BY <2>19, <3>1 DEF Holder
    <3>3. entry.id # call[k].draft /\ Good(call[k].source) /\ call[k].draft \in Draft
      BY <1>1, <2>1, <3>2 DEF Callers
    <3>4. Good(call[k].source)'
      BY <1>2, <3>1, <3>3 DEF Good, Base
    <3>5. QED
      BY <3>1, <3>2, <3>3, <3>4
  <2>20. Good(call[c].source)'
    BY <2>2, <2>3, <2>18 DEF Good, Base
  <2>21. ASSUME NEW k \in Caller, Holder(k)'
         PROVE  /\ call'[k].draft \in Draft /\ Good(call[k].source)'
                /\ entry'.id = call'[k].draft =>
                      /\ entry'.source = call'[k].source
                      /\ entry'.phase = IF call'[k].at = "holding" THEN "reserved"
                                                                    ELSE "committing"
    <3>1. CASE k = c
      BY <1>4, <2>1, <2>2, <2>3, <2>20, <3>1
    <3>2. CASE k # c
      BY <2>2, <2>19, <2>21, <3>2
    <3>3. QED
      BY <3>1, <3>2
  <2>22. \A k, m \in Caller : Holder(k)' /\ Holder(m)' /\ call'[m].draft = call'[k].draft => m = k
    <3>1. SUFFICES ASSUME NEW k \in Caller, NEW m \in Caller, Holder(k)', Holder(m)',
                          call'[m].draft = call'[k].draft, m # k
                   PROVE  FALSE
      OBVIOUS
    <3>2. CASE k # c /\ m # c
      <4>1. call'[k] = call[k] /\ call'[m] = call[m] /\ Holder(k) /\ Holder(m)
        BY <2>19, <3>1, <3>2
      <4>2. QED
        BY <1>1, <3>1, <4>1 DEF Callers
    <3>3. CASE k = c
      <4>1. call'[m].draft # entry.id
        BY <2>19, <3>1, <3>3
      <4>2. QED
        BY <1>4, <2>3, <3>1, <3>3, <4>1
    <3>4. CASE m = c
      <4>1. call'[k].draft # entry.id
        BY <2>19, <3>1, <3>4
      <4>2. QED
        BY <1>4, <2>3, <3>1, <3>4, <4>1
    <3>5. QED
      BY <3>2, <3>3, <3>4
  <2>23. ASSUME NEW k \in Caller, Committable(k)'
         PROVE  /\ ~IsOpen(call'[k].source.log)
                /\ entry'.id # call'[k].draft
    <3>1. k # c /\ Holder(k)'
      BY <2>3, <2>23 DEF Committable, Holder
    <3>2. call'[k] = call[k] /\ entry.id # call[k].draft
      BY <2>19, <3>1
    <3>3. Committable(k)
      BY <2>23, <3>2 DEF Committable
    <3>4. QED
      BY <1>1, <2>2, <3>2, <3>3 DEF Callers
  <2>24. Callers'
    BY <2>2, <2>18, <2>21, <2>22, <2>23 DEF Callers
  <2>25. Answers'
    BY <2>3 DEF IInv, Answers, Others
  <2>26. QED
    BY <2>10, <2>11, <2>14, <2>16, <2>24, <2>25 DEF IInv
<1>5. QED
  BY <1>3, <1>4 DEF Reserve, Takes

(* Whoever withdraws its commit takes it off the chain, and its entry goes *)
(* with it; the operations behind it keep their order.                     *)
LEMMA AbortKept ==
    ASSUME IInv, TypeOK', NEW c \in Caller, Abort(c)
    PROVE  IInv'
<1>1. TypeOK /\ Callers
  BY DEF IInv
<1>2. UNCHANGED <<log, torn, state, step, ses>>
  BY DEF Abort
<1>3. CASE /\ call[c].at \in {"retirement", "loading"} /\ Leave(c) /\ UNCHANGED <<entry, chain>>
  <2>1. Others(c) /\ call'[c].at = "idle"
    BY <1>1, <1>3, LeaveShape
  <2>2. QED
    BY <1>2, <1>3, <2>1, TurnsAway
<1>4. CASE /\ call[c].at = "committing"
           /\ call' = [call EXCEPT ![c].aborted = TRUE] /\ UNCHANGED <<entry, chain>>
  <2>1. \A k \in Caller : /\ call'[k].at = call[k].at /\ call'[k].draft = call[k].draft
                          /\ call'[k].source = call[k].source
                          /\ call'[k].outcome = call[k].outcome
    BY <1>1, <1>4 DEF TypeOK, Call
  <2>2. \A k \in Caller : /\ Holder(k)' <=> Holder(k)
                          /\ Committable(k)' <=> Committable(k)
    BY <2>1 DEF Holder, Committable
  <2>3. QED
    BY <1>2, <1>4, <2>1, <2>2, MovesKept
<1>5. ASSUME call[c].at = "committing", step = "queued" \/ Who # c,
             NEW k \in 1..Len(chain), chain[k] = Serialized("commit", c, 0),
             chain' = RemoveAt(chain, k), GiveUp(c), Leave(c)
      PROVE  IInv'
  <2>1. Others(c) /\ call'[c].at = "idle" /\ Holder(c)
    BY <1>1, <1>5, LeaveShape DEF Holder
  <2>2. PICK n \in Nat : n = Len(chain)
    BY <1>1 DEF TypeOK
  <2>3. chain \in Seq(Op) /\ k \in 1..n /\ chain # <<>>
    BY <1>1, <1>5, <2>2 DEF TypeOK
  <2>4. /\ Len(chain') = n - 1
        /\ \A i \in 1..(n - 1) : chain'[i] = IF i < k THEN chain[i] ELSE chain[i + 1]
    BY <1>5, <2>2, <2>3, Withdrawn
  <2>5. chain[k].op = "commit" /\ chain[k].who = c
    BY <1>5 DEF Serialized
  <2>6. \A i \in 1..n : chain[i].op = "commit" => i = k
    <3>1. \A i, j \in 1..n : i < j => InOrder(chain[i], chain[j])
      BY <2>2 DEF IInv, ChainOrder
    <3>2. SUFFICES ASSUME NEW i \in 1..n, chain[i].op = "commit", i # k PROVE FALSE
      OBVIOUS
    <3>3. CASE i < k
      BY <2>3, <2>5, <3>1, <3>2, <3>3 DEF InOrder
    <3>4. CASE k < i
      BY <2>3, <2>5, <3>1, <3>2, <3>4 DEF InOrder
    <3>5. QED
      BY <2>3, <3>2, <3>3, <3>4
  <2>7. ASSUME NEW i \in 1..(n - 1)
        PROVE  \E j \in 1..n : /\ chain'[i] = chain[j] /\ j # k /\ i <= j
                               /\ i = 1 /\ j # 1 => k = 1
                               /\ j = IF i < k THEN i ELSE i + 1
    <3>1. CASE i < k
      BY <2>3, <2>4, <3>1
    <3>2. CASE ~(i < k)
      <4>1. i + 1 \in 1..n /\ chain'[i] = chain[i + 1] /\ i + 1 # k /\ i <= i + 1
        BY <2>3, <2>4, <3>2
      <4>2. i = 1 => k = 1
        BY <2>3, <3>2
      <4>3. QED
        BY <3>2, <4>1, <4>2
    <3>3. QED
      BY <3>1, <3>2
  <2>8. k = 1 => step = "queued"
    <3>1. k = 1 => Who = c
      BY <2>3, <2>5, HeadShape
    <3>2. QED
      BY <1>5, <3>1
  <2>9. Tracked' /\ Sessions' /\ OneHistory' /\ WrittenStays' /\ Live' = Live
    BY <1>2, SessionsStay
  <2>10. entry' = entry \/ (entry' = NoEntry /\ entry.id = call[c].draft)
    BY <1>5 DEF GiveUp, Removed
  <2>11. OneLive'
    BY <2>9, <2>10 DEF IInv, OneLive, PreparedOrLive
  <2>12. ASSUME NEW o \in Op, NEW f \in BOOLEAN, o.op # "commit", OpOk(o, f) PROVE OpOk(o, f)'
    <3>1. o.op = "check" => call'[o.who].at = call[o.who].at
      BY <1>5, <2>1, <2>12 DEF OpOk, Others
    <3>2. QED
      BY <1>1, <1>2, <2>12, <3>1, OpKept
  <2>13. ChainOps'
    <3>1. SUFFICES ASSUME NEW i \in 1..(n - 1) PROVE OpOk(chain[i], i = 1)'
      BY <2>4 DEF ChainOps
    <3>2. PICK j \in 1..n : /\ chain'[i] = chain[j] /\ j # k /\ i <= j
                            /\ i = 1 /\ j # 1 => k = 1
      BY <2>7
    <3>3. PICK o \in Op : o = chain[j]
      BY <2>2, <2>3
    <3>4. o.op # "commit" /\ OpOk(o, j = 1)
      BY <2>2, <2>6, <3>2, <3>3 DEF IInv, ChainOps
    <3>5. CASE j = 1
      <4>1. i = 1
        BY <3>2, <3>5
      <4>2. OpOk(o, TRUE)'
        BY <2>12, <3>4, <3>5
      <4>3. QED
        BY <3>2, <3>3, <4>1, <4>2 DEF OpOk
    <3>6. CASE j # 1 /\ i # 1
      <4>1. OpOk(o, FALSE)'
        BY <2>12, <3>4, <3>6
      <4>2. QED
        BY <3>2, <3>3, <3>6, <4>1 DEF OpOk
    <3>7. CASE j # 1 /\ i = 1
      <4>1. OpOk(o, FALSE)'
        BY <2>12, <3>4, <3>7
      <4>2. step' = "queued"
        BY <1>2, <2>8, <3>2, <3>7
      <4>3. QED
        BY <3>2, <3>3, <4>1, <4>2 DEF OpOk
    <3>8. QED
      BY <3>5, <3>6, <3>7
  <2>14. ChainOrder'
    <3>1. SUFFICES ASSUME NEW i \in 1..(n - 1), NEW j \in 1..(n - 1), i < j
                   PROVE  InOrder(chain[i], chain[j])'
      BY <2>4 DEF ChainOrder
    <3>2. PICK v \in 1..n : chain'[i] = chain[v] /\ v = IF i < k THEN i ELSE i + 1
      BY <2>7
    <3>3. PICK w \in 1..n : chain'[j] = chain[w] /\ w = IF j < k THEN j ELSE j + 1
      BY <2>7
    <3>4. v < w
      BY <2>3, <3>1, <3>2, <3>3
    <3>5. InOrder(chain[v], chain[w])
      BY <2>2, <3>4 DEF IInv, ChainOrder
    <3>6. QED
      BY <2>9, <3>2, <3>3, <3>5 DEF InOrder
  <2>15. OwnerAlone'
    <3>1. SUFFICES ASSUME NEW i \in 1..(n - 1), chain'[i].op \in Births, state'.owner \in Live'
                   PROVE  chain'[i].who = state'.owner
      BY <2>4 DEF OwnerAlone
    <3>2. PICK j \in 1..n : chain'[i] = chain[j]
      BY <2>7
    <3>3. QED
      BY <1>2, <2>2, <2>9, <3>1, <3>2 DEF IInv, OwnerAlone
  <2>16. \A o \in Op : OnChain(o)' => OnChain(o) /\ o.op # "commit"
    <3>1. SUFFICES ASSUME NEW i \in 1..(n - 1)
                   PROVE  chain'[i].op # "commit" /\ \E j \in 1..n : chain'[i] = chain[j]
      BY <2>2, <2>4 DEF OnChain
    <3>2. PICK j \in 1..n : chain'[i] = chain[j] /\ j # k
      BY <2>7
    <3>3. QED
      BY <2>6, <3>2
  <2>17. ASSUME entry' = entry, entry.phase = "loading"
         PROVE  \E j \in 1..Len(chain') : LoadAt(j)'
    <3>1. PICK j \in 1..n : LoadAt(j)
      BY <2>2, <2>17 DEF IInv, EntryOrder
    <3>2. k < j
      BY <2>2, <2>3, <2>5, <3>1 DEF LoadAt
    <3>3. PICK i \in 1..(n - 1) : j = i + 1 /\ ~(i < k)
      <4>1. j - 1 \in 1..(n - 1) /\ j = (j - 1) + 1 /\ ~(j - 1 < k)
        BY <2>3, <3>1, <3>2
      <4>2. QED
        BY <4>1
    <3>4. chain'[i] = chain[j]
      BY <2>4, <3>3
    <3>5. ASSUME NEW m \in 1..(n - 1), m > i
          PROVE  chain'[m].op \notin Births \cup {"commit"}
      <4>1. m + 1 \in 1..n /\ m + 1 > j /\ ~(m < k)
        BY <2>3, <3>3, <3>5
      <4>2. chain'[m] = chain[m + 1]
        BY <2>4, <3>5, <4>1
      <4>3. QED
        BY <2>2, <3>1, <4>1, <4>2 DEF LoadAt
    <3>6. LoadAt(i)'
      BY <2>4, <2>17, <3>1, <3>4, <3>5 DEF LoadAt
    <3>7. QED
      BY <2>4, <3>3, <3>6
  <2>18. EntryOrder'
    <3>1. \A o \in Op : OnChain(o)' /\ Concerns(o) => OnChain(o)
      BY <2>16
    <3>2. \A o \in Op : OnChain(o)' /\ o.op = "commit" => FALSE
      BY <2>16
    <3>3. Len(log) <= Len(log')
      BY <1>1, <1>2 DEF TypeOK
    <3>4. CASE entry' = entry
      BY <2>17, <3>1, <3>2, <3>3, <3>4, EntryKept
    <3>5. CASE entry' = NoEntry
      BY <3>1, <3>2, <3>3, <3>5, EntryKept
    <3>6. QED
      BY <2>10, <3>4, <3>5
  <2>19. Steps'
    <3>1. CASE step = "queued"
      BY <1>2, <3>1 DEF Steps
    <3>2. CASE step # "queued"
      <4>1. k # 1
        BY <2>8, <3>2
      <4>2. chain'[1] = chain[1] /\ n - 1 >= 1
        BY <2>3, <2>4, <4>1
      <4>3. chain' \in Seq(Op) /\ chain' # <<>>
        BY <2>4, <4>2 DEF TypeOK
      <4>4. Head(chain') = Head(chain)
        BY <2>3, <4>2, <4>3, Popped
      <4>5. step # "repair"
        <5>1. SUFFICES ASSUME step = "repair" PROVE FALSE
          OBVIOUS
        <5>2. Head(chain).op = "commit" /\ Head(chain) = chain[1]
          BY <5>1, RepairsNobody, HeadShape
        <5>3. QED
          BY <2>3, <2>6, <4>1, <5>2
      <4>6. Seed' = Seed
        BY <1>2, <4>4 DEF Seed, Who
      <4>7. QED
        BY <1>2, <4>3, <4>4, <4>5, <4>6, StepsKept
    <3>3. QED
      BY <3>1, <3>2
  <2>20. Callers'
    <3>1. \A m \in Caller : Holder(m)' => Holder(m) /\ call'[m] = call[m]
      BY <2>1 DEF Holder, Others
    <3>2. \A m \in Caller : Committable(m)' => Committable(m)
      BY <2>1 DEF Committable, Others
    <3>3. UNCHANGED <<log, state>> /\ (torn' = torn \/ ~torn')
      BY <1>2
    <3>4. entry' = entry \/ entry' = NoEntry
      BY <2>10
    <3>5. QED
      BY <3>1, <3>2, <3>3, <3>4, CallersStay
  <2>21. Answers'
    BY <2>1 DEF IInv, Answers, Others
  <2>22. QED
    BY <2>9, <2>11, <2>13, <2>14, <2>15, <2>18, <2>19, <2>20, <2>21 DEF IInv
<1>6. QED
  BY <1>3, <1>4, <1>5 DEF Abort

-----------------------------------------------------------------------------
(* Sessions are published.                                                 *)
LEMMA UnknownKept ==
    ASSUME IInv, TypeOK',
           Create \/ \E c \in Caller : PublishUnknown(c) /\ entry = NoEntry
    PROVE  IInv'
<1>1. TypeOK /\ Callers
  BY DEF IInv
<1>2. PICK l \in Life, e \in Seq(Event) :
              /\ Len(e) <= MaxLog /\ ses[l].at = "unborn" /\ Live = {} /\ entry = NoEntry
              /\ ses' = [ses EXCEPT ![l] = Born(e, "pending")]
              /\ chain' = Append(chain, Serialized("created", l, Len(e)))
              /\ UNCHANGED <<log, torn, state, entry, step, retiring, mishaps>>
              /\ \/ e = <<>> /\ call' = call
                 \/ \E c \in Caller : /\ call[c].at = "holding" /\ e = call[c].source.session
                                      /\ Leave(c)
  BY UnknownShape
<1>3. /\ Rest(l) /\ ses'[l].at = "live" /\ ses'[l].events = e /\ ses'[l].init = "pending"
      /\ ses'[l].next = Len(e) + 1 /\ ~ses'[l].writing /\ ses'[l].retire = "none"
  <2>1. Bears(l, e, "pending")
    BY <1>2 DEF Bears
  <2>2. QED
    BY <1>1, <2>1, PublishedShape
<1>4. PICK n \in Nat : n = Len(e)
  BY <1>2
<1>5. PICK o \in Op : o = Serialized("created", l, n)
  BY <1>4, SerializedTypes
<1>6. o.op = "created" /\ o.who = l /\ o.upTo = n /\ chain' = Append(chain, o)
  BY <1>2, <1>4, <1>5 DEF Serialized
<1>7. Live' = {l}
  BY <1>2, <1>3 DEF Live, Rest
<1>8. /\ ses[l].init = "none" /\ ses[l].retire = "none" /\ ~ses[l].writing
      /\ state.owner # l
  BY <1>2 DEF IInv, Sessions, SessionOk, Tracked
<1>9. \A k \in Caller : /\ call'[k] = call[k] \/ call'[k].at = "idle"
                        /\ call[k].at \in {"committing", "checking"} => call'[k] = call[k]
  <2>1. CASE call' = call
    BY <2>1
  <2>2. ASSUME NEW c \in Caller, call[c].at = "holding", Leave(c)
        PROVE  \A k \in Caller : /\ call'[k] = call[k] \/ call'[k].at = "idle"
                                 /\ call[k].at \in {"committing", "checking"} => call'[k] = call[k]
    BY <1>1, <2>2, LeaveShape DEF Others
  <2>3. QED
    BY <1>2, <2>1, <2>2
<1>10. ASSUME NEW p \in Op, NEW f \in BOOLEAN, OpOk(p, f)
       PROVE  OpOk(p, f)' /\ (p.op \in Births => p.who # l)
  <2>1. p.op \in {"commit", "check"} => call'[p.who].at = call[p.who].at
    BY <1>9, <1>10 DEF OpOk
  <2>2. p.op \in Births \cup {"batch", "forget"} => p.who # l /\ p.who \in Life
    BY <1>8, <1>10 DEF OpOk
  <2>3. p.op \in Births \cup {"batch", "forget"} => ses'[p.who] = ses[p.who]
    BY <1>3, <2>2 DEF Rest
  <2>4. p.op \in Births \cup {"batch", "forget"} =>
           Len(ses[p.who].events) <= Len(ses'[p.who].events)
    BY <1>1, <2>2, <2>3, SessionShape
  <2>5. QED
    BY <1>1, <1>2, <1>10, <2>1, <2>2, <2>3, <2>4, OpKept
<1>11. ASSUME NEW p \in Op, OnChain(p), p.op \in Births
       PROVE  p.who # l /\ p.who \notin Live'
  <2>1. p.who # l
    BY <1>10, <1>11 DEF IInv, ChainOps, OnChain
  <2>2. QED
    BY <1>7, <2>1
<1>12. \A p \in Op : OnChain(p) => InOrder(p, o)'
  BY <1>6, <1>11 DEF InOrder, Births
<1>13. OpOk(o, FALSE)'
  BY <1>2, <1>3, <1>4, <1>6, <1>8 DEF OpOk, Births
<1>14. state'.owner \notin Live'
  BY <1>2, <1>7, <1>8
<1>15. /\ ChainOps' /\ ChainOrder' /\ OwnerAlone'
       /\ chain' # <<>> /\ (chain # <<>> => Head(chain') = Head(chain))
       /\ Len(chain') = Len(chain) + 1 /\ chain'[Len(chain) + 1] = o
       /\ \A i \in 1..Len(chain) : chain'[i] = chain[i]
  BY <1>2, <1>6, <1>10, <1>11, <1>12, <1>13, <1>14, ChainPushes
<1>16. OneLive'
  BY <1>2, <1>7 DEF OneLive, PreparedOrLive
<1>17. EntryOrder'
  <2>1. entry'.phase = "absent" /\ entry'.id = None
    BY <1>2 DEF NoEntry
  <2>2. PICK m \in Nat : m = Len(chain)
    BY <1>1 DEF TypeOK
  <2>3. ASSUME NEW i \in 1..Len(chain'), chain'[i].op = "commit"
        PROVE  Len(call'[chain'[i].who].source.log) < Len(log')
    <3>1. i # m + 1
      BY <1>6, <1>15, <2>2, <2>3
    <3>2. i \in 1..m /\ chain'[i] = chain[i]
      BY <1>15, <2>2, <3>1
    <3>3. chain[i] \in Op /\ OnChain(chain[i])
      BY <1>1, <2>2, <3>2 DEF TypeOK, OnChain
    <3>4. /\ chain[i].who \in Caller /\ call[chain[i].who].at = "committing"
          /\ call[chain[i].who].draft \in Draft
          /\ \/ entry.id = call[chain[i].who].draft
             \/ Len(call[chain[i].who].source.log) < Len(log)
      BY <2>3, <3>2, <3>3, CommitterHolds
    <3>5. Len(call[chain[i].who].source.log) < Len(log)
      BY <1>2, <2>1, <3>4, NoneAssumption
    <3>6. QED
      BY <1>2, <1>9, <3>2, <3>4, <3>5
  <2>4. QED
    BY <2>1, <2>3 DEF EntryOrder
<1>18. Steps'
  <2>1. step # "repair"
    BY <1>2, RepairsNobody
  <2>2. ASSUME step = "truncate" PROVE Seed' = Seed
    <3>1. chain # <<>> /\ Head(chain).op = "created"
      BY <2>2 DEF IInv, Steps
    <3>2. Who \in Life /\ ses[Who].init = "pending" /\ Head(chain') = Head(chain)
      BY <1>15, <3>1, HeadInitializes DEF Births
    <3>3. ses'[Who] = ses[Who]
      BY <1>3, <1>8, <3>2 DEF Rest
    <3>4. QED
      BY <3>2, <3>3 DEF Seed, Who
  <2>3. QED
    BY <1>2, <1>15, <2>1, <2>2, StepsKept
<1>19. Tracked'
  BY <1>2, <1>3, <1>8 DEF IInv, Tracked, Rest
<1>20. \A i \in 1..n : i > Len(log) => e[i].by # "closer"
  <2>1. ASSUME NEW c \in Caller, call[c].at = "holding", e = call[c].source.session
        PROVE  \A i \in 1..n : i > Len(log) => e[i].by # "closer"
    <3>1. PICK s : s = call[c].source /\ Good(s) /\ ~IsOpen(s.log)
      BY <1>1, <2>1 DEF Callers, Holder, Committable
    <3>2. s.log \in Seq(Event) /\ log \in Seq(Event) /\ IsPrefix(s.log, log)
      BY <1>1, <3>1 DEF Good, Source, TypeOK
    <3>3. Len(s.log) <= Len(log) /\ Len(s.log) \in Nat /\ Len(log) \in Nat
      BY <3>2, PrefixAt DEF Begins
    <3>4. QED
      BY <1>4, <2>1, <3>1, <3>3 DEF Good
  <2>2. CASE e = <<>>
    BY <1>4, <2>2
  <2>3. QED
    BY <1>2, <2>1, <2>2
<1>21. Sessions'
  <2>1. SUFFICES ASSUME NEW m \in Life PROVE SessionOk(m)'
    BY DEF Sessions
  <2>2. CASE m = l
    BY <1>2, <1>3, <1>4, <1>20, <2>2 DEF SessionOk
  <2>3. CASE m # l
    <3>1. ses'[m] = ses[m] /\ SessionOk(m)
      BY <1>3, <2>3 DEF Rest, IInv, Sessions
    <3>2. QED
      BY <1>2, <3>1 DEF SessionOk, HasWork, Pending
  <2>4. QED
    BY <2>2, <2>3
<1>22. OneHistory' /\ WrittenStays'
  <2>1. \A m \in Life : m # l => ses'[m] = ses[m]
    BY <1>3 DEF Rest
  <2>2. OneHistory /\ WrittenStays
    BY DEF IInv
  <2>3. OneHistory'
    BY <1>2, <1>3, <1>8, <2>1, <2>2 DEF OneHistory, HasWork, Pending
  <2>4. WrittenStays'
    BY <1>2, <1>3, <2>1, <2>2 DEF WrittenStays
  <2>5. QED
    BY <2>3, <2>4
<1>23. Callers'
  <2>1. \A k \in Caller : Holder(k)' => Holder(k) /\ call'[k] = call[k]
    BY <1>9 DEF Holder
  <2>2. \A k \in Caller : Committable(k)' => Committable(k)
    BY <1>9 DEF Committable
  <2>3. UNCHANGED <<log, state>> /\ (torn' = torn \/ ~torn')
    BY <1>2
  <2>4. QED
    BY <1>2, <2>1, <2>2, <2>3, CallersStay
<1>24. Answers'
  BY <1>9 DEF IInv, Answers
<1>25. QED
  BY <1>15, <1>16, <1>17, <1>18, <1>19, <1>21, <1>22, <1>23, <1>24 DEF IInv

(* The reservation is used: nobody else had a claim on the id.             *)
LEMMA PublishKept ==
    ASSUME IInv, TypeOK', NEW c \in Caller, Publish(c)
    PROVE  IInv'
<1>1. TypeOK /\ Callers
  BY DEF IInv
<1>2. PICK l \in Life, e \in Seq(Event), v \in {"pending", "ok"} :
              /\ e = call[c].source.session /\ Len(e) <= MaxLog
              /\ ses[l].at = "unborn" /\ Live = {} /\ l = NextLife
              /\ ses' = [ses EXCEPT ![l] = Born(e, v)]
              /\ state' \in State /\ state'.owner = l /\ state'.cursor = state.cursor
              /\ v = IF Len(e) > state.cursor THEN "pending" ELSE "ok"
              /\ IF Len(e) > state.cursor
                 THEN chain' = Append(chain, Serialized("suffix", l, Len(e)))
                 ELSE chain' = chain
              /\ entry' = NoEntry /\ Leave(c)
              /\ state \in State
  BY PublishShape
<1>3. /\ call[c].at = "holding" /\ entry.id = call[c].draft /\ entry.phase = "reserved"
      /\ UNCHANGED <<log, torn, step>>
  BY DEF Publish, Reserves
<1>4. /\ Rest(l) /\ ses'[l].at = "live" /\ ses'[l].events = e /\ ses'[l].init = v
      /\ ses'[l].next = Len(e) + 1 /\ ~ses'[l].writing /\ ses'[l].retire = "none"
  <2>1. /\ l \in Life /\ e \in Seq(Event) /\ v \in {"pending", "ok"}
        /\ Bears(l, e, v)
    BY <1>2 DEF Bears
  <2>2. QED
    BY <1>1, <2>1, PublishedShape
<1>5. PICK n \in Nat : n = Len(e)
  BY <1>2
<1>6. Live' = {l}
  BY <1>2, <1>4 DEF Live, Rest
<1>7. PICK s : /\ s = call[c].source /\ Good(s) /\ ~IsOpen(s.log) /\ s.log = log /\ ~torn
               /\ state.owner = None /\ e = s.session
  BY <1>1, <1>2, <1>3 DEF Callers, Holder, Committable
<1>8. PICK b \in Nat : b = Len(log) /\ b = state.cursor
  BY <1>1, <1>7 DEF IInv, Tracked, TypeOK
<1>9. log \in Seq(Event) /\ IsPrefix(log, e) /\ b <= n /\ Begins(log, e)
  <2>1. log \in Seq(Event) /\ IsPrefix(log, e)
    BY <1>1, <1>7 DEF TypeOK, Good
  <2>2. Begins(log, e)
    BY <1>2, <2>1, PrefixAt
  <2>3. QED
    BY <1>5, <1>8, <2>1, <2>2 DEF Begins
<1>10. \A i \in 1..n : i > b => e[i].by # "closer"
  BY <1>5, <1>7, <1>8 DEF Good
<1>11. \A m \in Life : ses[m].init = "ok" => ~HasWork(m) /\ ses[m].at # "live"
  BY <1>7, NoneAssumption DEF IInv, Sessions, SessionOk
<1>12. /\ ses[l].init = "none" /\ ses[l].retire = "none" /\ ~ses[l].writing
  BY <1>2 DEF IInv, Sessions, SessionOk
<1>13. \A i \in 1..Len(chain) : /\ chain[i].op \notin Births /\ chain[i].op # "commit"
                                /\ chain[i] \in Op
  BY <1>1, <1>3 DEF IInv, EntryOrder, TypeOK
<1>14. Others(c) /\ call'[c].at = "idle"
  BY <1>1, <1>2, LeaveShape
<1>15. ASSUME NEW p \in Op, NEW f \in BOOLEAN, p.op \notin Births, OpOk(p, f)
       PROVE  OpOk(p, f)'
  <2>1. p.op \in {"commit", "check"} => call'[p.who].at = call[p.who].at
    BY <1>3, <1>14, <1>15 DEF OpOk, Others
  <2>2. p.op \in Births \cup {"batch", "forget"} => p.who # l /\ p.who \in Life
    BY <1>12, <1>15 DEF OpOk
  <2>3. p.op \in Births \cup {"batch", "forget"} => ses'[p.who] = ses[p.who]
    BY <1>4, <2>2 DEF Rest
  <2>4. p.op \in Births \cup {"batch", "forget"} =>
           Len(ses[p.who].events) <= Len(ses'[p.who].events)
    BY <1>1, <2>2, <2>3, SessionShape
  <2>5. QED
    BY <1>1, <1>3, <1>15, <2>1, <2>2, <2>3, <2>4, OpKept DEF Births
<1>16. /\ ChainOps' /\ ChainOrder' /\ OwnerAlone'
       /\ \A i \in 1..Len(chain') : chain'[i].op # "commit"
  <2>1. CASE n > b
    <3>1. PICK o \in Op : o = Serialized("suffix", l, n)
      BY SerializedTypes
    <3>2. o.op = "suffix" /\ o.who = l /\ o.upTo = n /\ chain' = Append(chain, o) /\ v = "pending"
      BY <1>2, <1>5, <1>8, <2>1, <3>1 DEF Serialized
    <3>3. \A p \in Op, f \in BOOLEAN : OnChain(p) /\ OpOk(p, f) => OpOk(p, f)'
      BY <1>13, <1>15 DEF OnChain
    <3>4. \A p \in Op : OnChain(p) => p.op \notin Births /\ p.op # "commit"
      BY <1>13 DEF OnChain
    <3>5. \A p \in Op : OnChain(p) => InOrder(p, o)'
      BY <3>2, <3>4 DEF InOrder, Births
    <3>6. OpOk(o, FALSE)'
      BY <1>2, <1>4, <1>5, <3>2 DEF OpOk, Births
    <3>7. o.op \in Births /\ state'.owner \in Live' => o.who = state'.owner
      BY <1>2, <3>2
    <3>8. /\ ChainOps' /\ ChainOrder' /\ OwnerAlone'
          /\ Len(chain') = Len(chain) + 1 /\ chain'[Len(chain) + 1] = o
          /\ \A i \in 1..Len(chain) : chain'[i] = chain[i]
      BY <1>3, <3>2, <3>3, <3>4, <3>5, <3>6, <3>7, ChainPushes
    <3>9. PICK m \in Nat : m = Len(chain)
      BY <1>1 DEF TypeOK
    <3>10. \A i \in 1..(m + 1) : chain'[i].op # "commit"
      BY <1>13, <3>2, <3>8, <3>9
    <3>11. QED
      BY <3>8, <3>9, <3>10
  <2>2. CASE ~(n > b)
    <3>1. chain' = chain
      BY <1>2, <1>5, <1>8, <2>2
    <3>2. ChainOps'
      <4>1. SUFFICES ASSUME NEW i \in 1..Len(chain) PROVE OpOk(chain[i], i = 1)'
        BY <3>1 DEF ChainOps
      <4>2. PICK p \in Op, f \in BOOLEAN : p = chain[i] /\ f = (i = 1)
        BY <1>13
      <4>3. OpOk(p, f) /\ p.op \notin Births
        BY <1>13, <4>2 DEF IInv, ChainOps
      <4>4. OpOk(p, f)'
        BY <1>15, <4>3
      <4>5. QED
        BY <3>1, <4>2, <4>4 DEF OpOk
    <3>3. ChainOrder'
      BY <1>13, <3>1 DEF IInv, ChainOrder, InOrder
    <3>4. OwnerAlone'
      BY <1>13, <3>1 DEF OwnerAlone
    <3>5. QED
      BY <1>13, <3>1, <3>2, <3>3, <3>4
  <2>3. QED
    BY <2>1, <2>2
<1>17. OneLive'
  BY <1>2, <1>6 DEF OneLive, PreparedOrLive
<1>18. entry'.phase = "absent" /\ entry'.id = None
  BY <1>2 DEF NoEntry
<1>19. EntryOrder'
  BY <1>16, <1>18 DEF EntryOrder
<1>20. step = "queued"
  <2>1. SUFFICES ASSUME step # "queued" PROVE FALSE
    OBVIOUS
  <2>2. chain # <<>>
    BY <2>1 DEF IInv, Steps
  <2>3. Head(chain).op \notin Births /\ Head(chain).op # "commit"
    BY <1>13, <2>2, HeadShape
  <2>4. step \in {"append"}
    BY <1>1, <2>1, <2>2, <2>3 DEF IInv, Steps, TypeOK, Step, Births
  <2>5. Appending("append")
    BY <2>2, <2>4 DEF IInv, Steps, Appending
  <2>6. state.owner \in Life
    BY <2>5, HeadOwns
  <2>7. QED
    BY <1>7, <2>6, NoneAssumption
<1>21. Steps'
  BY <1>3, <1>20 DEF Steps
<1>22. Tracked'
  BY <1>2, <1>4, NoneAssumption DEF Tracked
<1>23. Sessions'
  <2>1. SUFFICES ASSUME NEW m \in Life PROVE SessionOk(m)'
    BY DEF Sessions
  <2>2. CASE m = l
    <3>1. /\ e = ses'[l].events /\ v = ses'[l].init /\ ses'[l].at = "live"
          /\ ses'[l].next = n + 1 /\ ~ses'[l].writing /\ ses'[l].retire = "none"
      BY <1>4, <1>5
    <3>2. /\ v = IF n > b THEN "pending" ELSE "ok"
          /\ state'.owner = l /\ state'.cursor = b
      BY <1>2, <1>5, <1>8
    <3>3. \A i \in 1..n : i > b => e[i].by # "closer"
      BY <1>10
    <3>4. QED
      BY <1>3, <1>5, <1>8, <2>2, <3>1, <3>2, <3>3 DEF SessionOk
  <2>3. CASE m # l
    <3>1. ses'[m] = ses[m] /\ SessionOk(m)
      BY <1>4, <2>3 DEF Rest, IInv, Sessions
    <3>2. QED
      BY <1>3, <1>11, <3>1 DEF SessionOk, HasWork, Pending
  <2>4. QED
    BY <2>2, <2>3
<1>24. OneHistory'
  <2>1. SUFFICES ASSUME NEW m \in Life
                 PROVE  /\ ses'[m].init = "ok" /\ HasWork(m)' => state'.owner = m
                        /\ state'.owner = m => /\ state'.cursor = Len(log')
                                               /\ IsPrefix(log', ses'[m].events)
    BY DEF OneHistory
  <2>2. CASE m = l
    BY <1>2, <1>3, <1>4, <1>8, <1>9, <2>2
  <2>3. CASE m # l
    <3>1. ses'[m] = ses[m]
      BY <1>4, <2>3 DEF Rest
    <3>2. QED
      BY <1>2, <1>11, <2>3, <3>1 DEF HasWork, Pending
  <2>4. QED
    BY <2>2, <2>3
<1>25. WrittenStays'
  <2>1. SUFFICES ASSUME NEW m \in Life
                 PROVE  /\ ses'[m].init = "ok" =>
                              IsPrefix(SubSeq(ses'[m].events, 1, ses'[m].next - 1), log')
                        /\ ses'[m].retire = "done" => IsPrefix(ses'[m].events, log')
    BY DEF WrittenStays
  <2>2. CASE m = l
    <3>1. SUFFICES ASSUME v = "ok" PROVE IsPrefix(SubSeq(e, 1, n), log)
      BY <1>3, <1>4, <1>5, <2>2
    <3>2. n <= b
      BY <1>2, <1>5, <1>8, <3>1
    <3>3. /\ SubSeq(e, 1, n) \in Seq(Event) /\ Len(SubSeq(e, 1, n)) = n
          /\ \A i \in 1..n : SubSeq(e, 1, n)[i] = e[i]
      BY <1>2, <1>5, Opening
    <3>4. Begins(SubSeq(e, 1, n), log)
      BY <1>8, <1>9, <3>2, <3>3 DEF Begins
    <3>5. QED
      BY <1>9, <3>3, <3>4, PrefixAt
  <2>3. CASE m # l
    <3>1. ses'[m] = ses[m]
      BY <1>4, <2>3 DEF Rest
    <3>2. QED
      BY <1>3, <3>1 DEF IInv, WrittenStays
  <2>4. QED
    BY <2>2, <2>3
<1>26. Callers'
  <2>1. \A k \in Caller : Holder(k)' => Holder(k) /\ call'[k] = call[k]
    BY <1>14 DEF Holder, Others
  <2>2. \A k \in Caller : Committable(k)' => Committable(k) /\ Holder(k)
    BY <1>14 DEF Committable, Holder, Others
  <2>3. \A k \in Caller : Committable(k)' =>
           ~IsOpen(call[k].source.log) /\ entry'.id # call[k].draft
    BY <1>1, <1>18, <2>2, NoneAssumption DEF Callers
  <2>4. IsPrefix(log, log')
    BY <1>3, <1>9, PrefixItself
  <2>5. QED
    BY <1>2, <2>1, <2>3, <2>4, CallersKept
<1>27. Answers'
  BY <1>14 DEF IInv, Answers, Others
<1>28. QED
  BY <1>16, <1>17, <1>19, <1>21, <1>22, <1>23, <1>24, <1>25, <1>26, <1>27 DEF IInv

-----------------------------------------------------------------------------
(* Live Sessions, their controllers and their retirement.                  *)

(* What a controller has written is the same part of a log that grows.     *)
LEMMA StaysWritten ==
    ASSUME TypeOK, TypeOK', NEW l \in Life, SessionOk(l), IsPrefix(log, log'),
           IsPrefix(ses[l].events, ses'[l].events), ses'[l].next = ses[l].next,
           IsPrefix(SubSeq(ses[l].events, 1, ses[l].next - 1), log)
    PROVE  IsPrefix(SubSeq(ses'[l].events, 1, ses'[l].next - 1), log')
<1>1. PICK s \in Seq(Event) : s = ses[l].events
  BY SessionShape
<1>2. PICK t \in Seq(Event) : t = ses'[l].events
  BY DEF TypeOK, Session
<1>3. PICK n \in Nat : n = ses[l].next - 1 /\ n <= Len(s)
  BY <1>1 DEF SessionOk
<1>4. log \in Seq(Event) /\ log' \in Seq(Event)
  BY DEF TypeOK
<1>5. Begins(s, t)
  BY <1>1, <1>2, PrefixAt
<1>6. n <= Len(t)
  BY <1>1, <1>2, <1>3, <1>5 DEF Begins
<1>7. /\ SubSeq(s, 1, n) \in Seq(Event) /\ Len(SubSeq(s, 1, n)) = n
      /\ \A i \in 1..n : SubSeq(s, 1, n)[i] = s[i]
  BY <1>3, Opening
<1>8. /\ SubSeq(t, 1, n) \in Seq(Event) /\ Len(SubSeq(t, 1, n)) = n
      /\ \A i \in 1..n : SubSeq(t, 1, n)[i] = t[i]
  BY <1>6, Opening
<1>9. Begins(SubSeq(t, 1, n), SubSeq(s, 1, n))
  BY <1>3, <1>5, <1>7, <1>8 DEF Begins
<1>10. IsPrefix(SubSeq(t, 1, n), SubSeq(s, 1, n))
  BY <1>7, <1>8, <1>9, PrefixAt
<1>11. IsPrefix(SubSeq(s, 1, n), log')
  BY <1>1, <1>3, <1>4, <1>7, PrefixTransitive
<1>12. IsPrefix(SubSeq(t, 1, n), log')
  BY <1>4, <1>7, <1>8, <1>10, <1>11, PrefixTransitive
<1>13. QED
  BY <1>2, <1>3, <1>12

(* The callers and the pool have no part in what follows.                  *)
LEMMA Aloof ==
    ASSUME IInv, TypeOK', UNCHANGED <<log, torn, state, entry, call>>
    PROVE  Callers' /\ Answers'
<1>1. \A k \in Caller : /\ Holder(k)' <=> Holder(k)
                        /\ Committable(k)' <=> Committable(k)
  BY DEF Holder, Committable
<1>2. Callers'
  BY <1>1, CallersStay
<1>3. Answers'
  BY DEF IInv, Answers
<1>4. QED
  BY <1>2, <1>3

(* A controller that is not writing queues its next operation.             *)
LEMMA WriterPushes ==
    ASSUME IInv, TypeOK', UNCHANGED <<log, torn, state, entry, call, step>>,
           NEW l \in Life, Rest(l),
           ses[l].init = "ok", ~ses[l].writing, ses[l].retire # "forgetting",
           ses'[l].at = ses[l].at, ses'[l].events = ses[l].events,
           ses'[l].init = ses[l].init, ses'[l].next = ses[l].next, ses'[l].retire # "done",
           NEW o \in Op, o.op \in {"batch", "forget"}, o.who = l, chain' = Append(chain, o),
           OpOk(o, FALSE)', SessionOk(l)', HasWork(l)' => state.owner = l
    PROVE  IInv'
<1>1. TypeOK
  BY DEF IInv
<1>2. \A m \in Life : m # l => ses'[m] = ses[m]
  BY DEF Rest
<1>3. Live' = Live
  BY <1>2 DEF Live
<1>4. ASSUME NEW p \in Op, NEW f \in BOOLEAN, OpOk(p, f)
      PROVE  OpOk(p, f)' /\ (p.op = o.op => p.who # l)
  <2>1. p.op \in Births \cup {"batch", "forget"} => p.who # l /\ p.who \in Life
    BY <1>4 DEF OpOk
  <2>2. p.op \in Births \cup {"batch", "forget"} => ses'[p.who] = ses[p.who]
    BY <1>2, <2>1
  <2>3. p.op \in Births \cup {"batch", "forget"} =>
           Len(ses[p.who].events) <= Len(ses'[p.who].events)
    BY <1>1, <2>1, <2>2, SessionShape
  <2>4. QED
    BY <1>1, <1>4, <2>1, <2>2, <2>3, OpKept
<1>5. \A p \in Op : OnChain(p) => InOrder(p, o)'
  BY <1>4 DEF InOrder, Births, IInv, ChainOps, OnChain
<1>6. \A p \in Op : OnChain(p) /\ p.op \in Births =>
         /\ p.who \in Live' => p.who \in Live
         /\ state'.owner \in Live' => p.who = state'.owner
  BY <1>3 DEF IInv, OwnerAlone, OnChain
<1>7. /\ ChainOps' /\ ChainOrder' /\ OwnerAlone'
      /\ chain' # <<>> /\ (chain # <<>> => Head(chain') = Head(chain))
      /\ Len(chain') = Len(chain) + 1 /\ chain'[Len(chain) + 1] = o
      /\ \A i \in 1..Len(chain) : chain'[i] = chain[i]
  <2>1. o.op \in Births /\ state'.owner \in Live' => o.who = state'.owner
    BY DEF Births
  <2>2. QED
    BY <1>4, <1>5, <1>6, <2>1, ChainPushes
<1>8. OneLive'
  BY <1>3 DEF IInv, OneLive, PreparedOrLive
<1>9. ~Concerns(o)
  BY DEF Concerns, Births
<1>10. EntryOrder'
  <2>1. PICK n \in Nat : n = Len(chain)
    BY <1>1 DEF TypeOK
  <2>2. \A p \in Op : OnChain(p)' /\ Concerns(p) => OnChain(p)
    <3>1. SUFFICES ASSUME NEW i \in 1..Len(chain'), Concerns(chain'[i])
                   PROVE  \E j \in 1..Len(chain) : chain'[i] = chain[j]
      BY DEF OnChain
    <3>2. i # n + 1
      BY <1>7, <1>9, <2>1, <3>1
    <3>3. QED
      BY <1>7, <2>1, <3>2
  <2>3. entry.phase = "loading" => \E j \in 1..Len(chain') : LoadAt(j)'
    BY <1>9, LoadPushes
  <2>4. Len(log) <= Len(log')
    BY <1>1 DEF TypeOK
  <2>5. QED
    BY <2>2, <2>3, <2>4, EntryKept
<1>11. Steps'
  <2>1. step = "truncate" => Seed' = Seed
    <3>1. SUFFICES ASSUME step = "truncate" PROVE Seed' = Seed
      OBVIOUS
    <3>2. chain # <<>> /\ Head(chain).op = "created"
      BY <3>1 DEF IInv, Steps
    <3>3. Who \in Life /\ ses[Who].init = "pending" /\ Head(chain') = Head(chain)
      BY <1>7, <3>2, HeadInitializes DEF Births
    <3>4. ses'[Who] = ses[Who]
      BY <1>2, <3>3
    <3>5. QED
      BY <3>3, <3>4 DEF Seed, Who
  <2>2. QED
    BY <1>7, <2>1, StepsKept
<1>12. Tracked'
  BY <1>2 DEF IInv, Tracked
<1>13. Sessions'
  <2>1. ASSUME NEW m \in Life, m # l PROVE SessionOk(m)'
    BY <1>2, <2>1 DEF IInv, Sessions, SessionOk, HasWork, Pending
  <2>2. QED
    BY <2>1 DEF Sessions
<1>14. OneHistory' /\ WrittenStays'
  <2>1. OneHistory /\ WrittenStays
    BY DEF IInv
  <2>2. OneHistory'
    <3>1. ASSUME NEW m \in Life, m # l PROVE HasWork(m)' <=> HasWork(m)
      BY <1>2, <3>1 DEF HasWork, Pending
    <3>2. QED
      BY <1>2, <2>1, <3>1 DEF OneHistory
  <2>3. WrittenStays'
    BY <1>2, <2>1 DEF WrittenStays
  <2>4. QED
    BY <2>2, <2>3
<1>15. Callers' /\ Answers'
  BY Aloof
<1>16. QED
  BY <1>7, <1>8, <1>10, <1>11, <1>12, <1>13, <1>14, <1>15 DEF IInv

(* A Session changes without the chain.                                    *)
LEMMA SessionMoves ==
    ASSUME IInv, TypeOK', UNCHANGED <<log, torn, state, entry, call, chain, step>>,
           NEW l \in Life, Rest(l), ses[l].at \in {"live", "disposed"},
           ses'[l].at \in {ses[l].at, "disposed"}, IsPrefix(ses[l].events, ses'[l].events),
           ses'[l].init = ses[l].init, ses'[l].next = ses[l].next,
           ses'[l].writing = ses[l].writing,
           ses'[l].retire = ses[l].retire \/ ses[l].retire # "forgetting",
           ses'[l].retire # "done",
           SessionOk(l)', ses'[l].init = "ok" /\ HasWork(l)' => state.owner = l
    PROVE  IInv'
<1>1. TypeOK
  BY DEF IInv
<1>2. \A m \in Life : m # l => ses'[m] = ses[m]
  BY DEF Rest
<1>3. Live' \subseteq Live
  BY <1>2 DEF Live
<1>4. PICK s \in Seq(Event) : s = ses[l].events
  BY <1>1, SessionShape
<1>5. PICK t \in Seq(Event) : t = ses'[l].events
  BY DEF TypeOK, Session
<1>6. Begins(s, t) /\ IsPrefix(s, t)
  BY <1>4, <1>5, PrefixAt
<1>7. ASSUME NEW p \in Op, NEW f \in BOOLEAN, OpOk(p, f) PROVE OpOk(p, f)'
  <2>1. p.op \in Births \cup {"batch", "forget"} => p.who \in Life
    BY <1>7 DEF OpOk
  <2>2. p.op \in Births \cup {"batch", "forget"} =>
           /\ ses'[p.who].init = ses[p.who].init
           /\ ses'[p.who].next = ses[p.who].next
           /\ ses'[p.who].writing = ses[p.who].writing
    BY <1>2, <2>1
  <2>3. p.op \in Births \cup {"batch", "forget"} =>
           Len(ses[p.who].events) <= Len(ses'[p.who].events)
    <3>1. \A m \in Life : Len(ses[m].events) \in Nat
      BY <1>1, SessionShape
    <3>2. \A m \in Life : Len(ses[m].events) <= Len(ses'[m].events)
      BY <1>2, <1>4, <1>5, <1>6, <3>1 DEF Begins
    <3>3. QED
      BY <2>1, <3>2
  <2>4. p.op = "forget" => ses'[p.who].retire = ses[p.who].retire
    BY <1>2, <1>7 DEF OpOk
  <2>5. QED
    BY <1>1, <1>7, <2>2, <2>3, <2>4, OpKept
<1>8. ChainOps' /\ ChainOrder' /\ OwnerAlone'
  <2>1. \A p \in Op, f \in BOOLEAN : OnChain(p) /\ OpOk(p, f) => OpOk(p, f)'
    BY <1>7
  <2>2. QED
    BY <1>3, <2>1, ChainStays
<1>9. OneLive'
  BY <1>3 DEF IInv, OneLive, PreparedOrLive
<1>10. EntryOrder'
  BY DEF IInv, EntryOrder, LoadAt
<1>11. Steps'
  <2>1. ASSUME step = "truncate" PROVE Seed' = Seed
    <3>1. chain # <<>> /\ Head(chain).op = "created"
      BY <2>1 DEF IInv, Steps
    <3>2. /\ Who \in Life /\ Head(chain).upTo \in Nat
          /\ Head(chain).upTo <= Len(ses[Who].events)
      BY <3>1, HeadInitializes DEF Births
    <3>3. CASE Who # l
      BY <1>2, <3>2, <3>3 DEF Seed, Who
    <3>4. CASE Who = l
      <4>1. PICK n \in Nat : n = Head(chain).upTo /\ n <= Len(s)
        BY <1>4, <3>2, <3>4
      <4>2. n <= Len(t)
        BY <1>6, <4>1 DEF Begins
      <4>3. /\ SubSeq(s, 1, n) \in Seq(Event) /\ Len(SubSeq(s, 1, n)) = n
            /\ \A i \in 1..n : SubSeq(s, 1, n)[i] = s[i]
        BY <4>1, Opening
      <4>4. /\ SubSeq(t, 1, n) \in Seq(Event) /\ Len(SubSeq(t, 1, n)) = n
            /\ \A i \in 1..n : SubSeq(t, 1, n)[i] = t[i]
        BY <4>2, Opening
      <4>5. \A i \in 1..n : s[i] = t[i]
        BY <1>6, <4>1 DEF Begins
      <4>6. SubSeq(s, 1, n) = SubSeq(t, 1, n)
        BY <4>3, <4>4, <4>5, SeqEqual
      <4>7. Seed = SubSeq(s, 1, n) /\ Seed' = SubSeq(t, 1, n)
        BY <1>4, <1>5, <3>4, <4>1 DEF Seed, Who
      <4>8. QED
        BY <4>6, <4>7
    <3>5. QED
      BY <3>3, <3>4
  <2>2. QED
    BY <2>1, StepsKept
<1>12. Tracked'
  BY <1>2 DEF IInv, Tracked
<1>13. Sessions'
  <2>1. ASSUME NEW m \in Life, m # l PROVE SessionOk(m)'
    BY <1>2, <2>1 DEF IInv, Sessions, SessionOk, HasWork, Pending
  <2>2. QED
    BY <2>1 DEF Sessions
<1>14. OneHistory'
  <2>1. SUFFICES ASSUME NEW m \in Life
                 PROVE  /\ ses'[m].init = "ok" /\ HasWork(m)' => state'.owner = m
                        /\ state'.owner = m => /\ state'.cursor = Len(log')
                                               /\ IsPrefix(log', ses'[m].events)
    BY DEF OneHistory
  <2>2. CASE m = l
    <3>1. state.owner = l => state.cursor = Len(log) /\ IsPrefix(log, s)
      BY <1>4 DEF IInv, OneHistory
    <3>2. log \in Seq(Event)
      BY <1>1 DEF TypeOK
    <3>3. state.owner = l => IsPrefix(log, t)
      BY <1>6, <3>1, <3>2, PrefixTransitive
    <3>4. QED
      BY <1>5, <2>2, <3>1, <3>3
  <2>3. CASE m # l
    <3>1. ses'[m] = ses[m] /\ (HasWork(m)' <=> HasWork(m))
      BY <1>2, <2>3 DEF HasWork, Pending
    <3>2. QED
      BY <3>1 DEF IInv, OneHistory
  <2>4. QED
    BY <2>2, <2>3
<1>15. WrittenStays'
  <2>1. SUFFICES ASSUME NEW m \in Life
                 PROVE  /\ ses'[m].init = "ok" =>
                              IsPrefix(SubSeq(ses'[m].events, 1, ses'[m].next - 1), log')
                        /\ ses'[m].retire = "done" => IsPrefix(ses'[m].events, log')
    BY DEF WrittenStays
  <2>2. CASE m = l
    <3>1. SUFFICES ASSUME ses[l].init = "ok"
                   PROVE  IsPrefix(SubSeq(ses'[l].events, 1, ses'[l].next - 1), log')
      BY <2>2
    <3>2. IsPrefix(SubSeq(ses[l].events, 1, ses[l].next - 1), log) /\ SessionOk(l)
      BY <3>1 DEF IInv, WrittenStays, Sessions
    <3>3. IsPrefix(log, log')
      BY <1>1, PrefixItself DEF TypeOK
    <3>4. QED
      BY <1>1, <3>2, <3>3, StaysWritten
  <2>3. CASE m # l
    BY <1>2, <2>3 DEF IInv, WrittenStays
  <2>4. QED
    BY <2>2, <2>3
<1>16. Callers' /\ Answers'
  BY Aloof
<1>17. QED
  BY <1>8, <1>9, <1>10, <1>11, <1>12, <1>13, <1>14, <1>15, <1>16 DEF IInv

LEMMA WriteKept ==
    ASSUME IInv, TypeOK', NEW l \in Life, Write(l)
    PROVE  IInv'
<1>1. TypeOK /\ SessionOk(l)
  BY DEF IInv, Sessions
<1>2. /\ ses[l].at = "live" /\ ses[l].init = "ok" /\ ~ses[l].writing
      /\ ses' = [ses EXCEPT ![l].writing = TRUE]
      /\ Serialize("batch", l, Len(ses[l].events))
      /\ UNCHANGED <<log, torn, state, entry, call, step>>
  BY DEF Write
<1>3. /\ Rest(l) /\ ses'[l].writing
      /\ ses'[l].at = ses[l].at /\ ses'[l].events = ses[l].events
      /\ ses'[l].init = ses[l].init /\ ses'[l].next = ses[l].next
      /\ ses'[l].retire = ses[l].retire
  BY <1>1, <1>2, WritingShape
<1>4. PICK n \in Nat : n = Len(ses[l].events)
  BY <1>1, SessionShape
<1>5. PICK o \in Op : o = Serialized("batch", l, n)
  BY <1>4, SerializedTypes
<1>6. o.op = "batch" /\ o.who = l /\ o.upTo = n /\ chain' = Append(chain, o)
  BY <1>2, <1>4, <1>5 DEF Serialized, Serialize
<1>7. OpOk(o, FALSE)'
  BY <1>2, <1>3, <1>4, <1>6 DEF OpOk, Births
<1>8. ses[l].retire = "none" /\ state.owner = l
  BY <1>1, <1>2 DEF SessionOk
<1>9. SessionOk(l)'
  BY <1>1, <1>2, <1>3, <1>8 DEF SessionOk
<1>10. QED
  BY <1>2, <1>3, <1>6, <1>7, <1>8, <1>9, WriterPushes

LEMMA DrainKept ==
    ASSUME IInv, TypeOK', NEW l \in Life, Drain(l)
    PROVE  IInv'
<1>1. TypeOK /\ SessionOk(l)
  BY DEF IInv, Sessions
<1>2. /\ ses[l].retire = "flushing" /\ ses[l].at = "disposed"
      /\ UNCHANGED <<log, torn, state, entry, call, step>>
      /\ \/ ses[l].init = "failed"
         \/ ses[l].init = "ok" /\ ~ses[l].writing
  BY <1>1 DEF Drain, CanDrain, SessionOk
<1>3. PICK n \in Nat : n = Len(ses[l].events)
  BY <1>1, SessionShape
<1>4. CASE /\ ses[l].init = "failed" /\ ses' = [ses EXCEPT ![l].retire = "failed"]
           /\ UNCHANGED chain
  <2>1. "failed" \in Retirement
    BY DEF Retirement
  <2>2. /\ Rest(l) /\ ses'[l].retire = "failed"
        /\ ses'[l].at = ses[l].at /\ ses'[l].events = ses[l].events
        /\ ses'[l].init = ses[l].init /\ ses'[l].next = ses[l].next
        /\ ses'[l].writing = ses[l].writing
    BY <1>1, <1>4, <2>1, RetireShape
  <2>3. IsPrefix(ses[l].events, ses'[l].events)
    BY <1>1, <2>2, SessionShape, PrefixItself
  <2>4. SessionOk(l)'
    BY <1>1, <1>2, <1>4, <2>2 DEF SessionOk
  <2>5. QED
    BY <1>2, <1>4, <2>2, <2>3, <2>4, SessionMoves
<1>5. CASE /\ ses[l].init = "ok" /\ ~ses[l].writing /\ Pending(l)
           /\ Drains(l) /\ Serialize("batch", l, n)
  <2>1. /\ Rest(l) /\ ses'[l].writing /\ ses'[l].retire = "draining"
        /\ ses'[l].at = ses[l].at /\ ses'[l].events = ses[l].events
        /\ ses'[l].init = ses[l].init /\ ses'[l].next = ses[l].next
    BY <1>1, <1>5, DrainingShape
  <2>2. PICK o \in Op : o = Serialized("batch", l, n)
    BY <1>3, SerializedTypes
  <2>3. o.op = "batch" /\ o.who = l /\ o.upTo = n /\ chain' = Append(chain, o)
    BY <1>5, <2>2 DEF Serialized, Serialize
  <2>4. OpOk(o, FALSE)'
    BY <1>3, <1>5, <2>1, <2>3 DEF OpOk, Births
  <2>5. state.owner = l
    BY <1>1, <1>5 DEF SessionOk, HasWork
  <2>6. SessionOk(l)'
    BY <1>1, <1>2, <1>5, <2>1, <2>5 DEF SessionOk
  <2>7. QED
    BY <1>2, <1>5, <2>1, <2>3, <2>4, <2>5, <2>6, WriterPushes
<1>6. CASE /\ ses[l].init = "ok" /\ ~ses[l].writing /\ ~Pending(l)
           /\ ses' = [ses EXCEPT ![l].retire = "forgetting"] /\ Serialize("forget", l, 0)
  <2>1. "forgetting" \in Retirement
    BY DEF Retirement
  <2>2. /\ Rest(l) /\ ses'[l].retire = "forgetting"
        /\ ses'[l].at = ses[l].at /\ ses'[l].events = ses[l].events
        /\ ses'[l].init = ses[l].init /\ ses'[l].next = ses[l].next
        /\ ses'[l].writing = ses[l].writing
    BY <1>1, <1>6, <2>1, RetireShape
  <2>3. PICK o \in Op : o = Serialized("forget", l, 0)
    BY SerializedTypes
  <2>4. o.op = "forget" /\ o.who = l /\ chain' = Append(chain, o)
    BY <1>6, <2>3 DEF Serialized, Serialize
  <2>5. OpOk(o, FALSE)'
    BY <2>2, <2>4 DEF OpOk, Births
  <2>6. ~HasWork(l)'
    BY <1>6, <2>2 DEF HasWork, Pending
  <2>7. SessionOk(l)'
    BY <1>1, <1>2, <1>6, <2>2, <2>6 DEF SessionOk
  <2>8. QED
    BY <1>2, <1>6, <2>2, <2>4, <2>5, <2>6, <2>7, WriterPushes
<1>7. QED
  <2>1. \/ ses[l].init = "failed" /\ ses' = [ses EXCEPT ![l].retire = "failed"]
           /\ UNCHANGED chain
        \/ ses[l].init = "ok" /\ Pending(l) /\ Drains(l) /\ Serialize("batch", l, n)
        \/ ses[l].init = "ok" /\ ~Pending(l)
           /\ ses' = [ses EXCEPT ![l].retire = "forgetting"] /\ Serialize("forget", l, 0)
    BY <1>2, <1>3 DEF Drain, Drained, Drains
  <2>2. QED
    BY <1>2, <1>4, <1>5, <1>6, <2>1

LEMMA EmitKept ==
    ASSUME IInv, TypeOK', NEW l \in Life, Emit(l)
    PROVE  IInv'
<1>1. TypeOK /\ SessionOk(l)
  BY DEF IInv, Sessions
<1>2. ses[l].at = "live" /\ UNCHANGED <<log, torn, state, entry, call, chain, step>>
  BY DEF Emit
<1>3. /\ Rest(l)
      /\ ses'[l].events = Append(ses[l].events, NextOf(ses[l].events, l))
      /\ NextOf(ses[l].events, l) \in Event
      /\ ses'[l].at = ses[l].at /\ ses'[l].init = ses[l].init
      /\ ses'[l].next = ses[l].next /\ ses'[l].writing = ses[l].writing
      /\ ses'[l].retire = ses[l].retire
  BY <1>1, EmittedShape
<1>4. PICK s \in Seq(Event) : s = ses[l].events
  BY <1>1, SessionShape
<1>5. PICK x \in Event : x = NextOf(s, l)
  BY <1>3, <1>4
<1>6. PICK n \in Nat : n = Len(s)
  BY <1>4
<1>7. /\ ses'[l].events = Append(s, x) /\ Len(Append(s, x)) = n + 1
      /\ \A i \in 1..n : Append(s, x)[i] = s[i]
      /\ Append(s, x)[n + 1] = x /\ IsPrefix(s, Append(s, x))
  BY <1>3, <1>4, <1>5, <1>6, Appended
<1>8. x.by # "closer"
  BY <1>5, MarkerAssumption DEF NextOf
<1>9. ses[l].retire = "none" /\ (ses[l].init = "ok" => state.owner = l)
  BY <1>1, <1>2 DEF SessionOk
<1>10. \A i \in 1..(n + 1) : i > Len(log) => Append(s, x)[i].by # "closer"
  <2>1. \A i \in 1..n : i > Len(log) => s[i].by # "closer"
    BY <1>1, <1>4, <1>6 DEF SessionOk
  <2>2. QED
    BY <1>7, <1>8, <2>1
<1>11. ses'[l].next \in 1..(n + 2)
  BY <1>1, <1>3, <1>4, <1>6 DEF SessionOk
<1>12. SessionOk(l)'
  BY <1>1, <1>2, <1>3, <1>7, <1>9, <1>10, <1>11 DEF SessionOk
<1>13. QED
  BY <1>2, <1>3, <1>4, <1>7, <1>9, <1>12, SessionMoves

LEMMA DisposeKept ==
    ASSUME IInv, TypeOK', NEW l \in Life, Dispose(l)
    PROVE  IInv'
<1>1. TypeOK /\ SessionOk(l)
  BY DEF IInv, Sessions
<1>2. /\ ses[l].at = "live" /\ Leaves(l)
      /\ UNCHANGED <<log, torn, state, entry, call, chain, step>>
  BY DEF Dispose, Leaves
<1>3. /\ Rest(l) /\ ses'[l].at = "disposed" /\ ses'[l].retire = "flushing"
      /\ ses'[l].events = ses[l].events /\ ses'[l].init = ses[l].init
      /\ ses'[l].next = ses[l].next /\ ses'[l].writing = ses[l].writing
  BY <1>1, <1>2, DisposedShape
<1>4. IsPrefix(ses[l].events, ses'[l].events)
  BY <1>1, <1>3, SessionShape, PrefixItself
<1>5. ses[l].retire = "none" /\ (ses[l].init = "ok" => state.owner = l)
  BY <1>1, <1>2 DEF SessionOk
<1>6. SessionOk(l)'
  BY <1>1, <1>2, <1>3, <1>5 DEF SessionOk
<1>7. QED
  BY <1>2, <1>3, <1>4, <1>5, <1>6, SessionMoves

(* What the rest of the world does: another process appends, the plugin is *)
(* reloaded, the process crashes.                                          *)
LEMMA ForeignKept ==
    ASSUME IInv, TypeOK', Foreign
    PROVE  IInv'
<1>1. TypeOK /\ Sessions /\ OneHistory /\ WrittenStays
  BY DEF IInv
<1>2. /\ state = NoState /\ chain = <<>> /\ log' = Append(log, NextOf(log, "foreign"))
      /\ UNCHANGED <<torn, state, entry, call, chain, step, ses>>
  BY DEF Foreign
<1>3. NextOf(log, "foreign") \in Event
  BY DEF NextOf, Event
<1>4. PICK b \in Nat : b = Len(log)
  BY <1>1 DEF TypeOK
<1>5. IsPrefix(log, log') /\ Len(log') = b + 1
  BY <1>1, <1>2, <1>3, <1>4, Appended DEF TypeOK
<1>6. state.owner \notin Life \cup {None}
  BY <1>1, <1>2, StateShape
<1>7. OneLive'
  BY <1>2 DEF IInv, OneLive, PreparedOrLive, Live
<1>8. ChainOps' /\ ChainOrder' /\ OwnerAlone' /\ EntryOrder' /\ Steps'
  <2>1. Len(chain') = 0
    BY <1>2
  <2>2. entry.phase # "loading"
    BY <1>2 DEF IInv, EntryOrder
  <2>3. step = "queued"
    BY <1>2 DEF IInv, Steps
  <2>4. QED
    BY <1>2, <2>1, <2>2, <2>3 DEF ChainOps, ChainOrder, OwnerAlone, EntryOrder, Steps
<1>9. Tracked'
  BY <1>2, <1>6 DEF Tracked
<1>10. Sessions'
  <2>1. SUFFICES ASSUME NEW m \in Life PROVE SessionOk(m)'
    BY DEF Sessions
  <2>2. SessionOk(m) /\ Len(ses[m].events) \in Nat
    BY <1>1, SessionShape DEF Sessions
  <2>3. \A i \in 1..Len(ses[m].events) : i > Len(log') => i > Len(log)
    BY <1>4, <1>5, <2>2
  <2>4. QED
    BY <1>2, <2>2, <2>3 DEF SessionOk, HasWork, Pending
<1>11. OneHistory'
  BY <1>1, <1>2, <1>6 DEF OneHistory, HasWork, Pending
<1>12. WrittenStays'
  <2>1. SUFFICES ASSUME NEW m \in Life
                 PROVE  /\ ses'[m].init = "ok" =>
                              IsPrefix(SubSeq(ses'[m].events, 1, ses'[m].next - 1), log')
                        /\ ses'[m].retire = "done" => IsPrefix(ses'[m].events, log')
    BY DEF WrittenStays
  <2>2. ses[m].events \in Seq(Event) /\ log \in Seq(Event) /\ log' \in Seq(Event) /\ SessionOk(m)
    BY <1>1, SessionShape DEF TypeOK, Sessions
  <2>3. IsPrefix(ses[m].events, ses'[m].events) /\ ses' = ses
    BY <1>2, <2>2, PrefixItself
  <2>4. ses[m].init = "ok" => IsPrefix(SubSeq(ses'[m].events, 1, ses'[m].next - 1), log')
    BY <1>1, <1>5, <2>2, <2>3, StaysWritten DEF WrittenStays
  <2>5. ses[m].retire = "done" => IsPrefix(ses[m].events, log')
    BY <1>1, <1>5, <2>2, PrefixTransitive DEF WrittenStays
  <2>6. QED
    BY <2>3, <2>4, <2>5
<1>13. Callers'
  <2>1. \A k \in Caller : /\ Holder(k)' <=> Holder(k)
                          /\ Committable(k)' <=> Committable(k)
    BY <1>2 DEF Holder, Committable
  <2>2. \A k \in Caller : Committable(k) =>
           ~IsOpen(call[k].source.log) /\ entry.id # call[k].draft
    BY <1>6 DEF IInv, Callers
  <2>3. QED
    BY <1>2, <1>5, <2>1, <2>2, CallersKept
<1>14. Answers'
  BY <1>2 DEF IInv, Answers
<1>15. QED
  BY <1>7, <1>8, <1>9, <1>10, <1>11, <1>12, <1>13, <1>14 DEF IInv

LEMMA ReloadKept ==
    ASSUME IInv, TypeOK', Reload
    PROVE  IInv'
<1>1. TypeOK /\ Sessions
  BY DEF IInv
<1>2. /\ chain = <<>> /\ PartlyAppended(Unflushed)
      /\ state' = NoState /\ entry' = NoEntry /\ UNCHANGED <<call, step>>
  BY DEF Reload
<1>3. IsPrefix(log, log') /\ log \in Seq(Event) /\ log' \in Seq(Event)
  BY <1>1, <1>2, UnflushedShape, PartShape DEF TypeOK
<1>4. Len(log) \in Nat /\ Len(log') \in Nat /\ Len(log) <= Len(log')
  BY <1>3, PrefixAt DEF Begins
<1>5. /\ \A l \in Live : /\ ses'[l].at = "live" /\ ses'[l].events = ses[l].events
                         /\ ses'[l].init = "pending" /\ ~ses'[l].writing
                         /\ ses'[l].next = Len(ses[l].events) + 1
                         /\ ses'[l].retire = "none"
      /\ \A l \in Life \ Live : /\ ses'[l].at \in {"unborn", "lost"}
                                /\ ses'[l].events = <<>> /\ ses'[l].init = "none"
                                /\ ~ses'[l].writing /\ ses'[l].next = 1
                                /\ ses'[l].retire = "none"
      /\ chain' \in Seq(Op)
      /\ Live = {} => chain' = <<>>
      /\ \A l \in Live : Len(chain') = 1
                         /\ chain'[1] = Serialized("created", l, Len(ses[l].events))
  BY ReloadShape
<1>6. state'.owner \notin Life \cup {None}
  BY <1>1, <1>2, StateShape
<1>7. entry'.phase = "absent" /\ entry'.id = None
  BY <1>2 DEF NoEntry
<1>8. step' = "queued"
  BY <1>2 DEF IInv, Steps
<1>9. Live' = Live
  BY <1>5 DEF Live
<1>10. OneLive'
  BY <1>2, <1>9 DEF IInv, OneLive, PreparedOrLive
<1>11. ChainOps' /\ ChainOrder' /\ OwnerAlone' /\ EntryOrder'
  <2>1. CASE Live = {}
    <3>1. Len(chain') = 0
      BY <1>5, <2>1
    <3>2. QED
      BY <1>7, <3>1 DEF ChainOps, ChainOrder, OwnerAlone, EntryOrder
  <2>2. ASSUME NEW l \in Live PROVE ChainOps' /\ ChainOrder' /\ OwnerAlone' /\ EntryOrder'
    <3>1. l \in Life
      BY DEF Live
    <3>2. PICK n \in Nat : n = Len(ses[l].events)
      BY <1>1, <3>1, SessionShape
    <3>3. PICK o \in Op : o = Serialized("created", l, n)
      BY <3>1, <3>2, SerializedTypes
    <3>4. o.op = "created" /\ o.who = l /\ o.upTo = n /\ Len(chain') = 1 /\ chain'[1] = o
      BY <1>5, <3>2, <3>3 DEF Serialized
    <3>5. OpOk(o, TRUE)'
      BY <1>5, <1>6, <3>1, <3>2, <3>4 DEF OpOk, Births
    <3>6. \A i \in 1..Len(chain') : i = 1
      BY <3>4
    <3>7. ChainOps'
      <4>1. SUFFICES ASSUME NEW i \in 1..Len(chain') PROVE OpOk(chain[i], i = 1)'
        BY DEF ChainOps
      <4>2. i = 1
        BY <3>6
      <4>3. QED
        BY <3>4, <3>5, <4>2 DEF OpOk
    <3>8. ChainOrder'
      BY <3>6 DEF ChainOrder
    <3>9. OwnerAlone'
      BY <1>6 DEF OwnerAlone, Live
    <3>10. EntryOrder'
      BY <1>7, <3>4, <3>6 DEF EntryOrder
    <3>11. QED
      BY <3>7, <3>8, <3>9, <3>10
  <2>3. QED
    BY <2>1, <2>2
<1>12. Steps'
  BY <1>8 DEF Steps
<1>13. Tracked'
  BY <1>6 DEF Tracked
<1>14. Sessions'
  <2>1. SUFFICES ASSUME NEW m \in Life PROVE SessionOk(m)'
    BY DEF Sessions
  <2>2. CASE m \in Live
    <3>1. SessionOk(m)
      BY <1>1, <2>1 DEF Sessions
    <3>2. PICK n \in Nat : n = Len(ses[m].events)
      BY <1>1, SessionShape
    <3>3. \A i \in 1..n : i > Len(log') => ses[m].events[i].by # "closer"
      BY <1>4, <3>1, <3>2 DEF SessionOk
    <3>4. QED
      BY <1>5, <2>2, <3>2, <3>3 DEF SessionOk
  <2>3. CASE m \notin Live
    BY <1>5, <2>3 DEF SessionOk
  <2>4. QED
    BY <2>2, <2>3
<1>15. \A m \in Life : ses'[m].init # "ok" /\ ses'[m].retire = "none"
  BY <1>5
<1>16. OneHistory' /\ WrittenStays'
  BY <1>6, <1>15 DEF OneHistory, WrittenStays
<1>17. Callers'
  <2>1. \A k \in Caller : /\ Holder(k)' <=> Holder(k)
                          /\ Committable(k)' <=> Committable(k)
    BY <1>2 DEF Holder, Committable
  <2>2. \A k \in Caller : Committable(k) =>
           Holder(k) /\ ~IsOpen(call[k].source.log) /\ call[k].draft \in Draft
    BY DEF IInv, Callers, Committable, Holder
  <2>3. \A k \in Caller : Committable(k) => entry'.id # call[k].draft
    BY <1>7, <2>2, NoneAssumption
  <2>4. QED
    BY <1>2, <1>3, <2>1, <2>2, <2>3, CallersKept
<1>18. Answers'
  BY <1>2 DEF IInv, Answers
<1>19. QED
  BY <1>10, <1>11, <1>12, <1>13, <1>14, <1>16, <1>17, <1>18 DEF IInv

LEMMA CrashKept ==
    ASSUME IInv, TypeOK', Crash
    PROVE  IInv'
<1>1. /\ state' = NoState /\ entry' = NoEntry /\ chain' = <<>> /\ step' = "queued"
  BY DEF Crash
<1>2. /\ \A l \in Life : /\ ses'[l].at \in {"unborn", "lost"} /\ ses'[l].events = <<>>
                         /\ ses'[l].init = "none" /\ ~ses'[l].writing
                         /\ ses'[l].next = 1 /\ ses'[l].retire = "none"
      /\ \A c \in Caller : call'[c].at = "idle"
  BY CrashShape
<1>3. state'.owner \notin Life \cup {None}
  BY <1>1, StateShape DEF IInv
<1>4. entry'.phase = "absent" /\ Len(chain') = 0
  BY <1>1 DEF NoEntry
<1>5. Live' = {}
  BY <1>2 DEF Live
<1>6. OneLive'
  BY <1>5 DEF OneLive, PreparedOrLive
<1>7. ChainOps' /\ ChainOrder' /\ OwnerAlone' /\ EntryOrder' /\ Steps'
  BY <1>1, <1>4 DEF ChainOps, ChainOrder, OwnerAlone, EntryOrder, Steps
<1>8. Tracked'
  BY <1>3 DEF Tracked
<1>9. Sessions'
  BY <1>2 DEF Sessions, SessionOk
<1>10. OneHistory' /\ WrittenStays'
  BY <1>2, <1>3 DEF OneHistory, WrittenStays
<1>11. Callers' /\ Answers'
  BY <1>2, <1>4 DEF Callers, Answers, Holder, Committable
<1>12. QED
  BY <1>6, <1>7, <1>8, <1>9, <1>10, <1>11 DEF IInv

(* A caller whose reservation the pool has forgotten.                      *)
LEMMA PublishUnknownKept ==
    ASSUME IInv, TypeOK', NEW c \in Caller, PublishUnknown(c)
    PROVE  IInv'
<1>1. CASE entry = NoEntry
  BY <1>1, UnknownKept
<1>2. CASE entry # NoEntry
  <2>1. TypeOK
    BY DEF IInv
  <2>2. /\ Leave(c) /\ call[c].at = "holding"
        /\ UNCHANGED <<log, torn, state, chain, step, ses, entry>>
    BY <1>2 DEF PublishUnknown, Vetoed
  <2>3. Others(c) /\ call'[c].at = "idle"
    BY <2>1, <2>2, LeaveShape
  <2>4. QED
    BY <2>2, <2>3, TurnsAway
<1>3. QED
  BY <1>1, <1>2

-----------------------------------------------------------------------------
(* The head of the chain ends: what is on the chain now was behind it.     *)
LEMMA PopsBehind ==
    ASSUME IInv, chain # <<>>, Pop
    PROVE  /\ \A o : OnChain(o)' => Behind(o)
           /\ \A o : Behind(o) => OnChain(o) /\ o \in Op /\ OpOk(o, FALSE)
                                  /\ InOrder(Head(chain), o)
<1>1. chain \in Seq(Op) /\ chain' = Tail(chain)
  BY DEF IInv, TypeOK, Pop
<1>2. PICK n \in Nat \ {0} : n = Len(chain)
  BY <1>1, Popped
<1>3. Len(chain') = n - 1 /\ \A i \in 1..(n - 1) : chain'[i] = chain[i + 1]
  BY <1>1, <1>2, Popped
<1>4. \A o : OnChain(o)' => Behind(o)
  <2>1. SUFFICES ASSUME NEW i \in 1..(n - 1) PROVE Behind(chain'[i])
    BY <1>3 DEF OnChain
  <2>2. i + 1 \in 2..n /\ chain'[i] = chain[i + 1]
    BY <1>3
  <2>3. QED
    BY <1>2, <2>2 DEF Behind
<1>5. ASSUME NEW i \in 2..n
      PROVE  OnChain(chain[i]) /\ chain[i] \in Op /\ OpOk(chain[i], FALSE)
             /\ InOrder(Head(chain), chain[i])
  <2>1. i \in 1..n /\ i > 1
    BY <1>5
  <2>2. QED
    BY <1>2, <1>5, <2>1, HeadShape DEF OnChain
<1>6. QED
  BY <1>2, <1>4, <1>5 DEF Behind

(* A commit or a check ends and its caller has the answer.                 *)
LEMMA AnswersCaller ==
    ASSUME IInv, TypeOK', chain # <<>>, Head(chain).op \in {"commit", "check"}, Pop,
           UNCHANGED <<ses, entry>>, NEW b \in Caller, b = Who, Others(b),
           call'[b].draft = call[b].draft, call'[b].source = call[b].source,
           Head(chain).op = "commit" =>
              call'[b].at = "committed" /\ call'[b].outcome \in {"ok", "stale", "error"},
           Head(chain).op = "check" =>
              call'[b].at = "checked" /\ call'[b].outcome \in {"ok", "stale", "error"},
           IsPrefix(log, log'),
           \/ state'.owner = state.owner
           \/ Head(chain).op = "commit" /\ state'.owner = None,
           Tracked', Sessions', OneHistory', WrittenStays', Callers'
    PROVE  IInv'
<1>1. TypeOK
  BY DEF IInv
<1>2. call[b].at = IF Head(chain).op = "commit" THEN "committing" ELSE "checking"
  <2>1. OpOk(Head(chain), TRUE) /\ Head(chain).who = b
    BY HeadShape DEF Who
  <2>2. QED
    BY <2>1 DEF OpOk
<1>3. ASSUME NEW o \in Op, Behind(o)
      PROVE  /\ OpOk(o, FALSE) /\ InOrder(Head(chain), o)
             /\ o.op \in {"commit", "check"} => o.who \in Caller /\ o.who # b
             /\ Head(chain).op = "commit" => o.op # "suffix"
             /\ o.op = "created" => o.who \in Life
  <2>1. OpOk(o, FALSE) /\ InOrder(Head(chain), o)
    BY <1>3, PopsBehind
  <2>2. QED
    BY <1>2, <2>1 DEF OpOk, InOrder, Births, Who
<1>4. ASSUME NEW o \in Op, Behind(o), OpOk(o, FALSE) PROVE OpOk(o, FALSE)'
  <2>1. o.op \in {"commit", "check"} => call'[o.who].at = call[o.who].at
    BY <1>3, <1>4 DEF Others
  <2>2. o.op = "suffix" => state'.owner = state.owner
    BY <1>3, <1>4
  <2>3. o.op = "created" => state'.owner = state.owner \/ state'.owner # o.who
    BY <1>3, <1>4, NoneAssumption
  <2>4. o.op \in Births \cup {"batch", "forget"} =>
           Len(ses[o.who].events) <= Len(ses'[o.who].events)
    <3>1. o.op \in Births \cup {"batch", "forget"} => o.who \in Life
      BY <1>4 DEF OpOk
    <3>2. QED
      BY <1>1, <3>1, SessionShape
  <2>5. QED
    BY <1>1, <1>4, <2>1, <2>2, <2>3, <2>4, OpKept
<1>5. Live' = Live /\ Live \subseteq Life
  BY DEF Live
<1>6. ChainOps' /\ ChainOrder' /\ OwnerAlone' /\ Steps'
  <2>1. \/ state'.owner = state.owner
        \/ \A i \in 2..Len(chain) : chain[i].op \in Births => state'.owner \notin Live'
    BY <1>5, NoneAssumption
  <2>2. \A o \in Op : Behind(o) /\ OpOk(o, FALSE) => OpOk(o, FALSE)'
    BY <1>4
  <2>3. QED
    BY <1>5, <2>1, <2>2, ChainPops
<1>7. OneLive'
  BY <1>5 DEF IInv, OneLive, PreparedOrLive
<1>8. EntryOrder'
  <2>1. \A o \in Op : OnChain(o)' /\ Concerns(o) => OnChain(o)
    BY PopsBehind
  <2>2. \A o \in Op : OnChain(o)' /\ o.op = "commit" => call'[o.who] = call[o.who]
    BY <1>3, PopsBehind DEF Others
  <2>3. Len(log) <= Len(log')
    <3>1. log \in Seq(Event) /\ log' \in Seq(Event)
      BY <1>1 DEF TypeOK
    <3>2. QED
      BY <3>1, PrefixAt DEF Begins
  <2>4. entry.phase = "loading" => \E j \in 1..Len(chain') : LoadAt(j)'
    BY LoadPops
  <2>5. QED
    BY <2>1, <2>2, <2>3, <2>4, EntryKept
<1>9. Answers'
  <2>1. \A c \in Caller : c # b => call'[c] = call[c]
    BY DEF Others
  <2>2. QED
    BY <2>1 DEF IInv, Answers
<1>10. QED
  BY <1>6, <1>7, <1>8, <1>9 DEF IInv

(* The running operation goes on and has only found something out.         *)
LEMMA StepAdvances ==
    ASSUME IInv, TypeOK', UNCHANGED <<log, state, entry, call, chain, ses>>,
           torn' = torn \/ ~torn', step # "append", Steps'
    PROVE  IInv'
<1>1. TypeOK
  BY DEF IInv
<1>2. Tracked' /\ Sessions' /\ OneHistory' /\ WrittenStays' /\ Live' = Live
  BY SessionsStay
<1>3. ASSUME NEW o \in Op, NEW f \in BOOLEAN, OpOk(o, f) PROVE OpOk(o, f)'
  <2>1. o.op \in Births \cup {"batch", "forget"} =>
           Len(ses[o.who].events) <= Len(ses'[o.who].events)
    <3>1. o.op \in Births \cup {"batch", "forget"} => o.who \in Life
      BY <1>3 DEF OpOk
    <3>2. QED
      BY <1>1, <3>1, SessionShape
  <2>2. QED
    BY <1>1, <1>3, <2>1, OpKept
<1>4. ChainOps' /\ ChainOrder' /\ OwnerAlone'
  <2>1. \A o \in Op, f \in BOOLEAN : OnChain(o) /\ OpOk(o, f) => OpOk(o, f)'
    BY <1>3
  <2>2. QED
    BY <1>2, <2>1, ChainStays
<1>5. OneLive'
  BY <1>2 DEF IInv, OneLive, PreparedOrLive
<1>6. EntryOrder'
  BY DEF IInv, EntryOrder, LoadAt
<1>7. Callers'
  <2>1. \A c \in Caller : Holder(c)' => Holder(c)
    BY DEF Holder
  <2>2. \A c \in Caller : Committable(c)' => Committable(c)
    BY DEF Committable
  <2>3. QED
    BY <2>1, <2>2, CallersStay
<1>8. Answers'
  BY DEF IInv, Answers
<1>9. QED
  BY <1>2, <1>4, <1>5, <1>6, <1>7, <1>8 DEF IInv

(* A commit ends without a reservation.                                    *)
LEMMA CommitGivesUp ==
    ASSUME IInv, TypeOK', chain # <<>>, Head(chain).op = "commit",
           NEW outcome \in {"stale", "error"}, CommitEnds(outcome),
           UNCHANGED <<log, state, entry, ses>>, torn' = torn \/ ~torn'
    PROVE  IInv'
<1>1. TypeOK
  BY DEF IInv
<1>2. PICK b \in Caller : b = Who /\ call[b].at = "committing" /\ Holder(b)
  BY HeadCommits
<1>3. /\ Others(b) /\ call'[b].at = "committed" /\ call'[b].outcome = outcome
      /\ call'[b].draft = call[b].draft /\ call'[b].source = call[b].source /\ Pop
  BY <1>1, <1>2, CommitEndsShape
<1>4. Tracked' /\ Sessions' /\ OneHistory' /\ WrittenStays'
  BY SessionsStay
<1>5. Callers'
  <2>1. ASSUME NEW c \in Caller, Holder(c)'
        PROVE  /\ Holder(c)
               /\ call'[c].draft = call[c].draft
               /\ call'[c].source = call[c].source
               /\ call'[c].at = "holding" <=> call[c].at = "holding"
    BY <1>2, <1>3, <2>1 DEF Holder, Others
  <2>2. \A c \in Caller : Committable(c)' => Committable(c)
    BY <1>3 DEF Committable, Others
  <2>3. QED
    BY <2>1, <2>2, CallersStay
<1>6. IsPrefix(log, log')
  BY <1>1, PrefixItself DEF TypeOK
<1>7. QED
  BY <1>2, <1>3, <1>4, <1>5, <1>6, AnswersCaller

LEMMA CommitStartsKept ==
    ASSUME IInv, TypeOK', CommitStarts
    PROVE  IInv'
<1>1. chain # <<>> /\ Head(chain).op = "commit" /\ step = "queued"
  BY DEF CommitStarts, Running
<1>2. CASE Owned
  <2>1. CommitEnds("error") /\ UNCHANGED <<log, torn, state, entry, ses>>
    BY <1>2 DEF CommitStarts, CommitEnds
  <2>2. QED
    BY <1>1, <2>1, CommitGivesUp
<1>3. CASE ~Owned
  <2>1. step' = "revision" /\ UNCHANGED <<log, torn, state, entry, call, chain, ses>>
    BY <1>3 DEF CommitStarts, Proceed
  <2>2. Steps'
    BY <1>1, <1>3, <2>1 DEF Steps, Owned
  <2>3. QED
    BY <1>1, <2>1, <2>2, StepAdvances
<1>4. QED
  BY <1>2, <1>3

LEMMA CommitChecksKept ==
    ASSUME IInv, TypeOK', CommitChecks
    PROVE  IInv'
<1>1. TypeOK /\ Tracked
  BY DEF IInv
<1>2. /\ chain # <<>> /\ Head(chain).op = "commit" /\ step = "revision"
      /\ UNCHANGED <<log, torn, entry, ses>>
  BY DEF CommitChecks, Running
<1>3. PICK b \in Caller : /\ b = Who /\ call[b].at = "committing" /\ Holder(b)
                          /\ Good(call[b].source) /\ call[b].source \in Source
  BY <1>2, HeadCommits
<1>4. ~Owned /\ (state = NoState \/ state.owner = None)
  BY <1>2 DEF IInv, Steps, Owned
<1>5. CASE ~IsCurrent(call[b].source)
  <2>1. CommitEnds("stale") /\ UNCHANGED state
    BY <1>3, <1>5 DEF CommitChecks
  <2>2. QED
    BY <1>2, <2>1, CommitGivesUp
<1>6. ASSUME IsCurrent(call[b].source)
      PROVE  call[b].source.log = log /\ call[b].source.torn = torn
  BY <1>6 DEF IsCurrent, disk
<1>7. CASE /\ IsCurrent(call[b].source)
           /\ call[b].source.torn \/ IsOpen(call[b].source.log)
  <2>1. Proceed("repair") /\ UNCHANGED <<state, call>>
    BY <1>3, <1>7 DEF CommitChecks
  <2>2. torn \/ IsOpen(log)
    BY <1>6, <1>7
  <2>3. state = NoState
    BY <1>1, <1>4, <2>2 DEF Tracked
  <2>4. entry.id = call[b].draft
    <3>1. PICK o \in Op : OnChain(o) /\ o.op = "commit" /\ o.who = b
      <4>1. PICK n \in Nat \ {0} : n = Len(chain) /\ Head(chain) = chain[1] /\ Head(chain) \in Op
        BY <1>2, HeadShape
      <4>2. OnChain(Head(chain))
        BY <4>1 DEF OnChain
      <4>3. QED
        BY <1>2, <1>3, <4>1, <4>2 DEF Who
    <3>2. \/ entry.id = call[b].draft
          \/ Len(call[b].source.log) < Len(log) /\ Len(log) \in Nat
      BY <1>6, <1>7, <3>1, CommitterHolds
    <3>3. QED
      BY <1>6, <1>7, <3>2
  <2>5. Steps'
    BY <1>2, <1>3, <1>4, <2>1, <2>3, <2>4 DEF Steps, Owned, Proceed, Who
  <2>6. QED
    BY <1>2, <2>1, <2>5, StepAdvances DEF Proceed
<1>8. CASE IsCurrent(call[b].source) /\ ~call[b].source.torn /\ ~IsOpen(call[b].source.log)
  <2>1. /\ CommitEnds("ok")
        /\ state' = [cursor |-> Len(log), materialized |-> TRUE, owner |-> None]
    BY <1>3, <1>6, <1>8 DEF CommitChecks
  <2>2. ~torn /\ ~IsOpen(log) /\ call[b].source.log = log
    BY <1>6, <1>8
  <2>3. /\ Others(b) /\ call'[b].at = "committed" /\ call'[b].outcome = "ok"
        /\ call'[b].draft = call[b].draft /\ call'[b].source = call[b].source /\ Pop
    BY <1>1, <1>3, <2>1, CommitEndsShape
  <2>4. state'.owner = None /\ state'.cursor = Len(log)
    BY <2>1
  <2>5. state.owner \notin Life
    BY <1>1, <1>4, StateShape
  <2>6. Tracked'
    BY <1>2, <2>2, <2>4, NoneAssumption DEF Tracked
  <2>7. Sessions'
    BY <1>2, <2>5 DEF IInv, Sessions, SessionOk, HasWork, Pending
  <2>8. OneHistory'
    BY <1>2, <2>4, <2>5, NoneAssumption DEF IInv, OneHistory, HasWork, Pending
  <2>9. WrittenStays'
    BY <1>2 DEF IInv, WrittenStays
  <2>10. IsPrefix(log, log')
    BY <1>1, <1>2, PrefixItself DEF TypeOK
  <2>11. Callers'
    <3>1. ASSUME NEW c \in Caller, Holder(c)'
          PROVE  /\ Holder(c)
                 /\ call'[c].draft = call[c].draft
                 /\ call'[c].source = call[c].source
                 /\ call'[c].at = "holding" <=> call[c].at = "holding"
      BY <1>3, <2>3, <3>1 DEF Holder, Others
    <3>2. ASSUME NEW c \in Caller, Committable(c)'
          PROVE  /\ ~IsOpen(call[c].source.log)
                 /\ entry'.id = call[c].draft =>
                       call[c].source.log = log' /\ ~torn' /\ state'.owner = None
      <4>1. CASE c = b
        BY <1>2, <2>2, <2>4, <4>1
      <4>2. CASE c # b
        <5>1. Committable(c)
          BY <2>3, <3>2, <4>2 DEF Committable, Others
        <5>2. QED
          BY <1>2, <2>4, <5>1 DEF IInv, Callers
      <4>3. QED
        BY <4>1, <4>2
    <3>3. QED
      BY <1>2, <2>10, <3>1, <3>2, CallersKept
  <2>12. QED
    BY <1>2, <1>3, <2>3, <2>4, <2>6, <2>7, <2>8, <2>9, <2>10, <2>11, AnswersCaller
<1>9. QED
  BY <1>5, <1>7, <1>8

LEMMA RepairTruncatesKept ==
    ASSUME IInv, TypeOK', RepairTruncates
    PROVE  IInv'
<1>1. /\ chain # <<>> /\ Head(chain).op = "commit" /\ step = "repair"
      /\ ~torn' /\ UNCHANGED <<log, state, entry, ses>>
  BY DEF RepairTruncates, Running
<1>2. CASE IsOpen(log)
  <2>1. UNCHANGED <<chain, step, call>>
    BY <1>2 DEF RepairTruncates
  <2>2. Steps'
    BY <1>1, <2>1 DEF IInv, Steps, Owned, Who
  <2>3. QED
    BY <1>1, <2>1, <2>2, StepAdvances
<1>3. CASE ~IsOpen(log)
  <2>1. CommitEnds("stale")
    BY <1>3 DEF RepairTruncates
  <2>2. QED
    BY <1>1, <2>1, CommitGivesUp
<1>4. QED
  BY <1>2, <1>3

LEMMA CommitFailsKept ==
    ASSUME IInv, TypeOK', CommitFails
    PROVE  IInv'
<1>1. /\ chain # <<>> /\ Head(chain).op = "commit" /\ CommitEnds("error")
      /\ torn' \in {torn, FALSE} /\ UNCHANGED <<log, state, entry, ses>>
  BY DEF CommitFails, Running
<1>2. QED
  BY <1>1, CommitGivesUp

(* The log grows by the closers; no Session is there to write it, and the  *)
(* repairing commit still has the entry, so no other reservation counts.   *)
LEMMA RepairClosesKept ==
    ASSUME IInv, TypeOK', RepairCloses
    PROVE  IInv'
<1>1. TypeOK
  BY DEF IInv
<1>2. /\ chain # <<>> /\ Head(chain).op = "commit" /\ step = "repair"
      /\ log' = log \o Closers(log) /\ CommitEnds("stale")
      /\ UNCHANGED <<torn, state, entry, ses>>
  BY DEF RepairCloses, Running
<1>3. PICK b \in Caller : b = Who /\ call[b].at = "committing" /\ Holder(b)
  BY <1>2, HeadCommits
<1>4. state = NoState /\ entry.id = call[b].draft /\ Live = {} /\ NobodyWrites
  BY <1>2, <1>3, RepairsNobody
<1>5. state.owner \notin Life \cup {None}
  BY <1>1, <1>4, StateShape
<1>6. /\ Others(b) /\ call'[b].at = "committed" /\ call'[b].outcome = "stale"
      /\ call'[b].draft = call[b].draft /\ call'[b].source = call[b].source /\ Pop
  BY <1>1, <1>2, <1>3, CommitEndsShape
<1>7. log \in Seq(Event) /\ log' \in Seq(Event) /\ IsPrefix(log, log')
  BY <1>1, <1>2, Closing, Joined DEF TypeOK
<1>8. Len(log) \in Nat /\ Len(log') \in Nat /\ Len(log) <= Len(log')
  BY <1>7, PrefixAt DEF Begins
<1>9. Tracked'
  BY <1>2, <1>5 DEF Tracked
<1>10. Sessions'
  <2>1. SUFFICES ASSUME NEW l \in Life PROVE SessionOk(l)'
    BY DEF Sessions
  <2>2. SessionOk(l) /\ Len(ses[l].events) \in Nat
    BY <1>1, SessionShape DEF IInv, Sessions
  <2>3. \A n \in 1..Len(ses[l].events) : n > Len(log') => ses[l].events[n].by # "closer"
    BY <1>8, <2>2 DEF SessionOk
  <2>4. QED
    BY <1>2, <2>2, <2>3 DEF SessionOk, HasWork, Pending
<1>11. OneHistory'
  BY <1>2, <1>4, <1>5 DEF OneHistory, NobodyWrites, HasWork, Pending
<1>12. WrittenStays'
  <2>1. SUFFICES ASSUME NEW l \in Life
                 PROVE  /\ ses[l].init = "ok" =>
                              IsPrefix(SubSeq(ses[l].events, 1, ses[l].next - 1), log')
                        /\ ses[l].retire = "done" => IsPrefix(ses[l].events, log')
    BY <1>2 DEF WrittenStays
  <2>2. ses[l].events \in Seq(Event) /\ SessionOk(l) /\ IsPrefix(ses[l].events, ses[l].events)
    BY <1>1, SessionShape, PrefixItself DEF IInv, Sessions
  <2>3. /\ ses[l].init = "ok" => IsPrefix(SubSeq(ses[l].events, 1, ses[l].next - 1), log)
        /\ ses[l].retire = "done" => IsPrefix(ses[l].events, log)
    BY DEF IInv, WrittenStays
  <2>4. ses[l].retire = "done" => IsPrefix(ses[l].events, log')
    BY <1>7, <2>2, <2>3, PrefixTransitive
  <2>5. ses'[l] = ses[l]
    BY <1>2
  <2>6. ses[l].init = "ok" => IsPrefix(SubSeq(ses[l].events, 1, ses[l].next - 1), log')
    BY <1>1, <1>7, <2>2, <2>3, <2>5, StaysWritten
  <2>7. QED
    BY <2>4, <2>6
<1>13. Callers'
  <2>1. ASSUME NEW c \in Caller, Holder(c)'
        PROVE  /\ Holder(c)
               /\ call'[c].draft = call[c].draft
               /\ call'[c].source = call[c].source
               /\ call'[c].at = "holding" <=> call[c].at = "holding"
    BY <1>3, <1>6, <2>1 DEF Holder, Others
  <2>2. ASSUME NEW c \in Caller, Committable(c)'
        PROVE  ~IsOpen(call[c].source.log) /\ entry'.id # call[c].draft
    <3>1. c # b
      BY <1>6, <2>2 DEF Committable
    <3>2. Committable(c) /\ Holder(c)
      BY <1>6, <2>2, <3>1 DEF Committable, Holder, Others
    <3>3. ~IsOpen(call[c].source.log)
      BY <3>2 DEF IInv, Callers
    <3>4. entry.id # call[c].draft
      BY <1>3, <1>4, <3>1, <3>2, HeldOnce
    <3>5. QED
      BY <1>2, <3>3, <3>4
  <2>3. QED
    BY <1>2, <1>7, <2>1, <2>2, CallersKept
<1>14. QED
  BY <1>2, <1>3, <1>6, <1>7, <1>9, <1>10, <1>11, <1>12, <1>13, AnswersCaller

LEMMA CheckKept ==
    ASSUME IInv, TypeOK', Check \/ CheckFails
    PROVE  IInv'
<1>1. TypeOK
  BY DEF IInv
<1>2. /\ chain # <<>> /\ Head(chain).op = "check" /\ Pop
      /\ UNCHANGED <<log, torn, state, entry, ses>>
  BY DEF Check, CheckFails, Running
<1>3. PICK b \in Caller : b = Who /\ call[b].at = "checking"
  <2>1. OpOk(Head(chain), TRUE)
    BY <1>2, HeadShape
  <2>2. QED
    BY <1>2, <2>1 DEF OpOk, Who
<1>4. PICK v \in {"ok", "stale", "error"} :
         call' = [call EXCEPT ![b].at = "checked", ![b].outcome = v]
  BY <1>3 DEF Check, CheckFails
<1>5. /\ Others(b) /\ call'[b].at = "checked" /\ call'[b].outcome = v
      /\ call'[b].draft = call[b].draft /\ call'[b].source = call[b].source
  <2>1. call \in [Caller -> Call]
    BY <1>1 DEF TypeOK
  <2>2. PICK f : Placed(f, call, b, "checked")
    BY DEF Placed
  <2>3. Ended(call', f, b, v)
    BY <1>4, <2>2 DEF Placed, Ended
  <2>4. "checked" \in Place
    BY DEF Place
  <2>5. /\ f \in [Caller -> Call] /\ \A k \in Caller : k # b => f[k] = call[k]
        /\ f[b].at = "checked" /\ f[b].draft = call[b].draft /\ f[b].source = call[b].source
    BY <2>1, <2>2, <2>4, PlaceSet
  <2>6. QED
    BY <2>3, <2>5, OutcomeSet DEF Others
<1>6. Tracked' /\ Sessions' /\ OneHistory' /\ WrittenStays'
  BY <1>2, SessionsStay
<1>7. Callers'
  <2>1. ASSUME NEW c \in Caller, Holder(c)' PROVE Holder(c) /\ call'[c] = call[c]
    BY <1>5, <2>1 DEF Holder, Others
  <2>2. \A c \in Caller : Committable(c)' => Committable(c)
    BY <1>5 DEF Committable, Others
  <2>3. QED
    BY <1>2, <2>1, <2>2, CallersStay
<1>8. IsPrefix(log, log')
  BY <1>1, <1>2, PrefixItself DEF TypeOK
<1>9. QED
  BY <1>2, <1>3, <1>4, <1>5, <1>6, <1>7, <1>8, AnswersCaller

(* The stored log has been read: the entry that stands for the read is     *)
(* ready, with what the log is now, or gone.                               *)
LEMMA LoadKept ==
    ASSUME IInv, TypeOK', Load \/ LoadFails
    PROVE  IInv'
<1>1. TypeOK
  BY DEF IInv
<1>2. /\ chain # <<>> /\ Head(chain).op = "load" /\ Pop
      /\ UNCHANGED <<log, torn, state, ses>>
  BY DEF Load, LoadFails, Running
<1>3. PICK d \in Draft : d = Who
  <2>1. OpOk(Head(chain), TRUE)
    BY <1>2, HeadShape
  <2>2. QED
    BY <1>2, <2>1 DEF OpOk, Who
<1>4. PICK s \in Source : s = SourceOf(d) /\ Good(s) /\ Len(s.session) = Base(s)
  BY <1>1, Reading
<1>5. \/ /\ call' = Answered(d, Missing)
         /\ entry' = Removed(d)
      \/ /\ Live = {} /\ call' = Answered(d, s)
         /\ entry' = IF entry.id = d
                     THEN [entry EXCEPT !.phase = "ready", !.source = s] ELSE entry
  BY <1>3, <1>4 DEF Load, LoadFails
<1>6. \A c \in Caller : /\ call'[c].at = call[c].at /\ call'[c].draft = call[c].draft
                        /\ call'[c].outcome = call[c].outcome
                        /\ call[c].at # "loading" => call'[c] = call[c]
  BY <1>1, <1>4, <1>5, AnsweredShape, MissingTypes
<1>7. Tracked' /\ Sessions' /\ OneHistory' /\ WrittenStays' /\ Live' = Live
  BY <1>2, SessionsStay
<1>8. ASSUME NEW o \in Op, Behind(o)
      PROVE  /\ OpOk(o, FALSE) /\ (o.op = "load" => o.who # d)
             /\ o.op \in {"commit", "check"} =>
                   /\ o.who \in Caller /\ call'[o.who] = call[o.who]
  <2>1. OpOk(o, FALSE) /\ InOrder(Head(chain), o)
    BY <1>2, <1>8, PopsBehind
  <2>2. o.op = "load" => o.who # d
    BY <1>2, <1>3, <2>1 DEF InOrder, Who
  <2>3. o.op \in {"commit", "check"} =>
           o.who \in Caller /\ call[o.who].at \in {"committing", "checking"}
    BY <2>1 DEF OpOk
  <2>4. QED
    BY <1>6, <2>1, <2>2, <2>3
<1>9. ChainOps' /\ ChainOrder' /\ OwnerAlone' /\ Steps'
  <2>1. ASSUME NEW o \in Op, Behind(o), OpOk(o, FALSE) PROVE OpOk(o, FALSE)'
    <3>1. o.op \in Births \cup {"batch", "forget"} => o.who \in Life
      BY <2>1 DEF OpOk
    <3>2. o.op \in Births \cup {"batch", "forget"} =>
             Len(ses[o.who].events) <= Len(ses'[o.who].events)
      BY <1>1, <1>2, <3>1, SessionShape
    <3>3. QED
      BY <1>1, <1>2, <1>8, <2>1, <3>2, OpKept
  <2>2. \A o \in Op : Behind(o) /\ OpOk(o, FALSE) => OpOk(o, FALSE)'
    BY <2>1
  <2>3. QED
    BY <1>2, <1>7, <2>2, ChainPops
<1>10. Answers'
  BY <1>6 DEF IInv, Answers
<1>11. ASSUME entry.id = d
       PROVE  /\ entry \in Entry /\ entry.phase = "loading"
              /\ \A o : Behind(o) => o.op \notin Births \cup {"commit"}
              /\ \A c \in Caller : Holder(c) => call[c].draft # d
  <2>1. PICK n \in Nat \ {0} : n = Len(chain) /\ Head(chain) = chain[1] /\ Who = chain[1].who
    BY <1>2, HeadShape
  <2>2. entry.phase \notin {"ready", "committing", "reserved"}
    BY <1>2, <1>3, <1>11, <2>1 DEF IInv, EntryOrder
  <2>3. entry \in Entry /\ entry.phase = "loading"
    <3>1. entry \in Entry
      BY <1>1, <1>11, EntryShape
    <3>2. QED
      BY <2>2, <3>1 DEF Entry
  <2>4. PICK j \in 1..n : LoadAt(j)
    BY <2>1, <2>3 DEF IInv, EntryOrder
  <2>5. j = 1
    <3>1. SUFFICES ASSUME j # 1 PROVE FALSE
      OBVIOUS
    <3>2. j \in 2..n
      BY <2>1, <3>1
    <3>3. InOrder(chain[1], chain[j])
      BY <1>2, <2>1, <3>2, HeadShape
    <3>4. QED
      BY <1>2, <1>3, <1>11, <2>1, <2>4, <3>3 DEF InOrder, LoadAt
  <2>6. \A i \in 2..n : chain[i].op \notin Births \cup {"commit"}
    BY <2>1, <2>4, <2>5 DEF LoadAt
  <2>7. \A c \in Caller : Holder(c) => call[c].draft # d
    BY <1>11, <2>3 DEF IInv, Callers
  <2>8. QED
    BY <2>1, <2>3, <2>6, <2>7 DEF Behind
<1>12. CASE entry' = entry /\ entry.id # d
  <2>1. OneLive'
    BY <1>7, <1>12 DEF IInv, OneLive, PreparedOrLive
  <2>2. EntryOrder'
    <3>1. \A o \in Op : OnChain(o)' /\ Concerns(o) => OnChain(o)
      BY <1>2, PopsBehind
    <3>2. \A o \in Op : OnChain(o)' /\ o.op = "commit" => call'[o.who] = call[o.who]
      BY <1>2, <1>8, PopsBehind
    <3>3. Len(log) <= Len(log')
      BY <1>1, <1>2, LenProperties DEF TypeOK
    <3>4. entry.phase = "loading" => \E j \in 1..Len(chain') : LoadAt(j)'
      BY <1>2, <1>3, <1>12, LoadPops
    <3>5. QED
      BY <1>12, <3>1, <3>2, <3>3, <3>4, EntryKept
  <2>3. Callers'
    <3>1. \A c \in Caller : Holder(c)' => Holder(c) /\ call'[c] = call[c]
      BY <1>6 DEF Holder
    <3>2. \A c \in Caller : Committable(c)' => Committable(c)
      BY <1>6 DEF Committable
    <3>3. QED
      BY <1>2, <1>12, <3>1, <3>2, CallersStay
  <2>4. QED
    BY <1>7, <1>9, <1>10, <2>1, <2>2, <2>3 DEF IInv
<1>13. CASE entry' = NoEntry /\ entry.id = d
  <2>1. OneLive'
    BY <1>7, <1>13 DEF IInv, OneLive, PreparedOrLive
  <2>2. EntryOrder'
    <3>1. \A o \in Op : OnChain(o)' /\ Concerns(o) => OnChain(o)
      BY <1>2, PopsBehind
    <3>2. \A o \in Op : OnChain(o)' => o.op # "commit"
      BY <1>2, <1>11, <1>13, PopsBehind
    <3>3. Len(log) <= Len(log')
      BY <1>1, <1>2, LenProperties DEF TypeOK
    <3>4. QED
      BY <1>13, <3>1, <3>2, <3>3, EntryKept
  <2>3. Callers'
    <3>1. \A c \in Caller : Holder(c)' => Holder(c) /\ call'[c] = call[c]
      BY <1>6 DEF Holder
    <3>2. \A c \in Caller : Committable(c)' => Committable(c)
      BY <1>6 DEF Committable
    <3>3. QED
      BY <1>2, <1>13, <3>1, <3>2, CallersStay
  <2>4. QED
    BY <1>7, <1>9, <1>10, <2>1, <2>2, <2>3 DEF IInv
<1>14. CASE /\ Live = {} /\ entry.id = d
            /\ entry' = [entry EXCEPT !.phase = "ready", !.source = s]
  <2>1. entry'.id = d /\ entry'.phase = "ready" /\ entry'.source = s
    <3>1. entry.id = d /\ entry \in Entry
      BY <1>11, <1>14
    <3>2. PICK e : e = [entry EXCEPT !.phase = "ready"]
      OBVIOUS
    <3>3. e \in Entry /\ e.id = d /\ e.phase = "ready"
      BY <3>1, <3>2 DEF Entry
    <3>4. entry' = [e EXCEPT !.source = s]
      BY <1>14, <3>2
    <3>5. QED
      BY <3>3, <3>4 DEF Entry
  <2>2. OneLive'
    BY <1>7, <1>14 DEF IInv, OneLive, PreparedOrLive
  <2>3. EntryOrder'
    <3>1. ASSUME NEW i \in 1..Len(chain')
          PROVE  /\ chain'[i].op \notin Births \cup {"commit"}
                 /\ chain'[i].op = "load" => chain'[i].who # d
      <4>1. PICK o : o = chain'[i] /\ Behind(o) /\ o \in Op
        BY <1>2, PopsBehind DEF OnChain
      <4>2. QED
        BY <1>8, <1>11, <1>14, <4>1
    <3>2. QED
      BY <2>1, <3>1 DEF EntryOrder
  <2>4. Callers'
    <3>1. Good(s)' /\ Len(s.session) = Base(s)'
      BY <1>2, <1>4 DEF Good, Base
    <3>2. Good(entry.source)' /\ Len(entry'.source.session) = Base(entry'.source)
      BY <2>1, <3>1 DEF Good, Base
    <3>3. ASSUME NEW c \in Caller, Holder(c)'
          PROVE  /\ Holder(c) /\ call'[c] = call[c] /\ entry'.id # call'[c].draft
                 /\ call'[c].draft \in Draft /\ Good(call[c].source)'
      <4>1. Holder(c) /\ call'[c] = call[c]
        BY <1>6, <3>3 DEF Holder
      <4>2. call[c].draft \in Draft /\ Good(call[c].source) /\ call[c].draft # d
        BY <1>11, <1>14, <4>1 DEF IInv, Callers
      <4>3. Good(call[c].source)'
        BY <1>2, <4>1, <4>2 DEF Good, Base
      <4>4. QED
        BY <2>1, <4>1, <4>2, <4>3
    <3>4. \A c, k \in Caller : Holder(c)' /\ Holder(k)' /\ call'[k].draft = call'[c].draft => k = c
      BY <3>3 DEF IInv, Callers
    <3>5. ASSUME NEW c \in Caller, Committable(c)'
          PROVE  ~IsOpen(call'[c].source.log) /\ entry'.id # call'[c].draft
      <4>1. Holder(c)' /\ Committable(c)
        BY <1>6, <3>5 DEF Committable, Holder
      <4>2. QED
        BY <3>3, <4>1 DEF IInv, Callers
    <3>6. QED
      BY <2>1, <3>2, <3>3, <3>4, <3>5 DEF Callers
  <2>5. QED
    BY <1>7, <1>9, <1>10, <2>2, <2>3, <2>4 DEF IInv
<1>15. QED
  BY <1>5, <1>12, <1>13, <1>14 DEF Removed

-----------------------------------------------------------------------------
(* An operation on a Session ends; those behind it are on other Sessions.  *)
LEMMA WriterAlone ==
    ASSUME IInv, chain # <<>>, Head(chain).op \in Births \cup {"batch", "forget"}, Pop,
           NEW o \in Op, Behind(o)
    PROVE  /\ OpOk(o, FALSE) /\ InOrder(Head(chain), o)
           /\ o.op \in Births \cup {"batch", "forget"} => o.who \in Life /\ o.who # Who
           /\ Head(chain).op \in Births => o.op # "suffix"
<1>1. OpOk(o, FALSE) /\ InOrder(Head(chain), o)
  BY PopsBehind
<1>2. Head(chain).op \in Births => o.op # "suffix"
  BY <1>1 DEF InOrder
<1>3. o.op \in Births \cup {"batch", "forget"} => o.who \in Life
  BY <1>1 DEF OpOk
<1>4. o.op \in Births /\ Head(chain).op \in Births => o.who # Who
  BY <1>1 DEF InOrder, Who
<1>5. o.op = Head(chain).op => o.who # Who
  BY <1>1 DEF InOrder, Who
<1>6. o.op \in Births => ses[o.who].init = "pending"
  BY <1>1 DEF OpOk
<1>7. o.op \in {"batch", "forget"} => ses[o.who].init = "ok"
  BY <1>1, <1>3 DEF OpOk, IInv, Sessions, SessionOk
<1>8. Head(chain).op \in Births => ses[Who].init = "pending"
  BY HeadInitializes
<1>9. Head(chain).op \in {"batch", "forget"} => ses[Who].init = "ok"
  BY HeadWrites
<1>10. o.op = "batch" /\ Head(chain).op = "forget" => o.who # Who
  <2>1. o.op = "batch" => HasWork(o.who)
    BY <1>1 DEF OpOk, HasWork
  <2>2. Head(chain).op = "forget" => ~HasWork(Who)
    BY HeadWrites
  <2>3. QED
    BY <2>1, <2>2
<1>11. o.op = "forget" /\ Head(chain).op = "batch" => o.who # Who
  <2>1. o.op = "forget" => ~HasWork(o.who)
    BY <1>1, <1>3 DEF OpOk, IInv, Sessions, SessionOk
  <2>2. Head(chain).op = "batch" => HasWork(Who)
    BY HeadWrites
  <2>3. QED
    BY <2>1, <2>2
<1>12. o.op \in Births \cup {"batch", "forget"} => o.who # Who
  BY <1>4, <1>5, <1>6, <1>7, <1>8, <1>9, <1>10, <1>11 DEF Births
<1>13. QED
  BY <1>1, <1>2, <1>3, <1>12

LEMMA WriterEnds ==
    ASSUME IInv, TypeOK', UNCHANGED call, chain # <<>>,
           Head(chain).op \in Births \cup {"batch", "forget"}, Pop,
           NEW l \in Life, l = Who, Rest(l),
           ses'[l].at = ses[l].at, ses'[l].events = ses[l].events,
           \/ state'.owner = state.owner
           \/ Head(chain).op \in Births /\ state'.owner = l
           \/ state.owner = l /\ state'.owner \notin Life,
           IsPrefix(log, log'),
           entry' = entry \/ (entry' = NoEntry /\ Len(log) < Len(log')),
           Tracked', Sessions', OneHistory', WrittenStays', Callers'
    PROVE  IInv'
<1>1. TypeOK
  BY DEF IInv
<1>2. \A m \in Life : m # l => ses'[m] = ses[m]
  BY DEF Rest
<1>3. Live' = Live /\ Live \subseteq Life
  BY <1>2 DEF Live
<1>4. ASSUME NEW o \in Op, Behind(o), OpOk(o, FALSE) PROVE OpOk(o, FALSE)'
  <2>1. /\ o.op \in Births \cup {"batch", "forget"} => o.who \in Life /\ o.who # l
        /\ Head(chain).op \in Births => o.op # "suffix"
    BY <1>4, WriterAlone
  <2>2. o.op \in Births \cup {"batch", "forget"} => ses'[o.who] = ses[o.who]
    BY <1>2, <2>1
  <2>3. o.op \in Births \cup {"batch", "forget"} =>
           Len(ses[o.who].events) <= Len(ses'[o.who].events)
    BY <1>1, <2>1, <2>2, SessionShape
  <2>4. o.op = "suffix" => state'.owner = state.owner
    BY <1>4, <2>1 DEF OpOk, Births
  <2>5. o.op = "created" => state'.owner = state.owner \/ state'.owner # o.who
    BY <2>1 DEF Births
  <2>6. QED
    BY <1>1, <1>4, <2>2, <2>3, <2>4, <2>5, OpKept
<1>5. ChainOps' /\ ChainOrder' /\ OwnerAlone' /\ Steps'
  <2>1. \/ state'.owner = state.owner
        \/ \A i \in 2..Len(chain) : chain[i].op \in Births => state'.owner \notin Live'
    <3>1. CASE Head(chain).op \in Births /\ state'.owner = l
      BY <1>3, <3>1, HeadInitializes
    <3>2. QED
      BY <1>3, <3>1
  <2>2. \A o \in Op : Behind(o) /\ OpOk(o, FALSE) => OpOk(o, FALSE)'
    BY <1>4
  <2>3. QED
    BY <1>3, <2>1, <2>2, ChainPops
<1>6. OneLive'
  BY <1>3 DEF IInv, OneLive, PreparedOrLive
<1>7. log \in Seq(Event) /\ Len(log) \in Nat /\ Len(log') \in Nat /\ Len(log) <= Len(log')
  <2>1. log \in Seq(Event) /\ log' \in Seq(Event)
    BY <1>1 DEF TypeOK
  <2>2. QED
    BY <2>1, PrefixAt DEF Begins
<1>8. EntryOrder'
  <2>1. \A o \in Op : OnChain(o)' => OnChain(o)
    BY PopsBehind
  <2>2. entry' = entry /\ entry.phase = "loading" => \E j \in 1..Len(chain') : LoadAt(j)'
    BY LoadPops DEF Births
  <2>3. ASSUME Len(log) < Len(log'), NEW o \in Op, OnChain(o)', o.op = "commit"
        PROVE  Len(call[o.who].source.log) < Len(log')
    <3>1. OnChain(o)
      BY <2>1, <2>3
    <3>2. Len(call[o.who].source.log) \in Nat /\ Len(call[o.who].source.log) <= Len(log)
      BY <2>3, <3>1, CommitterHolds
    <3>3. QED
      BY <1>7, <2>3, <3>2
  <2>4. QED
    BY <1>7, <2>1, <2>2, <2>3, EntryKept
<1>9. Answers'
  BY DEF IInv, Answers
<1>10. QED
  BY <1>5, <1>6, <1>8, <1>9 DEF IInv

-----------------------------------------------------------------------------
(* Initialization: it fails,                                               *)
LEMMA GivesUpKept ==
    ASSUME IInv, TypeOK', chain # <<>>, Head(chain).op = "created",
           GivesUp, UNCHANGED <<log, entry, call>>
    PROVE  IInv'
<1>1. TypeOK
  BY DEF IInv
<1>2. PICK l \in Life : /\ l = Who /\ ses[l].init = "pending" /\ ~ses[l].writing
                        /\ ses[l].retire \notin {"forgetting", "done"}
                        /\ ses[l].at \in {"live", "disposed"}
  BY HeadInitializes DEF Births
<1>3. ses' = [ses EXCEPT ![l].init = "failed"] /\ Pop
      /\ torn' \in {torn, FALSE} /\ UNCHANGED state
  BY <1>2 DEF GivesUp, InitFails
<1>4. /\ Rest(l) /\ ses'[l].init = "failed"
      /\ ses'[l].at = ses[l].at /\ ses'[l].events = ses[l].events
      /\ ses'[l].next = ses[l].next /\ ses'[l].writing = ses[l].writing
      /\ ses'[l].retire = ses[l].retire
  BY <1>1, <1>3, InitShape
<1>5. \A m \in Life : m # l => ses'[m] = ses[m]
  BY <1>4 DEF Rest
<1>6. Tracked'
  <2>1. ~torn => ~torn'
    BY <1>3
  <2>2. QED
    BY <1>3, <1>4, <1>5, <2>1 DEF IInv, Tracked
<1>7. Sessions'
  <2>1. SUFFICES ASSUME NEW m \in Life PROVE SessionOk(m)'
    BY DEF Sessions
  <2>2. SessionOk(m)
    BY DEF IInv, Sessions
  <2>3. CASE m = l
    BY <1>2, <1>4, <2>2, <2>3 DEF SessionOk
  <2>4. CASE m # l
    BY <1>3, <1>5, <2>2, <2>4 DEF SessionOk, HasWork, Pending
  <2>5. QED
    BY <2>3, <2>4
<1>8. OneHistory'
  <2>1. SUFFICES ASSUME NEW m \in Life
                 PROVE  /\ ses'[m].init = "ok" /\ HasWork(m)' => state'.owner = m
                        /\ state'.owner = m => /\ state'.cursor = Len(log')
                                               /\ IsPrefix(log', ses'[m].events)
    BY DEF OneHistory
  <2>2. CASE m = l
    BY <1>3, <1>4, <2>2 DEF IInv, OneHistory
  <2>3. CASE m # l
    BY <1>3, <1>5, <2>3 DEF IInv, OneHistory, HasWork, Pending
  <2>4. QED
    BY <2>2, <2>3
<1>9. WrittenStays'
  BY <1>2, <1>4, <1>5 DEF IInv, WrittenStays
<1>10. Callers'
  <2>1. \A c \in Caller : (Holder(c)' => Holder(c)) /\ (Committable(c)' => Committable(c))
    BY DEF Holder, Committable
  <2>2. QED
    BY <1>3, <2>1, CallersStay
<1>11. IsPrefix(log, log')
  BY <1>1, PrefixItself DEF TypeOK
<1>12. QED
  BY <1>2, <1>3, <1>4, <1>6, <1>7, <1>8, <1>9, <1>10, <1>11, WriterEnds DEF Births

(* goes on to ask the store,                                               *)
LEMMA LooksOnKept ==
    ASSUME IInv, TypeOK', chain # <<>>, Head(chain).op = "created", step # "append",
           LooksOn, UNCHANGED <<log, entry, call>>
    PROVE  IInv'
<1>1. TypeOK
  BY DEF IInv
<1>2. PICK to \in {"probe", "match", "truncate", "recheck"} :
         /\ step' = to /\ chain' = chain /\ UNCHANGED <<torn, ses>>
         /\ to = "probe" => state' = NoState
         /\ to = "match" => state.owner = None
         /\ to \in {"truncate", "recheck"} => state = NoState
         /\ to = "truncate" => IsPrefix(log, Seed)
  BY DEF LooksOn, Proceed
<1>3. Seed' = Seed
  BY <1>2 DEF Seed, Who
<1>4. CASE state' = state
  <2>1. Steps'
    BY <1>2, <1>3, <1>4 DEF Steps
  <2>2. QED
    BY <1>2, <1>4, <2>1, StepAdvances
<1>5. CASE state' = NoState /\ state.owner \in Life /\ ~HasWork(state.owner)
  <2>1. state'.owner \notin Life \cup {None}
    BY <1>1, <1>5, StateShape
  <2>2. state # NoState /\ state.owner # None
    BY <1>1, <1>5, StateShape, NoneAssumption
  <2>3. Who \in Life /\ entry.phase \notin {"ready", "committing", "reserved"}
        /\ \A i \in 2..Len(chain) : chain[i].op # "suffix"
    BY HeadInitializes DEF Births
  <2>4. state.owner \notin Live
    <3>1. OpOk(Head(chain), TRUE)
      BY HeadShape
    <3>2. state.owner # Who
      BY <3>1 DEF OpOk, Who
    <3>3. state.owner \in Live => Who = state.owner
      <4>1. 1 \in 1..Len(chain) /\ Head(chain) = chain[1]
        BY HeadShape
      <4>2. QED
        BY <4>1 DEF IInv, OwnerAlone, Births, Who
    <3>4. QED
      BY <3>2, <3>3
  <2>5. \A m \in Life : ses[m].init = "ok" => ~HasWork(m) /\ ses[m].at # "live"
    BY <1>5, <2>4 DEF IInv, Sessions, SessionOk, Live
  <2>6. ASSUME NEW o \in Op, NEW f \in BOOLEAN, OnChain(o), OpOk(o, f) PROVE OpOk(o, f)'
    <3>1. o.op \in Births \cup {"batch", "forget"} => o.who \in Life
      BY <2>6 DEF OpOk
    <3>2. o.op \in Births \cup {"batch", "forget"} =>
             Len(ses[o.who].events) <= Len(ses'[o.who].events)
      BY <1>1, <1>2, <3>1, SessionShape
    <3>3. o.op # "suffix"
      <4>1. PICK n \in Nat \ {0} : n = Len(chain) /\ Head(chain) = chain[1]
        BY HeadShape
      <4>2. \A i \in 1..n : i = 1 \/ i \in 2..n
        OBVIOUS
      <4>3. QED
        BY <2>3, <2>6, <4>1, <4>2 DEF OnChain
    <3>4. o.op = "created" => state'.owner # o.who
      BY <2>1, <3>1 DEF Births
    <3>5. QED
      BY <1>1, <1>2, <2>6, <3>2, <3>3, <3>4, OpKept
  <2>7. ChainOps' /\ ChainOrder' /\ OwnerAlone'
    <3>1. OwnerAlone'
      BY <2>1 DEF OwnerAlone, Live
    <3>2. Live' = Live
      BY <1>2 DEF Live
    <3>3. \A o \in Op, f \in BOOLEAN : OnChain(o) /\ OpOk(o, f) => OpOk(o, f)'
      BY <2>6
    <3>4. QED
      BY <1>2, <3>1, <3>2, <3>3, ChainStays
  <2>8. OneLive'
    BY <1>2 DEF IInv, OneLive, PreparedOrLive, Live
  <2>9. EntryOrder'
    BY <1>2 DEF IInv, EntryOrder, LoadAt
  <2>10. Steps'
    BY <1>2, <1>3, <1>5, <2>2 DEF Steps
  <2>11. Tracked'
    BY <1>2, <2>1 DEF Tracked
  <2>12. Sessions'
    BY <1>2, <2>5 DEF IInv, Sessions, SessionOk, HasWork, Pending
  <2>13. OneHistory'
    BY <1>2, <2>1, <2>5 DEF OneHistory, HasWork, Pending
  <2>14. WrittenStays'
    BY <1>2 DEF IInv, WrittenStays
  <2>15. Callers'
    <3>1. \A c \in Caller : (Holder(c)' => Holder(c)) /\ (Committable(c)' => Committable(c))
      BY DEF Holder, Committable
    <3>2. \A c \in Caller : Committable(c) => ~IsOpen(call[c].source.log)
                                              /\ entry.id # call[c].draft
      BY <2>2 DEF IInv, Callers
    <3>3. IsPrefix(log, log')
      BY <1>1, PrefixItself DEF TypeOK
    <3>4. QED
      BY <3>1, <3>2, <3>3, CallersKept
  <2>16. Answers'
    BY DEF IInv, Answers
  <2>17. QED
    BY <2>7, <2>8, <2>9, <2>10, <2>11, <2>12, <2>13, <2>14, <2>15, <2>16 DEF IInv
<1>6. QED
  BY <1>4, <1>5 DEF LooksOn

(* or becomes the owner of a log that its events continue.                 *)
LEMMA TakesOverKept ==
    ASSUME IInv, TypeOK', chain # <<>>, Head(chain).op = "created", step # "append",
           TakesOver, UNCHANGED <<log, entry, call>>
    PROVE  IInv'
<1>1. TypeOK
  BY DEF IInv
<1>2. PICK l \in Life : /\ l = Who /\ ses[l].init = "pending" /\ ~ses[l].writing
                        /\ ses[l].retire \notin {"forgetting", "done"}
                        /\ ses[l].at \in {"live", "disposed"}
                        /\ Head(chain).upTo \in Nat /\ Head(chain).upTo = ses[l].next - 1
                        /\ Head(chain).upTo <= Len(ses[l].events)
                        /\ entry.phase \notin {"ready", "committing", "reserved"}
  BY HeadInitializes DEF Births
<1>3. /\ state'.owner = l /\ state'.cursor = Len(log) /\ torn' \in {torn, FALSE}
      /\ IsPrefix(log, ses[l].events) /\ state.owner \notin Life
      /\ state' \in State
  BY <1>1, <1>2, StateShape DEF TakesOver
<1>4. \/ Len(log) = Head(chain).upTo /\ ses' = [ses EXCEPT ![l].init = "ok"] /\ Pop
      \/ Len(log) < Head(chain).upTo /\ step' = "append" /\ chain' = chain /\ ses' = ses
  BY <1>2 DEF TakesOver, InitSucceeds, Proceed
<1>5. /\ Rest(l)
      /\ ses'[l].at = ses[l].at /\ ses'[l].events = ses[l].events
      /\ ses'[l].next = ses[l].next /\ ses'[l].writing = ses[l].writing
      /\ ses'[l].retire = ses[l].retire
      /\ ses'[l].init = "ok" => Len(log) = Head(chain).upTo
  <2>1. CASE ses' = ses
    BY <1>2, <2>1 DEF Rest
  <2>2. CASE ses' = [ses EXCEPT ![l].init = "ok"] /\ Len(log) = Head(chain).upTo
    BY <1>1, <2>2, InitShape
  <2>3. QED
    BY <1>4, <2>1, <2>2
<1>6. \A m \in Life : m # l => ses'[m] = ses[m]
  BY <1>5 DEF Rest
<1>7. \A m \in Life : ses[m].init = "ok" => ~HasWork(m) /\ ses[m].at # "live"
  BY <1>3 DEF IInv, Sessions, SessionOk
<1>8. Tracked'
  BY <1>2, <1>3, <1>5, NoneAssumption DEF Tracked
<1>9. Sessions'
  <2>1. SUFFICES ASSUME NEW m \in Life PROVE SessionOk(m)'
    BY DEF Sessions
  <2>2. SessionOk(m)
    BY DEF IInv, Sessions
  <2>3. CASE m = l
    BY <1>2, <1>3, <1>5, <2>2, <2>3 DEF SessionOk
  <2>4. CASE m # l
    BY <1>6, <1>7, <2>2, <2>4 DEF SessionOk, HasWork, Pending
  <2>5. QED
    BY <2>3, <2>4
<1>10. OneHistory'
  <2>1. SUFFICES ASSUME NEW m \in Life
                 PROVE  /\ ses'[m].init = "ok" /\ HasWork(m)' => state'.owner = m
                        /\ state'.owner = m => /\ state'.cursor = Len(log')
                                               /\ IsPrefix(log', ses'[m].events)
    BY DEF OneHistory
  <2>2. CASE m = l
    BY <1>3, <1>5, <2>2
  <2>3. CASE m # l
    BY <1>3, <1>6, <1>7, <2>3 DEF HasWork, Pending
  <2>4. QED
    BY <2>2, <2>3
<1>11. WrittenStays'
  <2>1. SUFFICES ASSUME ses'[l].init = "ok"
                 PROVE  IsPrefix(SubSeq(ses[l].events, 1, ses[l].next - 1), log)
    BY <1>2, <1>5, <1>6 DEF IInv, WrittenStays
  <2>2. PICK s \in Seq(Event) : s = ses[l].events
    BY <1>1, SessionShape
  <2>3. PICK n \in Nat : n = ses[l].next - 1 /\ n <= Len(s) /\ n = Len(log)
    BY <1>2, <1>5, <2>1, <2>2
  <2>4. log \in Seq(Event) /\ Begins(log, s)
    BY <1>1, <1>3, <2>2, PrefixAt DEF TypeOK
  <2>5. /\ SubSeq(s, 1, n) \in Seq(Event) /\ Len(SubSeq(s, 1, n)) = n
        /\ \A i \in 1..n : SubSeq(s, 1, n)[i] = s[i]
    BY <2>3, Opening
  <2>6. Begins(SubSeq(s, 1, n), log)
    BY <2>3, <2>4, <2>5 DEF Begins
  <2>7. QED
    BY <2>2, <2>3, <2>4, <2>5, <2>6, PrefixAt
<1>12. IsPrefix(log, log')
  BY <1>1, PrefixItself DEF TypeOK
<1>13. Callers'
  <2>1. \A c \in Caller : (Holder(c)' => Holder(c)) /\ (Committable(c)' => Committable(c))
    BY DEF Holder, Committable
  <2>2. \A c \in Caller : Committable(c) => ~IsOpen(call[c].source.log)
                                            /\ entry.id # call[c].draft
    BY <1>2 DEF IInv, Callers, Committable, Holder
  <2>3. QED
    BY <1>12, <2>1, <2>2, CallersKept
<1>14. CASE Pop
  BY <1>2, <1>3, <1>5, <1>8, <1>9, <1>10, <1>11, <1>12, <1>13, <1>14, WriterEnds DEF Births
<1>15. CASE Len(log) < Head(chain).upTo /\ step' = "append" /\ chain' = chain /\ ses' = ses
  <2>1. PICK n \in Nat \ {0} : n = Len(chain) /\ Head(chain) = chain[1]
    BY HeadShape
  <2>2. ASSUME NEW i \in 2..n
        PROVE  /\ OpOk(chain[i], FALSE) /\ chain[i] \in Op /\ chain[i].op # "suffix"
               /\ chain[i].op \in Births => chain[i].who # l /\ l \notin Live
    <3>1. i \in 1..n /\ i > 1
      BY <2>2
    <3>2. OpOk(chain[i], FALSE) /\ chain[i] \in Op
      BY <2>1, <3>1, HeadShape
    <3>3. QED
      BY <1>2, <2>1, <3>2, HeadInitializes DEF Births
  <2>3. ChainOps'
    <3>1. SUFFICES ASSUME NEW i \in 1..n PROVE OpOk(chain[i], i = 1)'
      BY <1>15, <2>1 DEF ChainOps
    <3>2. CASE i = 1
      <4>1. OpOk(chain[1], TRUE)
        BY HeadShape
      <4>2. QED
        BY <1>15, <2>1, <3>2, <4>1 DEF OpOk, Births
    <3>3. CASE i # 1
      <4>1. i \in 2..n
        BY <3>3
      <4>2. PICK o \in Op : o = chain[i]
        BY <2>2, <4>1
      <4>3. /\ OpOk(o, FALSE) /\ o.op # "suffix" /\ (o.op = "created" => state'.owner # o.who)
        BY <1>3, <2>2, <4>1, <4>2 DEF Births
      <4>4. o.op \in Births \cup {"batch", "forget"} =>
               Len(ses[o.who].events) <= Len(ses'[o.who].events)
        <5>1. o.op \in Births \cup {"batch", "forget"} => o.who \in Life
          BY <4>3 DEF OpOk
        <5>2. QED
          BY <1>1, <1>15, <5>1, SessionShape
      <4>5. OpOk(o, FALSE)'
        BY <1>1, <1>15, <4>3, <4>4, OpKept
      <4>6. QED
        BY <1>15, <3>3, <4>2, <4>5 DEF OpOk
    <3>4. QED
      BY <3>2, <3>3
  <2>4. ChainOrder' /\ Live' = Live
    BY <1>15 DEF IInv, ChainOrder, InOrder, Live
  <2>5. OwnerAlone'
    <3>1. SUFFICES ASSUME NEW i \in 1..n, chain[i].op \in Births, l \in Live
                   PROVE  chain[i].who = l
      BY <1>3, <1>15, <2>1, <2>4 DEF OwnerAlone
    <3>2. CASE i = 1
      BY <1>2, <2>1, <3>2 DEF Who
    <3>3. CASE i # 1
      <4>1. i \in 2..n
        BY <3>3
      <4>2. QED
        BY <2>2, <3>1, <4>1
    <3>4. QED
      BY <3>2, <3>3
  <2>6. OneLive'
    BY <2>4 DEF IInv, OneLive, PreparedOrLive
  <2>7. EntryOrder'
    BY <1>15 DEF IInv, EntryOrder, LoadAt
  <2>8. Steps'
    BY <1>2, <1>3, <1>15 DEF Steps, Who
  <2>9. Answers'
    BY DEF IInv, Answers
  <2>10. QED
    BY <1>8, <1>9, <1>10, <1>11, <1>13, <2>3, <2>4, <2>5, <2>6, <2>7, <2>8, <2>9 DEF IInv
<1>16. QED
  BY <1>4, <1>14, <1>15

LEMMA InitializesKept ==
    ASSUME IInv, TypeOK', Initializes
    PROVE  IInv'
<1>1. /\ chain # <<>> /\ Head(chain).op = "created" /\ step # "append"
      /\ UNCHANGED <<log, entry, call>>
      /\ GivesUp \/ LooksOn \/ TakesOver
  BY CreatedShape
<1>2. QED
  BY <1>1, GivesUpKept, LooksOnKept, TakesOverKept

-----------------------------------------------------------------------------
(* A write that fails leaves its Session with the events it had to write,  *)
(* or uninitialized.                                                       *)
LEMMA UnwrittenKept ==
    ASSUME IInv, TypeOK', NEW at \in {"queued", "append"}, Appending(at),
           ses' = [ses EXCEPT ![Who] = Unwritten(@)], Pop,
           UNCHANGED <<log, torn, state, entry, call>>
    PROVE  IInv'
<1>1. TypeOK
  BY DEF IInv
<1>2. PICK l \in Life : /\ l = Who /\ state.owner = l /\ chain # <<>>
                        /\ Head(chain).op \in {"batch", "suffix", "created"}
                        /\ Head(chain).op = "batch" => HasWork(l)
                        /\ Head(chain).op # "batch" => ses[l].init = "pending"
  BY HeadOwns
<1>3. /\ Rest(l)
      /\ ses'[l].at = ses[l].at /\ ses'[l].events = ses[l].events
      /\ ses'[l].next = ses[l].next
      /\ Head(chain).op = "batch" =>
            /\ ses'[l].init = ses[l].init /\ ~ses'[l].writing
            /\ ses'[l].retire = IF ses[l].retire = "draining" THEN "failed" ELSE ses[l].retire
      /\ Head(chain).op # "batch" =>
            /\ ses'[l].init = "failed" /\ ses'[l].writing = ses[l].writing
            /\ ses'[l].retire = ses[l].retire
  BY <1>1, <1>2, UnwrittenShape
<1>4. \A m \in Life : m # l => ses'[m] = ses[m]
  BY <1>3 DEF Rest
<1>5. SessionOk(l) /\ ses[l].retire \notin {"forgetting", "done"}
  BY <1>2 DEF IInv, Sessions, SessionOk
<1>6. Tracked'
  BY <1>3, <1>4 DEF IInv, Tracked
<1>7. Sessions'
  <2>1. SUFFICES ASSUME NEW m \in Life PROVE SessionOk(m)'
    BY DEF Sessions
  <2>2. CASE m = l
    BY <1>2, <1>3, <1>5, <2>2 DEF SessionOk
  <2>3. CASE m # l
    BY <1>4, <2>3 DEF IInv, Sessions, SessionOk, HasWork, Pending
  <2>4. QED
    BY <2>2, <2>3
<1>8. OneHistory'
  <2>1. SUFFICES ASSUME NEW m \in Life
                 PROVE  /\ ses'[m].init = "ok" /\ HasWork(m)' => state'.owner = m
                        /\ state'.owner = m => /\ state'.cursor = Len(log')
                                               /\ IsPrefix(log', ses'[m].events)
    BY DEF OneHistory
  <2>2. CASE m = l
    BY <1>2, <1>3, <2>2 DEF IInv, OneHistory
  <2>3. CASE m # l
    BY <1>4, <2>3 DEF IInv, OneHistory, HasWork, Pending
  <2>4. QED
    BY <2>2, <2>3
<1>9. WrittenStays'
  <2>1. SUFFICES ASSUME NEW m \in Life
                 PROVE  /\ ses'[m].init = "ok" =>
                              IsPrefix(SubSeq(ses'[m].events, 1, ses'[m].next - 1), log)
                        /\ ses'[m].retire = "done" => IsPrefix(ses'[m].events, log)
    BY DEF WrittenStays
  <2>2. CASE m = l
    BY <1>3, <1>5, <2>2 DEF IInv, WrittenStays
  <2>3. CASE m # l
    BY <1>4, <2>3 DEF IInv, WrittenStays
  <2>4. QED
    BY <2>2, <2>3
<1>10. Callers'
  <2>1. \A c \in Caller : (Holder(c)' => Holder(c)) /\ (Committable(c)' => Committable(c))
    BY DEF Holder, Committable
  <2>2. QED
    BY <2>1, CallersStay
<1>11. IsPrefix(log, log')
  BY <1>1, PrefixItself DEF TypeOK
<1>12. QED
  BY <1>2, <1>3, <1>6, <1>7, <1>8, <1>9, <1>10, <1>11, WriterEnds DEF Births

(* One that succeeds has all that the operation had in hand in the log.    *)
LEMMA WrittenKept ==
    ASSUME IInv, TypeOK', NEW at \in {"queued", "append"}, Appending(at),
           ses' = [ses EXCEPT ![Who] = Written(@)], Pop, UNCHANGED <<torn, call>>,
           state'.owner = state.owner, state'.cursor = Len(log'),
           IsPrefix(log, log'), IsPrefix(log', ses[Who].events),
           Head(chain).upTo <= Len(log'),
           entry' = entry \/ (entry' = NoEntry /\ Len(log) < Len(log')),
           entry' = NoEntry \/ log' = log
    PROVE  IInv'
<1>1. TypeOK
  BY DEF IInv
<1>2. PICK l \in Life : /\ l = Who /\ state.owner = l /\ chain # <<>>
                        /\ Head(chain).op \in {"batch", "suffix", "created"}
                        /\ Head(chain).op = "batch" => HasWork(l) /\ ses[l].init = "ok"
                        /\ Head(chain).op # "batch" => /\ ses[l].init = "pending"
                                                       /\ Head(chain).upTo = ses[l].next - 1
  BY HeadOwns
<1>3. PICK n \in Nat : n = Head(chain).upTo /\ n <= Len(ses[l].events) /\ n <= Len(log')
  BY <1>2, HeadOwns
<1>4. SessionOk(l) /\ ses[l].retire \notin {"forgetting", "done"}
  BY <1>2 DEF IInv, Sessions, SessionOk
<1>5. /\ Rest(l)
      /\ ses'[l].at = ses[l].at /\ ses'[l].events = ses[l].events
      /\ ses'[l].init = "ok" /\ ~ses'[l].writing /\ ses'[l].next = n + 1
      /\ ses'[l].retire \in {ses[l].retire, "flushing"}
      /\ ses'[l].retire # "none" => ses[l].retire # "none"
  <2>1. /\ Rest(l)
        /\ ses'[l].at = ses[l].at /\ ses'[l].events = ses[l].events
        /\ Head(chain).op = "batch" =>
              /\ ses'[l].init = ses[l].init /\ ~ses'[l].writing /\ ses'[l].next = n + 1
              /\ ses'[l].retire = IF ses[l].retire = "draining" THEN "flushing"
                                                                 ELSE ses[l].retire
        /\ Head(chain).op # "batch" =>
              /\ ses'[l].init = "ok" /\ ses'[l].writing = ses[l].writing
              /\ ses'[l].next = ses[l].next /\ ses'[l].retire = ses[l].retire
    BY <1>1, <1>2, <1>3, WrittenShape
  <2>2. Head(chain).op # "batch" => ses[l].next = n + 1 /\ ~ses[l].writing
    BY <1>2, <1>3, <1>4, HeadInitializes DEF Births
  <2>3. QED
    BY <1>2, <2>1, <2>2
<1>6. \A m \in Life : m # l => ses'[m] = ses[m]
  BY <1>5 DEF Rest
<1>7. log \in Seq(Event) /\ log' \in Seq(Event) /\ Len(log) \in Nat /\ Len(log') \in Nat
      /\ Len(log) <= Len(log')
  <2>1. log \in Seq(Event) /\ log' \in Seq(Event)
    BY <1>1 DEF TypeOK
  <2>2. QED
    BY <2>1, PrefixAt DEF Begins
<1>8. \A m \in Life : ses[m].events \in Seq(Event) /\ Len(ses[m].events) \in Nat
  BY <1>1, SessionShape
<1>9. Tracked'
  BY <1>2, <1>5, NoneAssumption DEF IInv, Tracked
<1>10. \A m \in Life : m # l => ~(ses[m].init = "ok" /\ (ses[m].at = "live" \/ HasWork(m)))
  BY <1>2 DEF IInv, Sessions, SessionOk
<1>11. Sessions'
  <2>1. SUFFICES ASSUME NEW m \in Life PROVE SessionOk(m)'
    BY DEF Sessions
  <2>2. SessionOk(m) /\ \A i \in 1..Len(ses[m].events) :
                           i > Len(log') => ses[m].events[i].by # "closer"
    BY <1>7, <1>8 DEF IInv, Sessions, SessionOk
  <2>3. CASE m = l
    <3>1. n + 1 \in 1..(Len(ses[l].events) + 1)
      BY <1>3, <1>8
    <3>2. QED
      BY <1>2, <1>4, <1>5, <2>2, <2>3, <3>1 DEF SessionOk
  <2>4. CASE m # l
    BY <1>6, <1>10, <2>2, <2>4 DEF SessionOk, HasWork, Pending
  <2>5. QED
    BY <2>3, <2>4
<1>12. OneHistory'
  <2>1. SUFFICES ASSUME NEW m \in Life
                 PROVE  /\ ses'[m].init = "ok" /\ HasWork(m)' => state'.owner = m
                        /\ state'.owner = m => /\ state'.cursor = Len(log')
                                               /\ IsPrefix(log', ses'[m].events)
    BY DEF OneHistory
  <2>2. CASE m = l
    BY <1>2, <1>5, <2>2
  <2>3. CASE m # l
    BY <1>2, <1>6, <1>10, <2>3 DEF HasWork, Pending
  <2>4. QED
    BY <2>2, <2>3
<1>13. WrittenStays'
  <2>1. SUFFICES ASSUME NEW m \in Life
                 PROVE  /\ ses'[m].init = "ok" =>
                              IsPrefix(SubSeq(ses'[m].events, 1, ses'[m].next - 1), log')
                        /\ ses'[m].retire = "done" => IsPrefix(ses'[m].events, log')
    BY DEF WrittenStays
  <2>2. CASE m = l
    <3>1. PICK s \in Seq(Event) : s = ses[l].events
      BY <1>8
    <3>2. /\ SubSeq(s, 1, n) \in Seq(Event) /\ Len(SubSeq(s, 1, n)) = n
          /\ \A i \in 1..n : SubSeq(s, 1, n)[i] = s[i]
      BY <1>3, <3>1, Opening
    <3>3. Begins(log', s)
      BY <1>2, <1>7, <3>1, PrefixAt
    <3>4. Begins(SubSeq(s, 1, n), log')
      BY <1>3, <1>7, <3>2, <3>3 DEF Begins
    <3>5. IsPrefix(SubSeq(s, 1, n), log')
      BY <1>7, <3>2, <3>4, PrefixAt
    <3>6. ses'[l].events = s /\ ses'[l].next - 1 = n /\ ses'[l].retire # "done"
      BY <1>3, <1>4, <1>5, <3>1
    <3>7. QED
      BY <2>2, <3>5, <3>6
  <2>3. CASE m # l
    <3>1. ses'[m] = ses[m] /\ SessionOk(m) /\ IsPrefix(ses[m].events, ses[m].events)
      BY <1>6, <1>8, <2>3, PrefixItself DEF IInv, Sessions
    <3>2. /\ ses[m].init = "ok" => IsPrefix(SubSeq(ses[m].events, 1, ses[m].next - 1), log)
          /\ ses[m].retire = "done" => IsPrefix(ses[m].events, log)
      BY DEF IInv, WrittenStays
    <3>3. ses[m].retire = "done" => IsPrefix(ses[m].events, log')
      BY <1>7, <1>8, <3>2, PrefixTransitive
    <3>4. ses[m].init = "ok" => IsPrefix(SubSeq(ses[m].events, 1, ses[m].next - 1), log')
      BY <1>1, <3>1, <3>2, StaysWritten
    <3>5. QED
      BY <3>1, <3>3, <3>4
  <2>4. QED
    BY <2>2, <2>3
<1>14. Callers'
  <2>1. \A c \in Caller : (Holder(c)' => Holder(c)) /\ (Committable(c)' => Committable(c))
    BY DEF Holder, Committable
  <2>2. \A c \in Caller : Committable(c) => ~IsOpen(call[c].source.log)
    BY DEF IInv, Callers
  <2>3. \A c \in Caller : Committable(c) => entry'.id # call[c].draft
    <3>1. SUFFICES ASSUME NEW c \in Caller, Committable(c), entry'.id = call[c].draft
                   PROVE  FALSE
      OBVIOUS
    <3>2. Holder(c) /\ call[c].draft \in Draft
      BY <3>1 DEF IInv, Callers, Holder, Committable
    <3>3. CASE entry' = NoEntry
      BY <3>1, <3>2, <3>3, NoneAssumption DEF NoEntry
    <3>4. CASE entry' = entry
      <4>1. state.owner = None
        BY <3>1, <3>4 DEF IInv, Callers
      <4>2. QED
        BY <1>2, <4>1, NoneAssumption
    <3>5. QED
      BY <3>3, <3>4
  <2>4. QED
    BY <2>1, <2>2, <2>3, CallersKept
<1>15. QED
  BY <1>2, <1>5, <1>9, <1>11, <1>12, <1>13, <1>14, WriterEnds DEF Births

LEMMA AppendStartsKept ==
    ASSUME IInv, TypeOK', AppendStarts
    PROVE  IInv'
<1>1. Appending("queued") /\ UNCHANGED <<log, torn, state, entry, call>>
  BY DEF AppendStarts
<1>2. /\ chain # <<>> /\ Who \in Life /\ state.owner = Who /\ state.cursor = Len(log)
      /\ IsPrefix(log, ses[Who].events) /\ Head(chain).op \in {"batch", "suffix"}
      /\ step = "queued" /\ Head(chain).upTo \in Nat
  BY <1>1, HeadOwns DEF Appending
<1>3. log \in Seq(Event) /\ Len(log) \in Nat /\ IsPrefix(log, log')
  BY <1>1, PrefixItself, LenProperties DEF IInv, TypeOK
<1>4. CASE AppendFailed
  BY <1>1, <1>4, UnwrittenKept DEF AppendFailed
<1>5. CASE Fresh = <<>> /\ ses' = [ses EXCEPT ![Who] = Written(@)] /\ Pop
  <2>1. Head(chain).upTo <= Len(log)
    BY <1>1, <1>5, FreshShape
  <2>2. QED
    BY <1>1, <1>2, <1>3, <1>5, <2>1, WrittenKept
<1>6. CASE Fresh # <<>> /\ Proceed("append") /\ UNCHANGED ses
  <2>1. Len(log) < Head(chain).upTo
    BY <1>1, <1>2, <1>3, <1>6, FreshShape
  <2>2. step' = "append" /\ chain' = chain
    BY <1>6 DEF Proceed
  <2>3. Steps'
    BY <1>1, <1>2, <2>1, <2>2 DEF Steps, Who
  <2>4. QED
    BY <1>1, <1>2, <1>6, <2>2, <2>3, StepAdvances
<1>7. QED
  BY <1>4, <1>5, <1>6 DEF AppendStarts

LEMMA AppendFailsKept ==
    ASSUME IInv, TypeOK', AppendFails
    PROVE  IInv'
<1>1. /\ Appending("append") /\ ses' = [ses EXCEPT ![Who] = Unwritten(@)] /\ Pop
      /\ UNCHANGED <<log, torn, state, entry, call>>
  BY DEF AppendFails, AppendFailed
<1>2. QED
  BY <1>1, UnwrittenKept

LEMMA AppendEndsKept ==
    ASSUME IInv, TypeOK', AppendEnds
    PROVE  IInv'
<1>1. /\ Appending("append") /\ log' = log \o Fresh /\ entry' = NoEntry
      /\ ses' = [ses EXCEPT ![Who] = Written(@)] /\ Pop /\ UNCHANGED <<torn, call>>
  BY DEF AppendEnds
<1>2. /\ chain # <<>> /\ Who \in Life /\ state.owner = Who /\ state \in State
      /\ state.cursor = Len(log) /\ IsPrefix(log, ses[Who].events)
  BY <1>1, HeadOwns
<1>3. PICK n \in Nat : n = Head(chain).upTo /\ n <= Len(ses[Who].events)
  BY <1>1, HeadOwns
<1>4. PICK s \in Seq(Event) : s = ses[Who].events
  BY <1>2, SessionShape DEF IInv
<1>5. PICK m \in Nat : m = Len(log) /\ m < n
  <2>1. log \in Seq(Event) /\ Len(log) \in Nat
    BY LenProperties DEF IInv, TypeOK
  <2>2. step = "append"
    BY <1>1 DEF Appending
  <2>3. QED
    BY <1>2, <1>3, <2>1, <2>2 DEF IInv, Steps
<1>6. /\ Fresh \in Seq(Event) /\ Len(Fresh) = n - m
      /\ \A i \in 1..(n - m) : Fresh[i] = s[m + i]
  BY <1>1, <1>3, <1>4, <1>5, FreshShape
<1>7. /\ log' \in Seq(Event) /\ Len(log') = n /\ IsPrefix(log, log')
      /\ \A i \in 1..m : log'[i] = log[i]
      /\ \A i \in 1..(n - m) : log'[m + i] = Fresh[i]
  <2>1. log \in Seq(Event)
    BY DEF IInv, TypeOK
  <2>2. /\ log \o Fresh \in Seq(Event) /\ Len(log \o Fresh) = m + (n - m)
        /\ \A i \in 1..m : (log \o Fresh)[i] = log[i]
        /\ \A i \in 1..(n - m) : (log \o Fresh)[m + i] = Fresh[i]
        /\ IsPrefix(log, log \o Fresh)
    <3>1. PICK x \in Seq(Event) : x = Fresh
      BY <1>6
    <3>2. PICK k \in Nat : k = Len(x) /\ k = n - m /\ m = Len(log)
      BY <1>5, <1>6, <3>1, LenProperties
    <3>3. /\ log \o x \in Seq(Event) /\ Len(log \o x) = Len(log) + Len(x)
          /\ \A i \in 1..Len(log) : (log \o x)[i] = log[i]
          /\ \A i \in 1..Len(x) : (log \o x)[Len(log) + i] = x[i]
          /\ IsPrefix(log, log \o x)
      BY <2>1, Joined
    <3>4. QED
      BY <3>1, <3>2, <3>3
  <2>3. log' = log \o Fresh /\ m + (n - m) = n
    BY <1>1, <1>5
  <2>4. QED
    BY <2>2, <2>3
<1>8. IsPrefix(log', s)
  <2>1. Begins(log, s)
    BY <1>2, <1>4, PrefixAt DEF IInv, TypeOK
  <2>2. ASSUME NEW i \in 1..n PROVE log'[i] = s[i]
    <3>1. CASE i <= m
      BY <1>5, <1>7, <2>1, <3>1 DEF Begins
    <3>2. CASE i > m
      <4>1. PICK k \in 1..(n - m) : i = m + k
        <5>1. i - m \in 1..(n - m) /\ i = m + (i - m)
          BY <3>2
        <5>2. QED
          BY <5>1
      <4>2. QED
        BY <1>6, <1>7, <4>1
    <3>3. QED
      BY <3>1, <3>2
  <2>3. QED
    BY <1>3, <1>4, <1>7, <2>2, PrefixAt DEF Begins
<1>9. state'.owner = state.owner /\ state'.cursor = n
  <2>1. PICK p : p = [state EXCEPT !.cursor = n]
    OBVIOUS
  <2>2. p \in State /\ p.cursor = n /\ p.owner = state.owner
    BY <1>2, <2>1 DEF State
  <2>3. state' = [p EXCEPT !.materialized = TRUE]
    BY <1>3, <2>1 DEF AppendEnds
  <2>4. QED
    BY <2>2, <2>3 DEF State
<1>10. QED
  BY <1>1, <1>3, <1>4, <1>5, <1>7, <1>8, <1>9, WrittenKept

(* The state of a Session that has written everything is released.         *)
LEMMA ForgetKept ==
    ASSUME IInv, TypeOK', Forget
    PROVE  IInv'
<1>1. TypeOK
  BY DEF IInv
<1>2. /\ chain # <<>> /\ Head(chain).op = "forget" /\ Pop /\ state' = Released
      /\ ses' = [ses EXCEPT ![Who].retire = "done"] /\ UNCHANGED <<log, torn, entry, call>>
  BY DEF Forget, Running
<1>3. PICK l \in Life : /\ l = Who /\ ses[l].init = "ok" /\ ses[l].retire = "forgetting"
                        /\ ~HasWork(l) /\ ses[l].at = "disposed"
  BY <1>2, HeadWrites
<1>4. /\ Rest(l) /\ ses'[l].retire = "done"
      /\ ses'[l].at = ses[l].at /\ ses'[l].events = ses[l].events
      /\ ses'[l].init = ses[l].init /\ ses'[l].next = ses[l].next
      /\ ses'[l].writing = ses[l].writing
  <2>1. PICK v \in Retirement : v = "done"
    BY DEF Retirement
  <2>2. QED
    BY <1>1, <1>2, <1>3, <2>1, RetireShape
<1>5. \A m \in Life : m # l => ses'[m] = ses[m]
  BY <1>4 DEF Rest
<1>6. /\ state.owner # l => state' = state
      /\ state.owner = l => state' = NoState /\ state'.owner \notin Life \cup {None}
  BY <1>1, <1>2, <1>3, StateShape DEF Released
<1>7. SessionOk(l)
  BY DEF IInv, Sessions
<1>8. Tracked'
  BY <1>2, <1>4, <1>5, <1>6 DEF IInv, Tracked
<1>9. Sessions'
  <2>1. SUFFICES ASSUME NEW m \in Life PROVE SessionOk(m)'
    BY DEF Sessions
  <2>2. CASE m = l
    BY <1>2, <1>3, <1>4, <1>7, <2>2 DEF SessionOk, HasWork, Pending
  <2>3. CASE m # l
    BY <1>2, <1>5, <1>6, <2>3 DEF IInv, Sessions, SessionOk, HasWork, Pending
  <2>4. QED
    BY <2>2, <2>3
<1>10. OneHistory'
  <2>1. SUFFICES ASSUME NEW m \in Life
                 PROVE  /\ ses'[m].init = "ok" /\ HasWork(m)' => state'.owner = m
                        /\ state'.owner = m => /\ state'.cursor = Len(log')
                                               /\ IsPrefix(log', ses'[m].events)
    BY DEF OneHistory
  <2>2. CASE m = l
    BY <1>3, <1>4, <1>6, <2>2 DEF HasWork, Pending
  <2>3. CASE m # l
    BY <1>2, <1>5, <1>6, <2>3 DEF IInv, OneHistory, HasWork, Pending
  <2>4. QED
    BY <2>2, <2>3
<1>11. WrittenStays'
  <2>1. PICK s \in Seq(Event) : s = ses[l].events /\ Len(s) \in Nat
    BY <1>1, SessionShape
  <2>2. IsPrefix(SubSeq(s, 1, ses[l].next - 1), log)
    BY <1>3, <2>1 DEF IInv, WrittenStays
  <2>3. ses[l].next - 1 = Len(s)
    BY <1>3, <1>7, <2>1 DEF SessionOk, HasWork, Pending
  <2>4. SubSeq(s, 1, Len(s)) = s
    <3>1. PICK t : t = SubSeq(s, 1, Len(s))
      OBVIOUS
    <3>2. t \in Seq(Event) /\ Len(t) = Len(s) /\ \A i \in 1..Len(s) : t[i] = s[i]
      BY <2>1, <3>1, Opening
    <3>3. QED
      BY <2>1, <3>1, <3>2, SeqEqual
  <2>5. IsPrefix(s, log)
    BY <2>2, <2>3, <2>4
  <2>6. QED
    BY <1>2, <1>4, <1>5, <2>1, <2>5 DEF IInv, WrittenStays
<1>12. IsPrefix(log, log')
  BY <1>1, <1>2, PrefixItself DEF TypeOK
<1>13. Callers'
  <2>1. \A c \in Caller : (Holder(c)' => Holder(c)) /\ (Committable(c)' => Committable(c))
    BY <1>2 DEF Holder, Committable
  <2>2. \A c \in Caller : Committable(c) =>
           /\ ~IsOpen(call[c].source.log)
           /\ entry'.id = call[c].draft =>
                 call[c].source.log = log' /\ ~torn' /\ state'.owner = None
    BY <1>2, <1>6, NoneAssumption DEF IInv, Callers
  <2>3. QED
    BY <1>2, <1>12, <2>1, <2>2, CallersKept
<1>14. QED
  BY <1>2, <1>3, <1>4, <1>6, <1>8, <1>9, <1>10, <1>11, <1>12, <1>13, WriterEnds

-----------------------------------------------------------------------------
(* The invariant holds at first and every step keeps it.                   *)
LEMMA Initial ==
    ASSUME Init
    PROVE  IInv
<1>1. log \in Seq(Event) /\ ~(log = <<>> /\ torn) /\ torn \in BOOLEAN
  <2>1. PICK e \in Event : e = [by |-> "earlier", kind |-> "start"]
    BY DEF Event
  <2>2. log = <<>> \/ log = <<e>>
    BY <2>1 DEF Init, Stored
  <2>3. <<>> \in Seq(Event) /\ <<e>> \in Seq(Event)
    BY <2>1
  <2>4. log \in Seq(Event)
    BY <2>2, <2>3
  <2>5. QED
    BY <2>4 DEF Init
<1>2. /\ state = NoState /\ entry = NoEntry /\ chain = <<>> /\ step = "queued"
      /\ retiring = None /\ mishaps = 0
      /\ call = [c \in Caller |-> Idle] /\ ses = [l \in Life |-> Unborn]
  BY DEF Init
<1>3. /\ call \in [Caller -> Call] /\ \A c \in Caller : call[c].at = "idle"
  BY <1>2, IdleTypes
<1>4. /\ ses \in [Life -> Session]
      /\ \A l \in Life : /\ ses[l].at = "unborn" /\ ses[l].init = "none"
                         /\ ses[l].retire = "none" /\ ~ses[l].writing /\ ses[l].next = 1
                         /\ ses[l].events = <<>>
  BY <1>2, UnbornTypes
<1>5. chain \in Seq(Op) /\ Len(chain) = 0
  BY <1>2
<1>6. TypeOK
  <2>1. \A l \in Life : Len(ses[l].events) <= MaxLog
    BY <1>4, BoundsAssumption
  <2>2. step \in Step /\ mishaps \in 0..MaxMishap
    BY <1>2, BoundsAssumption DEF Step
  <2>3. QED
    BY <1>1, <1>2, <1>3, <1>4, <1>5, <2>1, <2>2 DEF TypeOK
<1>7. state.owner \notin Life \cup {None} /\ entry.phase = "absent" /\ entry.id = None
  BY <1>2, <1>6, StateShape, EntryShape
<1>8. Live = {}
  BY <1>4 DEF Live
<1>9. OneLive
  BY <1>8 DEF OneLive, PreparedOrLive
<1>10. ChainOps /\ ChainOrder /\ OwnerAlone
  BY <1>5 DEF ChainOps, ChainOrder, OwnerAlone
<1>11. EntryOrder
  BY <1>5, <1>7 DEF EntryOrder
<1>12. Steps
  BY <1>2 DEF Steps
<1>13. Tracked
  BY <1>7 DEF Tracked
<1>14. Sessions
  BY <1>4 DEF Sessions, SessionOk, HasWork, Pending
<1>15. OneHistory /\ WrittenStays
  BY <1>4, <1>7 DEF OneHistory, WrittenStays, HasWork, Pending
<1>16. Callers /\ Answers
  BY <1>3, <1>7 DEF Callers, Answers, Holder, Committable
<1>17. QED
  BY <1>6, <1>9, <1>10, <1>11, <1>12, <1>13, <1>14, <1>15, <1>16 DEF IInv

LEMMA Stuttering ==
    ASSUME IInv, TypeOK', UNCHANGED vars
    PROVE  IInv'
<1>1. UNCHANGED <<log, torn, state, entry, call, chain, step, ses>>
  BY DEF vars
<1>2. \A c \in Caller : (Holder(c)' => Holder(c)) /\ (Committable(c)' => Committable(c))
  BY <1>1 DEF Holder, Committable
<1>3. QED
  BY <1>1, <1>2, MovesKept

LEMMA Inductive ==
    ASSUME IInv, [Next]_vars
    PROVE  IInv'
<1>1. TypeOK'
  BY TypesKept
<1>2. ASSUME NEW c \in Caller,
             \/ Begin(c, "prepare") \/ Begin(c, "inspect")
             \/ Enter(c) \/ Reserve(c) \/ Committed(c) \/ Abort(c)
             \/ Inspect(c) \/ Checked(c)
      PROVE  IInv'
  BY <1>1, <1>2, BeginKept, EnterKept, ReserveKept, CommittedKept, AbortKept, InspectKept,
     CheckedKept
<1>3. ASSUME NEW c \in Caller, Setup(c) \/ Release(c) \/ Publish(c) \/ PublishUnknown(c)
      PROVE  IInv'
  BY <1>1, <1>3, SetupKept, ReleaseKept, PublishKept, PublishUnknownKept
<1>4. CASE Load \/ LoadFails \/ CommitStarts \/ CommitChecks
  BY <1>1, <1>4, LoadKept, CommitStartsKept, CommitChecksKept
<1>5. CASE RepairTruncates \/ RepairCloses \/ CommitFails \/ Check \/ CheckFails
  BY <1>1, <1>5, RepairTruncatesKept, RepairClosesKept, CommitFailsKept, CheckKept
<1>6. CASE Create \/ Initializes \/ CreatedFails
  BY <1>1, <1>6, UnknownKept, InitializesKept, CreatedFailsShape, GivesUpKept
<1>7. ASSUME NEW l \in Life, Emit(l) \/ Dispose(l) \/ Write(l) \/ Drain(l)
      PROVE  IInv'
  BY <1>1, <1>7, EmitKept, DisposeKept, WriteKept, DrainKept
<1>8. CASE AppendStarts \/ AppendEnds \/ AppendFails \/ Forget
  BY <1>1, <1>8, AppendStartsKept, AppendEndsKept, AppendFailsKept, ForgetKept
<1>9. CASE Evict \/ Foreign \/ Reload \/ Crash
  BY <1>1, <1>9, EvictKept, ForeignKept, ReloadKept, CrashKept
<1>10. CASE UNCHANGED vars
  BY <1>1, <1>10, Stuttering
<1>11. QED
  BY <1>2, <1>3, <1>4, <1>5, <1>6, <1>7, <1>8, <1>9, <1>10 DEF Next, Initializes

(* The inductive invariant holds in every state that can be reached.       *)
THEOREM Invariance == Spec => []IInv
<1>1. Init => IInv
  BY Initial
<1>2. IInv /\ [Next]_vars => IInv'
  BY Inductive
<1>3. QED
  BY <1>1, <1>2, PTL DEF Spec

(* For any number of callers, Sessions and preparations every variable has *)
(* its type, and while the pool knows the id no Session of it is live.     *)
THEOREM PreparedOrLiveCorrect == Spec => []Inv
<1>1. IInv => Inv
  BY DEF IInv, Inv, OneLive
<1>2. QED
  BY <1>1, Invariance, PTL

(* Whoever writes owns the state, and the log is the beginning of the      *)
(* owner's history, up to the cursor.                                      *)
THEOREM HistoryCorrect == Spec => []OneHistory
<1>1. IInv => OneHistory
  BY DEF IInv
<1>2. QED
  BY <1>1, Invariance, PTL

(* What a controller has written stays in the log, and a Session whose     *)
(* retirement succeeded is durable to its last event.                      *)
THEOREM WrittenCorrect == Spec => []WrittenStays
<1>1. IInv => WrittenStays
  BY DEF IInv
<1>2. QED
  BY <1>1, Invariance, PTL

LEMMA ReservationsHold ==
    ASSUME IInv
    PROVE  ReservationHolds
<1>1. TypeOK
  BY DEF IInv
<1>2. ASSUME NEW c \in Caller, Reserves(c)
      PROVE  /\ <<call[c].source.log, FALSE>> = disk
             /\ state.owner = None
             /\ state.cursor = Len(log)
             /\ IsPrefix(log, call[c].source.session)
  <2>1. Holder(c) /\ Committable(c) /\ entry.id = call[c].draft
    BY <1>2 DEF Reserves, Holder, Committable
  <2>2. Good(call[c].source) /\ call[c].source.log = log /\ ~torn /\ state.owner = None
    BY <2>1 DEF IInv, Callers
  <2>3. torn = FALSE
    BY <1>1, <2>2 DEF TypeOK
  <2>4. state.cursor = Len(log)
    BY <2>2 DEF IInv, Tracked
  <2>5. IsPrefix(log, call[c].source.session)
    BY <2>2 DEF Good
  <2>6. QED
    BY <2>2, <2>3, <2>4, <2>5 DEF disk
<1>3. ASSUME entry.phase = "ready",
             NEW i \in Len(entry.source.log) + 1 .. Len(entry.source.session)
      PROVE  entry.source.session[i].kind # "note"
  <2>1. PICK s : s = entry.source
    OBVIOUS
  <2>2. Good(s) /\ Len(s.session) = Base(s)
    BY <1>3, <2>1 DEF IInv, Callers
  <2>3. Len(s.log) \in Nat /\ Len(s.session) \in Nat
    BY <2>2, LenProperties DEF Good, Source
  <2>4. i \in 1..Base(s) /\ i > Len(s.log)
    BY <1>3, <2>1, <2>2, <2>3
  <2>5. QED
    BY <2>1, <2>2, <2>4 DEF Good
<1>4. QED
  BY <1>2, <1>3 DEF ReservationHolds

(* A reservation is as it was committed until it is used: what             *)
(* attachPrepared checks always holds.                                     *)
THEOREM ReservationCorrect == Spec => []ReservationHolds
<1>1. IInv => ReservationHolds
  BY ReservationsHold
<1>2. QED
  BY <1>1, Invariance, PTL

-----------------------------------------------------------------------------
(* Which steps write the log, and what they write.                         *)
LEMMA WhoWrites ==
    ASSUME IInv, [Next]_vars
    PROVE  log' = log \/ RepairCloses \/ AppendEnds \/ Foreign \/ Reload \/ Crash
<1>1. ASSUME NEW c \in Caller,
             \/ Begin(c, "prepare") \/ Begin(c, "inspect")
             \/ Enter(c) \/ Reserve(c) \/ Committed(c) \/ Abort(c)
             \/ Inspect(c) \/ Checked(c)
             \/ Setup(c) \/ Release(c) \/ Publish(c) \/ PublishUnknown(c)
      PROVE  log' = log
  <2>1. CASE Begin(c, "prepare") \/ Begin(c, "inspect") \/ Enter(c)
    BY <2>1 DEF Begin, Enter
  <2>2. CASE Reserve(c) \/ Committed(c) \/ Abort(c)
    BY <2>2 DEF Reserve, Committed, Abort
  <2>3. CASE Inspect(c) \/ Checked(c)
    BY <2>3 DEF Inspect, Checked
  <2>4. CASE Setup(c)
    BY <2>4 DEF Setup
  <2>5. CASE Release(c)
    BY <2>5 DEF Release
  <2>6. CASE Publish(c)
    BY <2>6 DEF Publish
  <2>7. CASE PublishUnknown(c)
    BY <2>7 DEF PublishUnknown
  <2>8. QED
    BY <1>1, <2>1, <2>2, <2>3, <2>4, <2>5, <2>6, <2>7
<1>2. CASE Load \/ LoadFails \/ CommitStarts \/ CommitChecks
  BY <1>2 DEF Load, LoadFails, CommitStarts, CommitChecks
<1>3. CASE RepairTruncates \/ CommitFails \/ Check \/ CheckFails
  BY <1>3 DEF RepairTruncates, CommitFails, Check, CheckFails
<1>4. CASE Create
  BY <1>4 DEF Create
<1>5. CASE Initializes \/ CreatedFails
  BY <1>5, CreatedShape, CreatedFailsShape
<1>6. ASSUME NEW l \in Life, Emit(l) \/ Dispose(l) \/ Write(l) \/ Drain(l)
      PROVE  log' = log
  BY <1>6 DEF Emit, Dispose, Write, Drain
<1>7. CASE AppendStarts \/ AppendFails \/ Forget
  BY <1>7 DEF AppendStarts, AppendFails, Forget
<1>8. CASE Evict
  BY <1>8 DEF Evict
<1>9. CASE UNCHANGED vars
  BY <1>9 DEF vars
<1>10. QED
  BY <1>1, <1>2, <1>3, <1>4, <1>5, <1>6, <1>7, <1>8, <1>9 DEF Next, Initializes

LEMMA RepairsCold ==
    ASSUME IInv, [Next]_vars, NEW n \in Len(log) + 1 .. Len(log'), log'[n].by = "closer"
    PROVE  NobodyWrites
<1>1. TypeOK
  BY DEF IInv
<1>2. log \in Seq(Event)
  BY <1>1 DEF TypeOK
<1>3. PICK b \in Nat : b = Len(log)
  BY <1>2
<1>4. CASE log' = log
  BY <1>2, <1>4, LenProperties
<1>5. CASE RepairCloses
  <2>1. step = "repair"
    BY <1>5 DEF RepairCloses, Running
  <2>2. QED
    BY <2>1, RepairsNobody
<1>6. CASE AppendEnds
  <2>1. Appending("append") /\ log' = log \o Fresh
    BY <1>6 DEF AppendEnds
  <2>2. PICK p \in Seq(Event) : p = Fresh
    BY <2>1, FreshShape
  <2>3. \A i \in 1..Len(p) : p[i].by # "closer"
    BY <2>1, <2>2, FreshIsNoRepair
  <2>4. PICK k \in Nat : k = Len(p)
    OBVIOUS
  <2>5. Len(log') = b + k /\ \A i \in 1..k : log'[b + i] = p[i]
    BY <1>2, <1>3, <2>1, <2>2, <2>4, Joined
  <2>6. PICK i \in 1..k : n = b + i
    <3>1. n - b \in 1..k /\ n = b + (n - b)
      BY <1>3, <2>5
    <3>2. QED
      BY <3>1
  <2>7. QED
    BY <2>3, <2>4, <2>5, <2>6
<1>7. CASE Foreign
  <2>1. PICK e : e = NextOf(log, "foreign")
    OBVIOUS
  <2>2. e \in Event /\ e.by = "foreign"
    BY <2>1 DEF NextOf, Event
  <2>3. log' = Append(log, e)
    BY <1>7, <2>1 DEF Foreign
  <2>4. Len(log') = b + 1 /\ log'[b + 1] = e
    BY <1>2, <1>3, <2>2, <2>3, Appended
  <2>5. n = b + 1
    BY <1>3, <2>4
  <2>6. QED
    BY <2>2, <2>4, <2>5
<1>8. ASSUME NEW p \in Seq(Event), PartlyAppended(p)
      PROVE  \E i \in 1..Len(p) : p[i].by = "closer"
  <2>1. \A i \in 1..Len(log') : i > b =>
           i - b \in 1..Len(p) /\ log'[i] = p[i - b]
    BY <1>1, <1>3, <1>8, PartShape
  <2>2. n \in 1..Len(log') /\ n > b
    <3>1. PICK m \in Nat : m = Len(log')
      <4>1. log' \in Seq(Event)
        BY <1>1, <1>8, PartShape
      <4>2. QED
        BY <4>1
    <3>2. QED
      BY <1>3, <3>1
  <2>3. QED
    BY <2>1, <2>2
<1>9. CASE Reload
  <2>1. PartlyAppended(Unflushed)
    BY <1>9 DEF Reload
  <2>2. QED
    BY <1>8, <2>1, UnflushedShape
<1>10. CASE Crash
  <2>1. PartlyAppended(CrashTail)
    BY <1>10 DEF Crash
  <2>2. QED
    BY <1>8, <2>1, CrashTailShape
<1>11. QED
  BY <1>4, <1>5, <1>6, <1>7, <1>9, <1>10, WhoWrites

(* Crash repair is cold-only: whenever the log grows by a closer, no       *)
(* Session is live or has events left to write.                            *)
THEOREM ColdRepairCorrect == Spec => ColdRepairOnly
<1>1. IInv /\ [Next]_vars =>
         [ \A n \in Len(log) + 1 .. Len(log') : log'[n].by = "closer" =>
              \A l \in Life : ses[l].at # "live" /\ (ses[l].init = "ok" => ~HasWork(l))
         ]_log
  BY RepairsCold DEF NobodyWrites
<1>2. QED
  BY <1>1, Invariance, PTL DEF Spec, ColdRepairOnly
=============================================================================
