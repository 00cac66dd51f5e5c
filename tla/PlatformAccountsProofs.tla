----------------------- MODULE PlatformAccountsProofs -----------------------
(***************************************************************************)
(* What holds of accounts and runtime slots for every set of users,        *)
(* requests and connections: no two accounts have the same runtime, and a  *)
(* handler that runs alone keeps its promises.  The inductive invariant    *)
(* adds what open transactions have bound and not committed, and, while    *)
(* handlers run one by one, that they all use one connection and where its *)
(* transaction is.                                                         *)
(***************************************************************************)
EXTENDS PlatformAccounts, SequenceTheorems, FiniteSetTheorems, WellFoundedInduction, TLAPS

(* An administrator has been made; what a transaction writes has too; only *)
(* an open transaction holds anything.                                     *)
Written ==
    /\ \A u \in User : row[u].admin => row[u].made
    /\ \A c \in Conn, u \in User : u \in tx[c].writes => tx[c].row[u].made
    /\ \A c \in Conn : tx[c].state # "open" =>
          tx[c].writes = {} /\ tx[c].locks = {} /\ \A u \in User : tx[c].bound[u] = NoSlot

(* A runtime that is bound and not committed: its slot and its account are *)
(* bound nowhere else, and the account is there for the transaction.       *)
Bound(c, u) == tx[c].bound[u] # NoSlot

Bindings ==
    \A c \in Conn, u \in User : Bound(c, u) =>
      /\ VisibleUser(c, u).made
      /\ row[u].slot = NoSlot
      /\ \A v \in User : row[v].slot # tx[c].bound[u]
      /\ \A d \in Conn, v \in User : Bound(d, v) =>
           /\ tx[d].bound[v] = tx[c].bound[u] => d = c /\ v = u
           /\ v = u => d = c

(* The statements of POST, outside and inside its transaction, and those   *)
(* of PATCH, of which some follow the count of administrators, or the      *)
(* finding that none is needed; a request that is not in flight has no     *)
(* connection.                                                             *)
Before == {"auth", "begin", "read", "checkRuntime", "checkBoth", "count", "update"}
Decided == {"checkRuntime", "update"}
Inside == {"pick", "lock", "insertUser", "insertRuntime", "commit", "rollback"}

Stages ==
    \A r \in Req :
      /\ req[r].pc \in Inside \cup {"begin"} => req[r].post
      /\ r \notin InFlight => req[r].conn = NoConn
      /\ req[r].pc \in {"lock", "insertUser", "insertRuntime"} => slot[r] # NoSlot
      /\ answer[r] = "created" => req[r].pc = "done"

-----------------------------------------------------------------------------
(* Handlers one by one: the pool never has more than one connection; its   *)
(* transaction is that of the request in flight.                           *)
Closed(c) == tx[c].state = "none"

Uses(r, c) == req[r].conn = c \/ (req[r].conn = NoConn /\ idle = <<c>>)

Progress(r, c) ==
    LET u == req[r].user
    IN  /\ tx[c].state = "open"
        /\ req[r].pc \in {"pick", "lock", "insertUser"} =>
              tx[c].writes = {} /\ \A v \in User : ~Bound(c, v)
        /\ req[r].pc = "insertRuntime" =>
              tx[c].writes = {u} /\ ~row[u].made /\ \A v \in User : ~Bound(c, v)
        /\ req[r].pc = "commit" =>
              /\ tx[c].writes = {u} /\ ~row[u].made
              /\ \A v \in User : Bound(c, v) <=> v = u

Admin(v) == row[v].made /\ row[v].admin /\ row[v].active

OnePool ==
    /\ \A q, r \in InFlight : q = r
    /\ InFlight = {} => \A c \in Conn : Closed(c)
    /\ Len(idle) <= 1
    /\ \A r \in InFlight : req[r].conn # NoConn => idle = <<>>

OneHandler ==
    \A r \in InFlight :
      /\ req[r].pc \in Before => \A c \in Conn : Closed(c)
      /\ req[r].pc \in Inside =>
            \E c \in Conn :
              /\ Uses(r, c)
              /\ \A d \in Conn \ {c} : Closed(d)
              /\ req[r].pc # "rollback" => Progress(r, c)
      /\ req[r].pc \in Decided /\ Removes(row[req[r].user], req[r].change) =>
            \E v \in User \ {req[r].user} : Admin(v)

Kept ==
    /\ \E v \in User : Admin(v)
    /\ \A u \in User : row[u].made => row[u].slot # NoSlot
    /\ \A r \in Req : answer[r] = "created" => row[req[r].user].made

Alone == alone => OnePool /\ OneHandler /\ Kept

IInv == TypeOK /\ SlotsExclusive /\ Written /\ Bindings /\ Stages /\ Alone

-----------------------------------------------------------------------------
(* The pool's idle connections.                                            *)
LEMMA IdleFacts ==
    ASSUME TypeOK
    PROVE  /\ Len(idle) \in Nat /\ DOMAIN idle = 1..Len(idle)
           /\ idle # <<>> => /\ Last(idle) \in Conn /\ Front(idle) \in Seq(Conn)
                             /\ Len(Front(idle)) = Len(idle) - 1
           /\ \A i \in DOMAIN idle : /\ RemoveAt(idle, i) \in Seq(Conn)
                                     /\ Len(RemoveAt(idle, i)) = Len(idle) - 1
           /\ \A c \in Conn : /\ Append(idle, c) \in Seq(Conn)
                              /\ Len(Append(idle, c)) = Len(idle) + 1
<1> USE DEF TypeOK
<1>1. Len(idle) \in Nat /\ DOMAIN idle = 1..Len(idle) /\ \A i \in 1..Len(idle) : idle[i] \in Conn
  BY LenProperties, ElementOfSeq
<1>2. ASSUME idle # <<>>
      PROVE  /\ Last(idle) \in Conn /\ Front(idle) \in Seq(Conn)
             /\ Len(Front(idle)) = Len(idle) - 1
  <2>1. Len(idle) \in Nat \ {0}
    BY <1>2, EmptySeq
  <2>2. QED
    BY <1>1, <2>1, SubSeqProperties, 1 \in Int, Len(idle) - 1 \in Int DEF Last, Front
<1>3. ASSUME NEW i \in DOMAIN idle
      PROVE  RemoveAt(idle, i) \in Seq(Conn) /\ Len(RemoveAt(idle, i)) = Len(idle) - 1
  <2>1. /\ SubSeq(idle, 1, i - 1) \in Seq(Conn)
        /\ Len(SubSeq(idle, 1, i - 1)) = i - 1
    BY <1>1, SubSeqProperties, 1 \in Int, i - 1 \in Int
  <2>2. /\ SubSeq(idle, i + 1, Len(idle)) \in Seq(Conn)
        /\ Len(SubSeq(idle, i + 1, Len(idle))) = Len(idle) - i
    BY <1>1, SubSeqProperties, i + 1 \in Int, Len(idle) \in Int
  <2>3. QED
    BY <1>1, <2>1, <2>2, ConcatProperties DEF RemoveAt
<1>4. \A c \in Conn : Append(idle, c) \in Seq(Conn) /\ Len(Append(idle, c)) = Len(idle) + 1
  BY AppendProperties
<1>5. QED
  BY <1>1, <1>2, <1>3, <1>4

(* The first of a set of slots is one of them.                             *)
LEMMA FirstIn ==
    ASSUME NEW S \in SUBSET Slot, S # {}
    PROVE  First(S) \in S
<1>1. S \subseteq Nat
  BY FoundersAssumption DEF Slot
<1>2. PICK s \in S : \A t \in S : ~(<<t, s>> \in OpToRel(<, Nat))
  BY Zenon, <1>1, WFMin, NatLessThanWellFounded
<1>3. \A x, y \in Nat : <<x, y>> \in OpToRel(<, Nat) <=> x < y
  BY Zenon DEF OpToRel
<1>4. \A t \in S : ~(t < s)
  BY Zenon, <1>1, <1>2, <1>3
<1>5. \A t \in S : s <= t
  BY <1>1, <1>4
<1>6. QED
  BY <1>5 DEF First

(* What a connection sees, by components.                                  *)
LEMMA VisibleFacts ==
    ASSUME TypeOK, NEW c \in Conn
    PROVE  /\ Visible(c) \in [User -> Row]
           /\ \A u \in User :
                /\ Visible(c)[u].slot = IF Bound(c, u) THEN tx[c].bound[u] ELSE row[u].slot
                /\ Visible(c)[u].released = row[u].released
                /\ Visible(c)[u].made = IF u \in tx[c].writes THEN tx[c].row[u].made
                                        ELSE row[u].made
                /\ Visible(c)[u].admin = IF u \in tx[c].writes THEN tx[c].row[u].admin
                                         ELSE row[u].admin
                /\ Visible(c)[u].active = IF u \in tx[c].writes THEN tx[c].row[u].active
                                          ELSE row[u].active
           /\ \A u \in User : u \notin tx[c].writes /\ ~Bound(c, u) => Visible(c)[u] = row[u]
<1>1. ASSUME NEW u \in User
      PROVE  /\ VisibleUser(c, u) \in Row
             /\ VisibleSlot(c, u) \in Slot \cup {NoSlot}
             /\ row[u] \in Row /\ row[u].released \in BOOLEAN
  BY DEF TypeOK, Row, VisibleUser, VisibleSlot
<1>2. ASSUME NEW u \in User
      PROVE  /\ Visible(c)[u] \in Row
             /\ Visible(c)[u].slot = VisibleSlot(c, u)
             /\ Visible(c)[u].released = row[u].released
             /\ Visible(c)[u].made = VisibleUser(c, u).made
             /\ Visible(c)[u].admin = VisibleUser(c, u).admin
             /\ Visible(c)[u].active = VisibleUser(c, u).active
             /\ VisibleSlot(c, u) = row[u].slot /\ VisibleUser(c, u) = row[u]
                   => Visible(c)[u] = row[u]
  <2>1. Visible(c)[u] = [VisibleUser(c, u) EXCEPT !.slot = VisibleSlot(c, u),
                                                  !.released = row[u].released]
    BY DEF Visible
  <2>2. PICK t \in Row : t = VisibleUser(c, u)
    BY <1>1
  <2>3. PICK s \in Slot \cup {NoSlot} : s = VisibleSlot(c, u)
    BY <1>1
  <2>4. QED
    <3>1. Visible(c)[u] = [t EXCEPT !.slot = s, !.released = row[u].released]
      BY <2>1, <2>2, <2>3
    <3>2. PICK b \in BOOLEAN : b = row[u].released
      BY <1>1
    <3>3. PICK v : v = Visible(c)[u]
      OBVIOUS
    <3>4. v = [t EXCEPT !.slot = s, !.released = b]
      BY <3>1, <3>2, <3>3
    <3>5. /\ v \in Row /\ v.slot = s /\ v.released = b /\ v.made = t.made
          /\ v.admin = t.admin /\ v.active = t.active
          /\ s = t.slot /\ b = t.released => v = t
      <4>1. PICK w \in Row : w = [t EXCEPT !.slot = s]
        BY DEF Row
      <4>2. v = [w EXCEPT !.released = b]
        BY <3>4, <4>1
      <4>3. v \in Row /\ v.slot = s /\ v.released = b
        BY <4>1, <4>2 DEF Row
      <4>4. v.made = t.made /\ v.admin = t.admin /\ v.active = t.active
        BY <4>1, <4>2 DEF Row
      <4>5. s = t.slot /\ b = t.released => v = t
        BY <4>1, <4>2 DEF Row
      <4>6. QED
        BY <4>3, <4>4, <4>5
    <3>6. QED
      BY <2>2, <2>3, <3>2, <3>3, <3>5
<1>3. Visible(c) \in [User -> Row]
  BY <1>2 DEF Visible
<1>4. QED
  BY <1>2, <1>3 DEF VisibleUser, VisibleSlot, Bound

Tx == [state : {"none", "open", "failed"}, writes : SUBSET User, row : [User -> Row],
       bound : [User -> Slot \cup {NoSlot}], locks : SUBSET Slot]

LEMMA NewTypes ==
    /\ Absent \in Row
    /\ \A t \in {NoTx, FailedTx} : /\ t \in Tx /\ t.writes = {} /\ t.locks = {}
                                   /\ \A u \in User : t.bound[u] = NoSlot
    /\ NoTx.state = "none" /\ FailedTx.state = "failed"
<1>1. Absent \in Row
  BY DEF Absent, Row, Id
<1>2. NoTx \in Tx
  BY <1>1 DEF NoTx, Tx
<1>3. FailedTx \in Tx
  BY <1>2 DEF FailedTx, Tx
<1>4. QED
  BY <1>1, <1>2, <1>3 DEF NoTx, FailedTx

(* The transaction of a connection, changed.                               *)
LEMMA TxTypes ==
    ASSUME TypeOK, NEW c \in Conn
    PROVE  /\ tx[c] \in Tx
           /\ \A t \in Tx : [tx EXCEPT ![c] = t] \in [Conn -> Tx]
           /\ [tx EXCEPT ![c].state = "open"] \in [Conn -> Tx]
           /\ \A L \in SUBSET Slot : [tx EXCEPT ![c].locks = L] \in [Conn -> Tx]
           /\ \A u \in User, s \in Slot : [tx EXCEPT ![c].bound[u] = s] \in [Conn -> Tx]
           /\ \A u \in User, r \in Row :
                 [tx EXCEPT ![c].writes = @ \cup {u}, ![c].row[u] = r] \in [Conn -> Tx]
<1>1. tx \in [Conn -> Tx] /\ tx[c] \in Tx
  BY DEF TypeOK, Tx
<1>2. \A t \in Tx : [tx EXCEPT ![c] = t] \in [Conn -> Tx]
  BY <1>1
<1>3. [tx EXCEPT ![c].state = "open"] \in [Conn -> Tx]
  BY <1>1 DEF Tx
<1>4. \A L \in SUBSET Slot : [tx EXCEPT ![c].locks = L] \in [Conn -> Tx]
  BY <1>1 DEF Tx
<1>5. \A u \in User, s \in Slot : [tx EXCEPT ![c].bound[u] = s] \in [Conn -> Tx]
  BY <1>1 DEF Tx
<1>6. ASSUME NEW u \in User, NEW r \in Row
      PROVE  [tx EXCEPT ![c].writes = @ \cup {u}, ![c].row[u] = r] \in [Conn -> Tx]
  BY <1>1 DEF Tx
<1>7. QED
  BY <1>1, <1>2, <1>3, <1>4, <1>5, <1>6

-----------------------------------------------------------------------------
(* What a step does to the database.                                       *)
LEMMA RowTypes ==
    ASSUME TypeOK, NEW u \in User
    PROVE  /\ \A r \in Row : [r EXCEPT !.slot = row[u].slot, !.released = row[u].released] \in Row
           /\ \A r \in Row : [row EXCEPT ![u] = r] \in [User -> Row]
           /\ \A s \in Slot : [row EXCEPT ![u].slot = s] \in [User -> Row]
           /\ [row EXCEPT ![u].released = TRUE] \in [User -> Row]
<1>1. row \in [User -> Row] /\ row[u] \in Row
  BY DEF TypeOK
<1>2. row[u].slot \in Slot \cup {NoSlot} /\ row[u].released \in BOOLEAN
  BY <1>1 DEF Row
<1>3. QED
  BY <1>1, <1>2 DEF Row

LEMMA WriteTypes ==
    ASSUME TypeOK, NEW c \in Conn, NEW u \in User, NEW r \in Row, Write(c, u, r)
    PROVE  row' \in [User -> Row] /\ tx' \in [Conn -> Tx]
<1>1. CASE tx[c].state = "open"
  <2>1. tx' = [tx EXCEPT ![c].writes = @ \cup {u}, ![c].row[u] = r] /\ row' = row
    BY <1>1 DEF Write
  <2>2. tx' \in [Conn -> Tx]
    BY <2>1, TxTypes
  <2>3. QED
    BY <2>1, <2>2 DEF TypeOK
<1>2. CASE tx[c].state # "open"
  <2>1. PICK t \in Row : t = [r EXCEPT !.slot = row[u].slot, !.released = row[u].released]
    BY RowTypes
  <2>2. row' = [row EXCEPT ![u] = t] /\ tx' = tx
    BY <1>2, <2>1 DEF Write
  <2>3. QED
    BY <2>2, RowTypes DEF TypeOK, Tx
<1>3. QED
  BY <1>1, <1>2

(* A handler is given a connection.                                        *)
LEMMA GivenTypes ==
    ASSUME TypeOK, NEW r \in Req, NEW c \in Conn, req' = [req EXCEPT ![r].conn = c],
           idle' \in Seq(Conn), UNCHANGED <<row, tx, slot, answer, alone>>
    PROVE  TypeOK'
<1> DEFINE Request == [pc : Pc, post : BOOLEAN, actor : User, user : User, id : Id,
                       change : Changes, conn : Conn \cup {NoConn}]
<1>1. req \in [Req -> Request]
  BY DEF TypeOK
<1>2. [req[r] EXCEPT !.conn = c] \in Request
  BY <1>1
<1>3. req' \in [Req -> Request]
  BY <1>1, <1>2
<1> HIDE DEF Request
<1>4. row' = row /\ tx' = tx /\ slot' = slot /\ answer' = answer /\ alone' = alone
  OBVIOUS
<1>5. QED
  BY <1>3, <1>4 DEF TypeOK, Request

(* A handler has looked at a slot, and goes on or waits.                   *)
LEMMA PickedTypes ==
    ASSUME TypeOK, NEW r \in Req, NEW s \in Slot, slot' = [slot EXCEPT ![r] = s],
           req' = [req EXCEPT ![r].pc = "lock"], UNCHANGED <<row, tx, idle, answer, alone>>
    PROVE  TypeOK'
<1> DEFINE Request == [pc : Pc, post : BOOLEAN, actor : User, user : User, id : Id,
                       change : Changes, conn : Conn \cup {NoConn}]
<1>1. req \in [Req -> Request]
  BY DEF TypeOK
<1>2. [req[r] EXCEPT !.pc = "lock"] \in Request
  BY <1>1 DEF Pc
<1>3. req' \in [Req -> Request]
  BY <1>1, <1>2
<1>4. slot' \in [Req -> Slot \cup {NoSlot}]
  BY DEF TypeOK
<1> HIDE DEF Request
<1>5. row' = row /\ tx' = tx /\ idle' = idle /\ answer' = answer /\ alone' = alone
  OBVIOUS
<1>6. QED
  BY <1>3, <1>4, <1>5 DEF TypeOK, Request

LEMMA TypesKept ==
    ASSUME TypeOK, Stages, [Next]_vars
    PROVE  TypeOK'
<1> DEFINE Request == [pc : Pc, post : BOOLEAN, actor : User, user : User, id : Id,
                       change : Changes, conn : Conn \cup {NoConn}]
<1>1. CASE UNCHANGED vars
  BY <1>1 DEF TypeOK, vars
<1>2. ASSUME NEW r \in Req, NEW pc \in Pc, Resume(r, pc), req[r].conn # NoConn
      PROVE  req' \in [Req -> Request] /\ idle' \in Seq(Conn) /\ alone' \in BOOLEAN
  BY <1>2, IdleFacts DEF TypeOK, Resume
<1>3. ASSUME NEW r \in Req, NEW a \in {"none", "ok", "created", "noSlot", "exists", "refused", "failed"},
             Fails(r, a), req[r].conn # NoConn
      PROVE  TypeOK'
  <2>1. tx' \in [Conn -> Tx]
    <3>1. req[r].conn \in Conn
      BY <1>3 DEF TypeOK
    <3>2. QED
      BY <1>3, <3>1, NewTypes, TxTypes DEF Fails
  <2>2. req' \in [Req -> Request] /\ idle' \in Seq(Conn) /\ alone' \in BOOLEAN
    BY <1>2, <1>3 DEF Fails, Pc
  <2>3. QED
    BY <1>3, <2>1, <2>2 DEF TypeOK, Fails, Tx
<1>4. ASSUME NEW r \in Req, Arrive(r) PROVE TypeOK'
  BY <1>4 DEF TypeOK, Arrive, Pc
<1>5. ASSUME NEW r \in Req, Issue(r) PROVE TypeOK'
  <2> DEFINE used == ToSet(idle) \cup {req[q].conn : q \in Req}
             fresh == CHOOSE c \in Conn : c \notin used
  <2>1. CASE idle # <<>>
    <3>1. /\ req' = [req EXCEPT ![r].conn = Last(idle)] /\ idle' = Front(idle)
          /\ UNCHANGED <<row, tx, slot, answer, alone>>
      BY <1>5, <2>1 DEF Issue
    <3>2. PICK c \in Conn : c = Last(idle)
      BY <2>1, IdleFacts
    <3>3. req' = [req EXCEPT ![r].conn = c] /\ idle' \in Seq(Conn)
      BY <2>1, <3>1, <3>2, IdleFacts
    <3>4. UNCHANGED <<row, tx, slot, answer, alone>>
      BY <3>1
    <3>5. QED
      BY <3>3, <3>4, GivenTypes
  <2>2. CASE idle = <<>>
    <3>1. fresh \in Conn
      BY <1>5, <2>2 DEF Issue
    <3>2. req' = [req EXCEPT ![r].conn = fresh] /\ UNCHANGED <<row, tx, slot, answer, alone, idle>>
      BY <1>5, <2>2 DEF Issue
    <3>3. PICK c \in Conn : c = fresh
      BY <3>1
    <3>4. req' = [req EXCEPT ![r].conn = c]
      BY <3>2, <3>3
    <3>5. UNCHANGED <<row, tx, slot, answer, alone, idle>>
      BY <3>2
    <3>6. QED
      <4>1. idle' \in Seq(Conn)
        BY <3>5 DEF TypeOK
      <4>2. QED
        BY <3>4, <3>5, <4>1, GivenTypes
  <2>3. QED
    BY <2>1, <2>2
<1>6. ASSUME NEW r \in Req, FailsInBrokenTx(r) PROVE TypeOK'
  BY <1>3, <1>6 DEF FailsInBrokenTx
<1>7. ASSUME NEW r \in Req, Auth(r) PROVE TypeOK'
  BY <1>2, <1>7 DEF TypeOK, Auth, At, Respond, Continue, Pc
<1>8. ASSUME NEW r \in Req, Begin(r) PROVE TypeOK'
  <2>1. req[r].conn \in Conn /\ req[r].conn # NoConn
    BY <1>8 DEF TypeOK, Begin, At
  <2>2. tx' \in [Conn -> Tx]
    BY <1>8, <2>1, TxTypes DEF Begin, Begun
  <2>3. QED
    BY <1>2, <1>8, <2>1, <2>2 DEF TypeOK, Begin, Continue, Pc, Tx
<1>9. ASSUME NEW r \in Req, Pick(r) PROVE TypeOK'
  <2>1. FreeSlots(req[r].conn) # {} => First(FreeSlots(req[r].conn)) \in Slot
    BY FirstIn DEF FreeSlots
  <2>2. QED
    <3> DEFINE c == req[r].conn
               s == First(FreeSlots(c))
    <3>1. c \in Conn /\ c # NoConn
      BY <1>9 DEF TypeOK, Pick, At
    <3>2. CASE FreeSlots(c) = {}
      BY <1>2, <1>9, <3>1, <3>2 DEF TypeOK, Pick, Pc
    <3>3. CASE FreeSlots(c) # {} /\ ~SlotLocked(c, s)
      <4>1. LockSlot(c, s) /\ Continue(r, "insertUser") /\ slot' = [slot EXCEPT ![r] = s]
            /\ UNCHANGED row
        BY <1>9, <3>3 DEF Pick
      <4>2. tx' \in [Conn -> Tx]
        <5>1. tx[c].locks \in SUBSET Slot /\ s \in Slot
          BY <2>1, <3>1, <3>3, TxTypes DEF Tx
        <5>2. PICK L \in SUBSET Slot : L = IF tx[c].state = "open" THEN tx[c].locks \cup {s}
                                           ELSE tx[c].locks
          BY <5>1
        <5>3. tx' = [tx EXCEPT ![c].locks = L]
          BY <4>1, <5>2 DEF LockSlot
        <5>4. QED
          BY <3>1, <5>3, TxTypes
      <4>3. QED
        BY <1>2, <2>1, <3>1, <3>3, <4>1, <4>2 DEF TypeOK, Continue, Pc, Tx
    <3>4. CASE FreeSlots(c) # {} /\ SlotLocked(c, s)
      <4>1. /\ slot' = [slot EXCEPT ![r] = s] /\ req' = [req EXCEPT ![r].pc = "lock"]
            /\ UNCHANGED <<row, tx, idle, answer, alone>>
        BY <1>9, <3>4 DEF Pick
      <4>2. QED
        BY <2>1, <3>4, <4>1, PickedTypes
    <3>5. QED
      BY <3>2, <3>3, <3>4
<1>10. ASSUME NEW r \in Req, PickWaited(r) PROVE TypeOK'
  <2>1. req[r].conn \in Conn /\ req[r].conn # NoConn /\ slot[r] \in Slot
    BY <1>10 DEF TypeOK, Stages, PickWaited, At
  <2> DEFINE c == req[r].conn
  <2>2. PICK L \in SUBSET Slot : tx' = [tx EXCEPT ![c].locks = L]
    <3>1. tx[c].locks \in SUBSET Slot
      BY <2>1, TxTypes DEF Tx
    <3>2. PICK L \in SUBSET Slot : L = IF tx[c].state = "open" THEN tx[c].locks \cup {slot[r]}
                                       ELSE tx[c].locks
      BY <2>1, <3>1
    <3>3. tx' = [tx EXCEPT ![c].locks = L]
      BY <1>10, <3>2 DEF PickWaited, LockSlot
    <3>4. QED
      BY <3>3
  <2>3. tx' \in [Conn -> Tx]
    BY <2>1, <2>2, TxTypes
  <2>4. QED
    BY <1>2, <1>10, <2>1, <2>3 DEF TypeOK, PickWaited, Continue, Pc, Tx
<1>11. ASSUME NEW r \in Req, InsertUser(r) PROVE TypeOK'
  <2>1. CASE Fails(r, "exists")
    BY <1>3, <1>11, <2>1 DEF InsertUser, At
  <2>2. CASE ~Fails(r, "exists")
    <3> DEFINE t == [Absent EXCEPT !.made = TRUE, !.id = r, !.active = TRUE,
                                   !.admin = ("promote" \in req[r].change)]
    <3>1. t \in Row
      <4>1. ("promote" \in req[r].change) \in BOOLEAN
        OBVIOUS
      <4>2. QED
        BY <4>1, NewTypes DEF Row, Id
    <3>2. /\ Write(req[r].conn, req[r].user, t) /\ Continue(r, "insertRuntime")
          /\ UNCHANGED slot /\ req[r].conn \in Conn /\ req[r].user \in User
      BY <1>11, <2>2 DEF TypeOK, InsertUser, At
    <3>3. row' \in [User -> Row] /\ tx' \in [Conn -> Tx]
      BY <3>1, <3>2, WriteTypes
    <3>4. QED
      BY <1>2, <1>11, <3>2, <3>3 DEF TypeOK, InsertUser, At, Continue, Pc, Tx
  <2>3. QED
    BY <2>1, <2>2
<1>12. ASSUME NEW r \in Req, InsertRuntime(r) PROVE TypeOK'
  <2>1. CASE Fails(r, "exists") \/ Fails(r, "failed")
    BY <1>3, <1>12, <2>1 DEF InsertRuntime, At
  <2>2. CASE ~(Fails(r, "exists") \/ Fails(r, "failed"))
    <3>1. /\ Bind(req[r].conn, req[r].user, slot[r]) /\ Continue(r, "commit")
          /\ UNCHANGED slot /\ req[r].conn \in Conn /\ req[r].user \in User
          /\ req[r].conn # NoConn /\ slot[r] \in Slot
      BY <1>12, <2>2 DEF TypeOK, Stages, InsertRuntime, At
    <3>2. row' \in [User -> Row] /\ tx' \in [Conn -> Tx]
      <4>1. CASE tx[req[r].conn].state = "open"
        <5>1. tx' = [tx EXCEPT ![req[r].conn].bound[req[r].user] = slot[r]] /\ row' = row
          BY <3>1, <4>1 DEF Bind
        <5>2. tx' \in [Conn -> Tx]
          BY <3>1, <5>1, TxTypes
        <5>3. QED
          BY <5>1, <5>2 DEF TypeOK
      <4>2. CASE tx[req[r].conn].state # "open"
        <5>1. row' = [row EXCEPT ![req[r].user].slot = slot[r]] /\ tx' = tx
          BY <3>1, <4>2 DEF Bind
        <5>2. row' \in [User -> Row]
          BY <3>1, <5>1, RowTypes
        <5>3. QED
          BY <5>1, <5>2 DEF TypeOK, Tx
      <4>3. QED
        BY <4>1, <4>2
    <3>3. QED
      BY <1>2, <3>1, <3>2 DEF TypeOK, Continue, Pc, Tx
  <2>3. QED
    BY <2>1, <2>2
<1>13. ASSUME NEW r \in Req, Commit(r) PROVE TypeOK'
  <2>1. req[r].conn \in Conn /\ req[r].conn # NoConn
    BY <1>13 DEF TypeOK, Commit, At
  <2>2. row' \in [User -> Row] /\ tx' \in [Conn -> Tx]
    BY <1>13, <2>1, VisibleFacts, NewTypes, TxTypes DEF TypeOK, Commit, Committed
  <2>3. QED
    BY <1>2, <1>13, <2>1, <2>2 DEF TypeOK, Commit, Respond, Pc, Tx
<1>14. ASSUME NEW r \in Req, Rollback(r) PROVE TypeOK'
  <2>1. req[r].conn \in Conn /\ req[r].conn # NoConn
    BY <1>14 DEF TypeOK, Rollback, At
  <2>2. tx' \in [Conn -> Tx]
    BY <1>14, <2>1, NewTypes, TxTypes DEF Rollback
  <2>3. QED
    BY <1>2, <1>14, <2>1, <2>2 DEF TypeOK, Rollback, Continue, Pc, Tx
<1>15. ASSUME NEW r \in Req, Read(r) PROVE TypeOK'
  <2>1. PICK pc \in Pc : Resume(r, pc)
    BY <1>15 DEF Read, Respond, Continue, Pc
  <2>2. QED
    BY <1>2, <1>15, <2>1 DEF TypeOK, Read, At, Respond, Continue
<1>16. ASSUME NEW r \in Req, CheckRuntime(r) PROVE TypeOK'
  BY <1>2, <1>16 DEF TypeOK, CheckRuntime, At, Respond, Continue, Pc
<1>17. ASSUME NEW r \in Req, Count(r) PROVE TypeOK'
  BY <1>2, <1>17 DEF TypeOK, Count, At, Respond, Continue, Pc
<1>18. ASSUME NEW r \in Req, Update(r) PROVE TypeOK'
  <2>1. req[r].conn \in Conn /\ req[r].conn # NoConn /\ req[r].user \in User
    BY <1>18 DEF TypeOK, Update, At
  <2>2. Changed(Account(r), req[r].change) \in Row
    <3>1. Account(r) \in Row
      BY <2>1, VisibleFacts DEF Account
    <3>2. req[r].change \in Changes
      BY DEF TypeOK
    <3>3. QED
      BY <3>1, <3>2 DEF Changed, Changes, Row
  <2>3. row' \in [User -> Row] /\ tx' \in [Conn -> Tx]
    <3>1. CASE Finds(r)
      BY <1>18, <2>1, <2>2, <3>1, WriteTypes DEF Update
    <3>2. CASE ~Finds(r)
      BY <1>18, <3>2 DEF Update, TypeOK, Tx
    <3>3. QED
      BY <3>1, <3>2
  <2>4. QED
    BY <1>2, <1>18, <2>1, <2>3 DEF TypeOK, Update, Respond, Pc, Tx
<1>19. ASSUME NEW c \in Conn, CloseIdle(c) PROVE TypeOK'
  <2>1. tx' \in [Conn -> Tx]
    BY <1>19, NewTypes, TxTypes DEF CloseIdle
  <2>2. QED
    BY <1>19, <2>1, IdleFacts DEF TypeOK, CloseIdle, Tx
<1>20. ASSUME NEW s \in Slot, ReleaseByHand(s) PROVE TypeOK'
  <2>1. PICK u \in User : row' = [row EXCEPT ![u].released = TRUE]
    BY <1>20 DEF ReleaseByHand
  <2>2. row' \in [User -> Row]
    BY <2>1, RowTypes
  <2>3. QED
    BY <1>20, <2>2 DEF TypeOK, ReleaseByHand
<1>21. QED
  BY <1>1, <1>4, <1>5, <1>6, <1>7, <1>8, <1>9, <1>10, <1>11, <1>12, <1>13, <1>14, <1>15, <1>16,
     <1>17, <1>18, <1>19, <1>20 DEF Next

-----------------------------------------------------------------------------
(* What a step does to the database.                                       *)
Drops == \E c \in Conn, t \in {NoTx, FailedTx} : tx' = [tx EXCEPT ![c] = t] /\ row' = row
Opens == \E c \in Conn : tx' = [tx EXCEPT ![c].state = "open"] /\ row' = row
Locks == \E c \in Conn, s \in Slot : LockSlot(c, s) /\ row' = row
Writes == \E c \in Conn, u \in User, r \in Row : r.made /\ Write(c, u, r)
Binds == \E c \in Conn, u \in User, s \in Slot :
            /\ ~SlotLocked(c, s) /\ ~BindLocked(c, u) /\ ~SlotTaken(c, s)
            /\ VisibleSlot(c, u) = NoSlot /\ VisibleUser(c, u).made
            /\ Bind(c, u, s)
Commits == \E c \in Conn : row' = Committed(c) /\ tx' = [tx EXCEPT ![c] = NoTx]
Releases == \E u \in User : row' = [row EXCEPT ![u].released = TRUE] /\ tx' = tx

LEMMA FailsDrops ==
    ASSUME TypeOK, NEW r \in Req, NEW a, Fails(r, a), req[r].conn # NoConn
    PROVE  Drops \/ UNCHANGED <<row, tx>>
<1>1. req[r].conn \in Conn
  BY DEF TypeOK
<1>2. CASE tx[req[r].conn].state = "none"
  <2>1. tx' = [tx EXCEPT ![req[r].conn] = tx[req[r].conn]]
    BY <1>2 DEF Fails
  <2>2. QED
    BY <1>1, <2>1 DEF Fails, TypeOK
<1>3. CASE tx[req[r].conn].state # "none"
  BY <1>1, <1>3 DEF Fails, Drops
<1>4. QED
  BY <1>2, <1>3

LEMMA ChangedMade ==
    ASSUME NEW t \in Row, NEW change \in Changes
    PROVE  Changed(t, change) \in Row /\ Changed(t, change).made = t.made
BY DEF Changed, Changes, Row

LEMMA DatabaseSteps ==
    ASSUME TypeOK, Stages, [Next]_vars
    PROVE  \/ UNCHANGED <<row, tx>> \/ Drops \/ Opens \/ Locks \/ Writes \/ Binds \/ Commits
           \/ Releases
<1>1. CASE UNCHANGED vars
  BY <1>1 DEF vars
<1>2. ASSUME NEW r \in Req, FailsInBrokenTx(r) PROVE Drops \/ UNCHANGED <<row, tx>>
  BY <1>2, FailsDrops DEF FailsInBrokenTx
<1>3. ASSUME NEW r \in Req, Begin(r) PROVE Opens
  BY <1>3 DEF TypeOK, Begin, Begun, At, Opens
<1>4. ASSUME NEW r \in Req, Pick(r) PROVE Locks \/ UNCHANGED <<row, tx>>
  <2> DEFINE c == req[r].conn
             s == First(FreeSlots(c))
  <2>1. CASE FreeSlots(c) # {} /\ ~SlotLocked(c, s)
    <3>1. c \in Conn /\ s \in Slot /\ LockSlot(c, s) /\ row' = row
      <4>1. s \in Slot
        BY <2>1, FirstIn DEF FreeSlots
      <4>2. QED
        BY <1>4, <2>1, <4>1 DEF TypeOK, Pick, At
    <3>2. QED
      BY <3>1 DEF Locks
  <2>2. CASE ~(FreeSlots(c) # {} /\ ~SlotLocked(c, s))
    BY <1>4, <2>2 DEF Pick
  <2>3. QED
    BY <2>1, <2>2
<1>5. ASSUME NEW r \in Req, PickWaited(r) PROVE Locks
  BY <1>5 DEF TypeOK, Stages, PickWaited, At, Locks
<1>6. ASSUME NEW r \in Req, InsertUser(r) PROVE Writes \/ Drops \/ UNCHANGED <<row, tx>>
  <2>1. CASE Fails(r, "exists")
    BY <1>6, <2>1, FailsDrops DEF InsertUser, At
  <2>2. CASE ~Fails(r, "exists")
    <3> DEFINE t == [Absent EXCEPT !.made = TRUE, !.id = r, !.active = TRUE,
                                   !.admin = ("promote" \in req[r].change)]
    <3>1. t \in Row /\ t.made
      <4>1. ("promote" \in req[r].change) \in BOOLEAN
        OBVIOUS
      <4>2. QED
        BY <4>1, NewTypes DEF Row, Id
    <3>2. req[r].conn \in Conn /\ req[r].user \in User /\ Write(req[r].conn, req[r].user, t)
      BY <1>6, <2>2 DEF TypeOK, InsertUser, At
    <3>3. QED
      BY <3>1, <3>2 DEF Writes
  <2>3. QED
    BY <2>1, <2>2
<1>7. ASSUME NEW r \in Req, InsertRuntime(r) PROVE Binds \/ Drops \/ UNCHANGED <<row, tx>>
  <2> DEFINE c == req[r].conn
             u == req[r].user
  <2>1. CASE Fails(r, "exists") \/ Fails(r, "failed")
    BY <1>7, <2>1, FailsDrops DEF InsertRuntime, At
  <2>2. CASE ~(Fails(r, "exists") \/ Fails(r, "failed"))
    <3>1. c \in Conn /\ u \in User /\ slot[r] \in Slot
      BY <1>7 DEF TypeOK, Stages, InsertRuntime, At
    <3>2. /\ ~SlotLocked(c, slot[r]) /\ ~BindLocked(c, u) /\ ~SlotTaken(c, slot[r])
          /\ Visible(c)[u].slot = NoSlot /\ Visible(c)[u].made
          /\ Bind(c, u, slot[r])
      BY <1>7, <2>2 DEF InsertRuntime, Account, Finds
    <3>3. VisibleSlot(c, u) = NoSlot /\ VisibleUser(c, u).made
      BY <3>1, <3>2, VisibleFacts DEF VisibleSlot, VisibleUser, Bound
    <3>4. QED
      BY <3>1, <3>2, <3>3 DEF Binds
  <2>3. QED
    BY <2>1, <2>2
<1>8. ASSUME NEW r \in Req, Commit(r) PROVE Commits
  BY <1>8 DEF TypeOK, Commit, At, Commits
<1>9. ASSUME NEW r \in Req, Rollback(r) PROVE Drops
  BY <1>9 DEF TypeOK, Rollback, At, Drops
<1>10. ASSUME NEW r \in Req, Update(r) PROVE Writes \/ UNCHANGED <<row, tx>>
  <2>1. CASE Finds(r)
    <3>1. req[r].conn \in Conn /\ req[r].user \in User /\ req[r].change \in Changes
      BY <1>10 DEF TypeOK, Update, At
    <3>2. PICK t \in Row : t = Account(r) /\ t.made
      BY <2>1, <3>1, VisibleFacts DEF Account, Finds
    <3>3. Changed(t, req[r].change) \in Row /\ Changed(t, req[r].change).made
      BY <3>1, <3>2, ChangedMade
    <3>4. Write(req[r].conn, req[r].user, Changed(t, req[r].change))
      BY <1>10, <2>1, <3>2 DEF Update
    <3>5. QED
      BY <3>1, <3>3, <3>4 DEF Writes
  <2>2. CASE ~Finds(r)
    BY <1>10, <2>2 DEF Update
  <2>3. QED
    BY <2>1, <2>2
<1>11. ASSUME NEW c \in Conn, CloseIdle(c) PROVE Drops
  BY <1>11 DEF CloseIdle, Drops
<1>12. ASSUME NEW s \in Slot, ReleaseByHand(s) PROVE Releases
  BY <1>12 DEF ReleaseByHand, Releases
<1>13. ASSUME NEW r \in Req,
              \/ Arrive(r) \/ Issue(r) \/ Auth(r) \/ Read(r) \/ CheckRuntime(r) \/ Count(r)
       PROVE  UNCHANGED <<row, tx>>
  BY <1>13 DEF Arrive, Issue, Auth, Read, CheckRuntime, Count
<1>14. QED
  BY <1>1, <1>2, <1>3, <1>4, <1>5, <1>6, <1>7, <1>8, <1>9, <1>10, <1>11, <1>12, <1>13 DEF Next

-----------------------------------------------------------------------------
(* The database keeps its promises, whatever overlaps.                     *)
Database == SlotsExclusive /\ Written /\ Bindings

LEMMA RowFacts ==
    ASSUME TypeOK
    PROVE  /\ row \in [User -> Row] /\ tx \in [Conn -> Tx]
           /\ \A u \in User : /\ row[u].slot \in Slot \cup {NoSlot} /\ row[u].made \in BOOLEAN
                              /\ row[u].admin \in BOOLEAN
           /\ \A c \in Conn, u \in User : /\ tx[c].row[u].made \in BOOLEAN
                                          /\ tx[c].bound[u] \in Slot \cup {NoSlot}
           /\ NoSlot \notin Slot
BY FoundersAssumption DEF TypeOK, Tx, Row, Slot, NoSlot

LEMMA DropsKeep ==
    ASSUME TypeOK, Database, Drops
    PROVE  Database'
<1>1. PICK c \in Conn, t \in {NoTx, FailedTx} : tx' = [tx EXCEPT ![c] = t] /\ row' = row
  BY DEF Drops
<1>2. /\ \A d \in Conn \ {c} : tx'[d] = tx[d]
      /\ tx'[c] = t /\ t.writes = {} /\ t.locks = {} /\ \A u \in User : t.bound[u] = NoSlot
  BY <1>1, NewTypes, RowFacts
<1>3. SlotsExclusive' /\ Written'
  BY <1>1, <1>2 DEF Database, SlotsExclusive, Written
<1>4. Bindings'
  BY <1>1, <1>2 DEF Database, Bindings, Bound, VisibleUser
<1>5. QED
  BY <1>3, <1>4 DEF Database

LEMMA OpensKeep ==
    ASSUME TypeOK, Database, Opens
    PROVE  Database'
<1>1. PICK c \in Conn : tx' = [tx EXCEPT ![c].state = "open"] /\ row' = row
  BY DEF Opens
<1>2. /\ \A d \in Conn : /\ tx'[d].writes = tx[d].writes /\ tx'[d].bound = tx[d].bound
                         /\ tx'[d].row = tx[d].row /\ tx'[d].locks = tx[d].locks
                         /\ tx'[d].state # "open" => tx[d].state # "open"
  BY <1>1, RowFacts DEF Tx
<1>3. SlotsExclusive' /\ Written'
  BY <1>1, <1>2 DEF Database, SlotsExclusive, Written
<1>4. Bindings'
  BY <1>1, <1>2 DEF Database, Bindings, Bound, VisibleUser
<1>5. QED
  BY <1>3, <1>4 DEF Database

LEMMA LocksKeep ==
    ASSUME TypeOK, Database, Locks
    PROVE  Database'
<1>1. PICK c \in Conn, s \in Slot : LockSlot(c, s) /\ row' = row
  BY DEF Locks
<1>2. /\ \A d \in Conn : /\ tx'[d].writes = tx[d].writes /\ tx'[d].bound = tx[d].bound
                         /\ tx'[d].row = tx[d].row /\ tx'[d].state = tx[d].state
                         /\ tx'[d].state # "open" => tx'[d].locks = tx[d].locks
  BY <1>1, RowFacts DEF Tx, LockSlot
<1>3. SlotsExclusive' /\ Written'
  BY <1>1, <1>2 DEF Database, SlotsExclusive, Written
<1>4. Bindings'
  BY <1>1, <1>2 DEF Database, Bindings, Bound, VisibleUser
<1>5. QED
  BY <1>3, <1>4 DEF Database

LEMMA WritesKeep ==
    ASSUME TypeOK, Database, Writes, TypeOK'
    PROVE  Database'
<1>1. PICK c \in Conn, u \in User, r \in Row : r.made /\ Write(c, u, r)
  BY DEF Writes
<1>2. CASE tx[c].state = "open"
  <2>1. tx' = [tx EXCEPT ![c].writes = @ \cup {u}, ![c].row[u] = r] /\ row' = row
    BY <1>1, <1>2 DEF Write
  <2>2. /\ \A d \in Conn : /\ tx'[d].bound = tx[d].bound /\ tx'[d].locks = tx[d].locks
                           /\ tx'[d].state = tx[d].state
        /\ \A d \in Conn \ {c} : tx'[d].writes = tx[d].writes /\ tx'[d].row = tx[d].row
        /\ tx'[c].writes = tx[c].writes \cup {u} /\ tx'[c].row = [tx[c].row EXCEPT ![u] = r]
        /\ tx[c].row \in [User -> Row]
    BY <2>1, RowFacts DEF Tx
  <2>3. /\ tx'[c].row[u] = r /\ \A v \in User \ {u} : tx'[c].row[v] = tx[c].row[v]
        /\ tx'[c].row[u].made
    BY <1>1, <2>2
  <2>4. SlotsExclusive'
    BY <2>1 DEF Database, SlotsExclusive
  <2>5. Written'
    <3>1. \A d \in Conn, v \in User : v \in tx'[d].writes => tx'[d].row[v].made
      BY <2>2, <2>3 DEF Database, Written
    <3>2. \A d \in Conn : tx'[d].state # "open" => d # c
      BY <1>2, <2>2
    <3>3. \A d \in Conn \ {c} : /\ tx'[d].state = tx[d].state /\ tx'[d].writes = tx[d].writes
                                /\ tx'[d].locks = tx[d].locks /\ tx'[d].bound = tx[d].bound
      BY <2>2
    <3>4. \A d \in Conn : tx'[d].state # "open" =>
             tx'[d].writes = {} /\ tx'[d].locks = {} /\ \A v \in User : tx'[d].bound[v] = NoSlot
      BY <3>2, <3>3 DEF Database, Written
    <3>5. \A v \in User : row'[v].admin => row'[v].made
      BY <2>1 DEF Database, Written
    <3>6. QED
      BY <3>1, <3>4, <3>5 DEF Written
  <2>6. \A d \in Conn, v \in User : VisibleUser(d, v).made => VisibleUser(d, v).made'
    <3>1. ASSUME NEW d \in Conn, NEW v \in User, VisibleUser(d, v).made
          PROVE  (IF v \in tx'[d].writes THEN tx'[d].row[v] ELSE row'[v]).made
      <4>1. CASE d = c /\ v = u
        BY <2>2, <2>3, <4>1
      <4>2. CASE d # c
        BY <2>1, <2>2, <3>1, <4>2 DEF VisibleUser
      <4>3. CASE d = c /\ v # u
        <5>1. v \in tx'[c].writes <=> v \in tx[c].writes
          BY <2>2, <4>3
        <5>2. tx'[c].row[v] = tx[c].row[v] /\ row'[v] = row[v]
          BY <2>1, <2>3, <4>3
        <5>3. QED
          BY <3>1, <4>3, <5>1, <5>2 DEF VisibleUser
      <4>4. QED
        BY <4>1, <4>2, <4>3
    <3>2. QED
      BY <3>1 DEF VisibleUser
  <2>7. Bindings'
    <3>1. \A d \in Conn : tx'[d].bound = tx[d].bound
      BY <2>2
    <3>2. QED
      <4>1. ASSUME NEW d \in Conn, NEW v \in User, tx'[d].bound[v] # NoSlot
            PROVE  /\ VisibleUser(d, v)'.made
                   /\ row'[v].slot = NoSlot
                   /\ \A w \in User : row'[w].slot # tx'[d].bound[v]
                   /\ \A e \in Conn, w \in User : tx'[e].bound[w] # NoSlot =>
                        /\ tx'[e].bound[w] = tx'[d].bound[v] => e = d /\ w = v
                        /\ w = v => e = d
        <5>1. VisibleUser(d, v).made
          BY <3>1, <4>1 DEF Database, Bindings, Bound
        <5>2. VisibleUser(d, v)'.made
          BY <2>6, <5>1
        <5>3. row'[v].slot = NoSlot /\ \A w \in User : row'[w].slot # tx'[d].bound[v]
          <6>1. row' = row
            BY <2>1
          <6>2. QED
            BY <3>1, <4>1, <6>1 DEF Database, Bindings, Bound
        <5>4. ASSUME NEW e \in Conn, NEW w \in User, tx'[e].bound[w] # NoSlot
              PROVE  /\ tx'[e].bound[w] = tx'[d].bound[v] => e = d /\ w = v
                     /\ w = v => e = d
          BY <3>1, <4>1, <5>4 DEF Database, Bindings, Bound
        <5>5. QED
          BY <5>2, <5>3, <5>4
      <4>2. QED
        BY <4>1 DEF Bindings, Bound
  <2>8. QED
    BY <2>4, <2>5, <2>7 DEF Database
<1>3. CASE tx[c].state # "open"
  <2>1. PICK t \in Row : t = [r EXCEPT !.slot = row[u].slot, !.released = row[u].released]
    BY RowTypes
  <2>2. row' = [row EXCEPT ![u] = t] /\ tx' = tx
    BY <1>1, <1>3, <2>1 DEF Write
  <2>3. t.made /\ t.slot = row[u].slot
    BY <1>1, <2>1 DEF Row
  <2>4. \A v \in User : /\ row'[v].slot = row[v].slot
                        /\ v = u => row'[v].made
                        /\ v # u => row'[v] = row[v]
    BY <2>2, <2>3, RowFacts
  <2>5. SlotsExclusive'
    BY <2>4 DEF Database, SlotsExclusive
  <2>6. Written'
    BY <2>2, <2>4 DEF Database, Written
  <2>7. \A d \in Conn, v \in User : VisibleUser(d, v).made => VisibleUser(d, v).made'
    BY <2>2, <2>4 DEF VisibleUser
  <2>8. Bindings'
    BY <2>2, <2>4, <2>7 DEF Database, Bindings, Bound
  <2>9. QED
    BY <2>5, <2>6, <2>8 DEF Database
<1>4. QED
  BY <1>2, <1>3

LEMMA BindsKeep ==
    ASSUME TypeOK, Database, Binds
    PROVE  Database'
<1>1. PICK c \in Conn, u \in User, s \in Slot :
            /\ ~SlotLocked(c, s) /\ ~BindLocked(c, u) /\ ~SlotTaken(c, s)
            /\ VisibleSlot(c, u) = NoSlot /\ VisibleUser(c, u).made
            /\ Bind(c, u, s)
  BY DEF Binds
<1>2. /\ s # NoSlot /\ row[u].slot = NoSlot /\ tx[c].bound[u] = NoSlot
      /\ \A v \in User : tx[c].bound[v] # s /\ (~Bound(c, v) => row[v].slot # s)
      /\ \A d \in Conn \ {c}, v \in User : tx[d].bound[v] # s
      /\ \A d \in Conn \ {c} : tx[d].bound[u] = NoSlot
  <2>1. \A v \in User : Visible(c)[v].slot # s
    BY <1>1 DEF SlotTaken
  <2>2. s # NoSlot /\ row[u].slot = NoSlot /\ tx[c].bound[u] = NoSlot
    <3>1. VisibleSlot(c, u) = NoSlot
      BY <1>1
    <3>2. s # NoSlot
      BY RowFacts
    <3>3. tx[c].bound[u] = NoSlot
      BY <3>1 DEF VisibleSlot
    <3>4. QED
      BY <3>1, <3>2, <3>3 DEF VisibleSlot
  <2>3. ASSUME NEW v \in User
        PROVE  tx[c].bound[v] # s /\ (~Bound(c, v) => row[v].slot # s)
    <3>1. Visible(c)[v].slot = IF Bound(c, v) THEN tx[c].bound[v] ELSE row[v].slot
      BY VisibleFacts
    <3>2. Visible(c)[v].slot # s
      BY <2>1
    <3>3. ~Bound(c, v) => tx[c].bound[v] = NoSlot
      BY DEF Bound
    <3>4. QED
      BY <2>2, <3>1, <3>2, <3>3
  <2>4. \A d \in Conn \ {c}, v \in User : tx[d].bound[v] # s
    BY <1>1 DEF SlotLocked
  <2>5. \A d \in Conn \ {c} : tx[d].bound[u] = NoSlot
    BY <1>1 DEF BindLocked
  <2>6. QED
    BY <2>2, <2>3, <2>4, <2>5
<1>3. \A v \in User : row[v].slot # s
  BY <1>2, RowFacts DEF Database, Bindings
<1>4. CASE tx[c].state = "open"
  <2>1. tx' = [tx EXCEPT ![c].bound[u] = s] /\ row' = row
    BY <1>1, <1>4 DEF Bind
  <2>2. /\ \A d \in Conn : /\ tx'[d].writes = tx[d].writes /\ tx'[d].locks = tx[d].locks
                           /\ tx'[d].state = tx[d].state /\ tx'[d].row = tx[d].row
        /\ \A d \in Conn, v \in User : tx'[d].bound[v] = IF d = c /\ v = u THEN s
                                                         ELSE tx[d].bound[v]
    BY <2>1, RowFacts DEF Tx
  <2>3. SlotsExclusive' /\ Written'
    BY <1>4, <2>1, <2>2 DEF Database, SlotsExclusive, Written
  <2>4. Bindings'
    BY <1>1, <1>2, <1>3, <2>1, <2>2 DEF Database, Bindings, Bound, VisibleUser
  <2>5. QED
    BY <2>3, <2>4 DEF Database
<1>5. CASE tx[c].state # "open"
  <2>1. row' = [row EXCEPT ![u].slot = s] /\ tx' = tx
    BY <1>1, <1>5 DEF Bind
  <2>2. \A v \in User : /\ row'[v].slot = IF v = u THEN s ELSE row[v].slot
                        /\ row'[v].made = row[v].made /\ row'[v].admin = row[v].admin
    BY <2>1, RowFacts DEF Row
  <2>3. row[u].made
    BY <1>1, <1>5 DEF Database, Written, VisibleUser
  <2>4. SlotsExclusive'
    BY <1>2, <1>3, <2>2, <2>3, RowFacts DEF Database, SlotsExclusive
  <2>5. Written'
    BY <2>1, <2>2 DEF Database, Written
  <2>6. Bindings'
    BY <1>2, <1>5, <2>1, <2>2 DEF Database, Bindings, Bound, VisibleUser, Written
  <2>7. QED
    BY <2>4, <2>5, <2>6 DEF Database
<1>6. QED
  BY <1>4, <1>5

LEMMA CommitsKeep ==
    ASSUME TypeOK, Database, Commits
    PROVE  Database'
<1>1. PICK c \in Conn : row' = Committed(c) /\ tx' = [tx EXCEPT ![c] = NoTx]
  BY DEF Commits
<1>2. /\ \A d \in Conn \ {c} : tx'[d] = tx[d]
      /\ tx'[c] = NoTx /\ NoTx.writes = {} /\ NoTx.locks = {}
      /\ \A u \in User : NoTx.bound[u] = NoSlot
  BY <1>1, NewTypes, RowFacts
<1>3. \A u \in User : /\ row'[u].slot = IF Bound(c, u) THEN tx[c].bound[u] ELSE row[u].slot
                      /\ row'[u].made = VisibleUser(c, u).made
                      /\ row'[u].admin = VisibleUser(c, u).admin
  BY <1>1, VisibleFacts DEF Committed, VisibleUser, Bound, Database, Written
<1>4. \A u \in User : row[u].made => row'[u].made
  BY <1>3 DEF VisibleUser, Database, Written
<1>5. SlotsExclusive'
  BY <1>3, <1>4, RowFacts DEF SlotsExclusive, Database, Bindings, Bound
<1>6. Written'
  BY <1>2, <1>3 DEF Written, Database, VisibleUser
<1>7. Bindings'
  BY <1>2, <1>3, <1>4 DEF Bindings, Database, Bound, VisibleUser
<1>8. QED
  BY <1>5, <1>6, <1>7 DEF Database

LEMMA ReleasesKeep ==
    ASSUME TypeOK, Database, Releases
    PROVE  Database'
<1>1. PICK u \in User : row' = [row EXCEPT ![u].released = TRUE] /\ tx' = tx
  BY DEF Releases
<1>2. \A v \in User : /\ row'[v].slot = row[v].slot /\ row'[v].made = row[v].made
                      /\ row'[v].admin = row[v].admin
  BY <1>1, RowFacts DEF Row
<1>3. QED
  BY <1>1, <1>2 DEF Database, SlotsExclusive, Written, Bindings, Bound, VisibleUser

LEMMA DatabaseKept ==
    ASSUME TypeOK, Stages, Database, [Next]_vars
    PROVE  Database'
<1>1. CASE UNCHANGED <<row, tx>>
  BY <1>1 DEF Database, SlotsExclusive, Written, Bindings, Bound, VisibleUser
<1>2. QED
  BY <1>1, TypesKept, DatabaseSteps, DropsKeep, OpensKeep, LocksKeep, WritesKeep, BindsKeep,
     CommitsKeep, ReleasesKeep

LEMMA StagesKept ==
    ASSUME TypeOK, Stages, [Next]_vars
    PROVE  Stages'
<1>1. CASE UNCHANGED vars
  BY <1>1 DEF Stages, InFlight, vars
<1>2. ASSUME NEW r \in Req, Arrive(r) PROVE Stages'
  BY <1>2 DEF TypeOK, Stages, InFlight, Inside, Arrive
<1>3. ASSUME NEW r \in Req, Issue(r) PROVE Stages'
  <2>1. \E c \in Conn : req' = [req EXCEPT ![r].conn = c]
    <3>1. CASE idle # <<>>
      BY <1>3, <3>1, IdleFacts DEF Issue
    <3>2. CASE idle = <<>>
      BY <1>3, <3>2 DEF Issue
    <3>3. QED
      BY <3>1, <3>2
  <2>2. PICK c \in Conn : req' = [req EXCEPT ![r].conn = c]
    BY <2>1
  <2>3. r \in InFlight /\ answer' = answer /\ slot' = slot
    BY <1>3 DEF Issue
  <2>4. QED
    BY <2>2, <2>3 DEF TypeOK, Stages, InFlight, Inside
<1>4. ASSUME NEW r \in Req, NEW a, Fails(r, a), req[r].conn # NoConn, a # "created" PROVE Stages'
  BY <1>4 DEF TypeOK, Stages, InFlight, Inside, Fails, RollsBack, Resume
<1>5. ASSUME NEW r \in Req, FailsInBrokenTx(r) PROVE Stages'
  BY <1>4, <1>5 DEF FailsInBrokenTx
<1>6. ASSUME NEW r \in Req, Auth(r) PROVE Stages'
  BY <1>6 DEF TypeOK, Stages, InFlight, Inside, Auth, At, Respond, Continue, Resume
<1>7. ASSUME NEW r \in Req, Begin(r) PROVE Stages'
  BY <1>7 DEF TypeOK, Stages, InFlight, Inside, Begin, At, Continue, Resume
<1>8. ASSUME NEW r \in Req, Pick(r) PROVE Stages'
  <2> DEFINE s == First(FreeSlots(req[r].conn))
  <2>1. FreeSlots(req[r].conn) # {} => s \in Slot /\ s # NoSlot
    BY FirstIn, RowFacts DEF FreeSlots
  <2>2. QED
    <3>1. CASE FreeSlots(req[r].conn) = {}
      BY <1>8, <3>1 DEF TypeOK, Stages, InFlight, Inside, Pick, At, Resume
    <3>2. CASE FreeSlots(req[r].conn) # {}
      <4>1. PICK t \in Slot : t = s /\ t # NoSlot
        BY <2>1, <3>2
      <4>2. /\ slot' = [slot EXCEPT ![r] = t] /\ answer' = answer
            /\ \/ req' = [req EXCEPT ![r].pc = "insertUser", ![r].conn = NoConn]
               \/ req' = [req EXCEPT ![r].pc = "lock"]
        BY <1>8, <3>2, <4>1 DEF Pick, Continue, Resume
      <4>3. req[r].pc = "pick"
        BY <1>8 DEF Pick, At
      <4>4. CASE req' = [req EXCEPT ![r].pc = "insertUser", ![r].conn = NoConn]
        BY <4>1, <4>2, <4>3, <4>4 DEF TypeOK, Stages, InFlight, Inside
      <4>5. CASE req' = [req EXCEPT ![r].pc = "lock"]
        BY <4>1, <4>2, <4>3, <4>5 DEF TypeOK, Stages, InFlight, Inside
      <4>6. QED
        BY <4>2, <4>4, <4>5
    <3>3. QED
      BY <3>1, <3>2
<1>9. ASSUME NEW r \in Req, PickWaited(r) PROVE Stages'
  BY <1>9 DEF TypeOK, Stages, InFlight, Inside, PickWaited, At, Continue, Resume
<1>10. ASSUME NEW r \in Req, InsertUser(r) PROVE Stages'
  <2>1. CASE Fails(r, "exists")
    BY <1>4, <1>10, <2>1 DEF InsertUser, At
  <2>2. CASE ~Fails(r, "exists")
    BY <1>10, <2>2 DEF TypeOK, Stages, InFlight, Inside, InsertUser, At, Continue, Resume
  <2>3. QED
    BY <2>1, <2>2
<1>11. ASSUME NEW r \in Req, InsertRuntime(r) PROVE Stages'
  <2>1. CASE Fails(r, "exists") \/ Fails(r, "failed")
    BY <1>4, <1>11, <2>1 DEF InsertRuntime, At
  <2>2. CASE ~(Fails(r, "exists") \/ Fails(r, "failed"))
    BY <1>11, <2>2 DEF TypeOK, Stages, InFlight, Inside, InsertRuntime, At, Continue, Resume
  <2>3. QED
    BY <2>1, <2>2
<1>12. ASSUME NEW r \in Req, Commit(r) PROVE Stages'
  BY <1>12 DEF TypeOK, Stages, InFlight, Inside, Commit, At, Respond, Resume
<1>13. ASSUME NEW r \in Req, Rollback(r) PROVE Stages'
  BY <1>13 DEF TypeOK, Stages, InFlight, Inside, Rollback, At, Continue, Resume
<1>14. ASSUME NEW r \in Req, Read(r) PROVE Stages'
  BY <1>14 DEF TypeOK, Stages, InFlight, Inside, Read, At, Respond, Continue, Resume
<1>15. ASSUME NEW r \in Req, CheckRuntime(r) PROVE Stages'
  BY <1>15 DEF TypeOK, Stages, InFlight, Inside, CheckRuntime, At, Respond, Continue, Resume
<1>16. ASSUME NEW r \in Req, Count(r) PROVE Stages'
  BY <1>16 DEF TypeOK, Stages, InFlight, Inside, Count, At, Respond, Continue, Resume
<1>17. ASSUME NEW r \in Req, Update(r) PROVE Stages'
  BY <1>17 DEF TypeOK, Stages, InFlight, Inside, Update, At, Respond, Resume
<1>18. ASSUME NEW c \in Conn, CloseIdle(c) PROVE Stages'
  BY <1>18 DEF Stages, InFlight, CloseIdle
<1>19. ASSUME NEW s \in Slot, ReleaseByHand(s) PROVE Stages'
  BY <1>19 DEF Stages, InFlight, ReleaseByHand
<1>20. QED
  BY <1>1, <1>2, <1>3, <1>5, <1>6, <1>7, <1>8, <1>9, <1>10, <1>11, <1>12, <1>13, <1>14, <1>15,
     <1>16, <1>17, <1>18, <1>19 DEF Next

-----------------------------------------------------------------------------
(* One handler at a time.                                                  *)
LEMMA IdleOne ==
    ASSUME TypeOK, Len(idle) <= 1
    PROVE  /\ idle = <<>> \/ \E c \in Conn : idle = <<c>>
           /\ \A c \in Conn : Append(<<>>, c) = <<c>> /\ Len(<<c>>) = 1 /\ <<c>> # <<>>
           /\ Len(<<>>) = 0
           /\ \A c \in Conn : idle = <<c>> => Last(idle) = c /\ Front(idle) = <<>>
<1>1. idle \in Seq(Conn) /\ Len(idle) \in Nat
  BY IdleFacts DEF TypeOK
<1>2. \A c \in Conn : Append(<<>>, c) = <<c>> /\ Len(<<c>>) = 1 /\ <<c>> # <<>>
  OBVIOUS
<1>3. Len(<<>>) = 0
  OBVIOUS
<1>4. ASSUME idle # <<>> PROVE \E c \in Conn : idle = <<c>>
  <2>1. Len(idle) = 1
    <3>1. Len(idle) \in Nat \ {0}
      BY <1>1, <1>4, EmptySeq
    <3>2. PICK n \in Nat \ {0} : n = Len(idle)
      BY <3>1
    <3>3. QED
      BY <3>2
  <2>2. idle[1] \in Conn
    BY <1>1, <2>1, ElementOfSeq
  <2>3. idle = <<idle[1]>>
    BY <1>1, <2>1, <2>2
  <2>4. QED
    BY <2>2, <2>3
<1>5. ASSUME NEW c \in Conn, idle = <<c>>
      PROVE  Last(idle) = c /\ Front(idle) = <<>>
  <2>1. Len(idle) = 1 /\ idle[1] = c
    BY <1>5
  <2>2. SubSeq(idle, 1, 0) = <<>>
    BY SubSeqEmpty, 1 \in Int, 0 \in Int
  <2>3. QED
    BY <2>1, <2>2 DEF Last, Front
<1>6. QED
  BY <1>1, <1>2, <1>3, <1>4, <1>5

(* A statement of the only handler is done.                                *)
LEMMA Resumed ==
    ASSUME TypeOK, Stages, alone, OnePool, NEW r \in InFlight, req[r].conn # NoConn,
           NEW pc \in Pc \ {"idle"}, Resume(r, pc)
    PROVE  /\ r \in Req /\ req[r].conn \in Conn /\ req[r].user \in User
           /\ InFlight = {r} /\ idle = <<>>
           /\ idle' = <<req[r].conn>> /\ Len(idle') = 1
           /\ \A q \in Req : req'[q].user = req[q].user
           /\ req'[r].pc = pc /\ req'[r].conn = NoConn /\ req'[r].change = req[r].change
           /\ InFlight' = IF pc = "done" THEN {} ELSE {r}
           /\ alone' = alone
<1>1. r \in Req /\ req[r].conn \in Conn /\ req[r].user \in User
  BY DEF InFlight, TypeOK
<1>2. InFlight = {r} /\ idle = <<>> /\ Len(idle) <= 1
  BY DEF OnePool
<1>3. idle' = <<req[r].conn>> /\ Len(idle') = 1
  BY <1>1, <1>2, IdleOne DEF Resume
<1>4. /\ \A q \in Req : req'[q].user = req[q].user
      /\ req'[r].pc = pc /\ req'[r].conn = NoConn /\ req'[r].change = req[r].change
      /\ \A q \in Req \ {r} : req'[q] = req[q]
  BY <1>1 DEF Resume, TypeOK
<1>5. InFlight' = IF pc = "done" THEN {} ELSE {r}
  BY <1>1, <1>2, <1>4 DEF InFlight
<1>6. QED
  BY <1>1, <1>2, <1>3, <1>4, <1>5 DEF Resume

LEMMA ResumedAlone ==
    ASSUME TypeOK, Stages, alone, OnePool, NEW r \in InFlight, req[r].conn # NoConn,
           NEW pc \in Pc \ {"idle"}, Resume(r, pc), Kept', NEW c \in Conn, c = req[r].conn,
           pc \in Before \cup {"done"} => \A d \in Conn : tx'[d].state = "none",
           pc \in Inside => /\ \A d \in Conn \ {c} : tx'[d].state = "none"
                            /\ pc # "rollback" => Progress(r, c)',
           pc \in Decided => (Removes(row'[req[r].user], req[r].change) =>
                                 \E v \in User \ {req[r].user} : Admin(v)')
    PROVE  Alone'
<1>1. /\ r \in Req /\ req[r].conn \in Conn /\ req[r].user \in User
      /\ idle' = <<req[r].conn>> /\ Len(idle') = 1
      /\ req'[r].user = req[r].user
      /\ req'[r].pc = pc /\ req'[r].conn = NoConn /\ req'[r].change = req[r].change
      /\ InFlight' = IF pc = "done" THEN {} ELSE {r}
  BY Resumed
<1>2. OnePool'
  BY <1>1 DEF OnePool, Closed
<1>3. ASSUME pc # "done" PROVE OneHandler'
  <2>1. InFlight' = {r}
    BY <1>1, <1>3
  <2>2. req'[r].conn = NoConn /\ idle' = <<c>>
    BY <1>1
  <2>3. QED
    BY <1>1, <1>3, <2>1, <2>2 DEF OneHandler, Closed, Uses, Before, Inside
<1>4. pc = "done" => OneHandler'
  BY <1>1 DEF OneHandler
<1>5. QED
  BY <1>2, <1>3, <1>4 DEF Alone

(* What the only handler knows when it has a connection.                   *)
LEMMA AloneFacts ==
    ASSUME TypeOK, Database, Stages, Alone, alone, NEW r \in Req, r \in InFlight,
           NEW c \in Conn, c = req[r].conn
    PROVE  /\ OnePool /\ Kept /\ c # NoConn /\ req[r].conn # NoConn /\ req[r].user \in User
           /\ req[r].pc \in Before => \A d \in Conn : Closed(d)
           /\ req[r].pc \in Inside => /\ \A d \in Conn \ {c} : Closed(d)
                                      /\ req[r].pc # "rollback" => Progress(r, c)
           /\ \A d \in Conn : Closed(d) =>
                 tx[d].writes = {} /\ tx[d].locks = {} /\ \A u \in User : ~Bound(d, u)
<1>1. c # NoConn /\ req[r].conn # NoConn /\ req[r].user \in User
  BY MarkerAssumption DEF TypeOK
<1>2. \A d \in Conn : Uses(r, d) => d = c
  BY <1>1 DEF Uses
<1>3. OnePool /\ OneHandler /\ Kept
  BY DEF Alone
<1>4. req[r].pc \in Before => \A d \in Conn : Closed(d)
  BY <1>3 DEF OneHandler
<1>5. req[r].pc \in Inside => /\ \A d \in Conn \ {c} : Closed(d)
                              /\ req[r].pc # "rollback" => Progress(r, c)
  BY <1>2, <1>3 DEF OneHandler
<1>6. \A d \in Conn : Closed(d) =>
         tx[d].writes = {} /\ tx[d].locks = {} /\ \A u \in User : ~Bound(d, u)
  BY DEF Closed, Bound, Database, Written
<1>7. QED
  BY <1>1, <1>3, <1>4, <1>5, <1>6

LEMMA KeptRow ==
    ASSUME TypeOK, Stages, Kept, row' = row, NEW r \in Req, NEW a, a # "created",
           answer' = [answer EXCEPT ![r] = a] \/ answer' = answer,
           \A q \in Req : req'[q].user = req[q].user
    PROVE  Kept'
BY DEF Kept, Admin, TypeOK

LEMMA FailsAlone ==
    ASSUME TypeOK, Database, Stages, Alone, alone, NEW r \in Req,
           req[r].pc \in {"insertUser", "insertRuntime"}, req[r].conn # NoConn,
           NEW a, a # "created", Fails(r, a)
    PROVE  Alone'
<1>1. r \in InFlight
  BY DEF InFlight
<1>2. PICK c \in Conn : c = req[r].conn
  BY DEF TypeOK
<1>3. /\ OnePool /\ Kept /\ \A d \in Conn \ {c} : Closed(d)
  BY <1>1, <1>2, AloneFacts DEF Inside
<1>4. Resume(r, "rollback") /\ "rollback" \in Pc \ {"idle"}
  BY DEF Stages, Inside, Fails, RollsBack, Pc
<1>5. \A d \in Conn \ {c} : tx'[d].state = "none"
  BY <1>2, <1>3 DEF Fails, Closed, TypeOK
<1>6. Kept'
  <2>1. \A q \in Req : req'[q].user = req[q].user
    BY <1>1, <1>3, <1>4, Resumed
  <2>2. row' = row /\ answer' = [answer EXCEPT ![r] = a]
    BY DEF Fails
  <2>3. QED
    BY <1>3, <2>1, <2>2, KeptRow
<1>7. QED
  BY <1>1, <1>2, <1>3, <1>4, <1>5, <1>6, ResumedAlone DEF Before, Inside, Decided

-----------------------------------------------------------------------------
LEMMA ArriveAlone ==
    ASSUME TypeOK, Stages, Alone, alone', NEW r \in Req, Arrive(r)
    PROVE  Alone'
<1>1. alone /\ InFlight = {} /\ OnePool /\ Kept
  BY DEF Arrive, Alone
<1>2. req'[r].pc = "auth" /\ req'[r].conn = NoConn
  BY DEF Arrive, TypeOK
<1>3. \A q \in Req \ {r} : req'[q] = req[q]
  BY DEF Arrive, TypeOK
<1>4. InFlight' = {r}
  BY <1>1, <1>2, <1>3 DEF InFlight
<1>5. UNCHANGED <<row, tx, idle, answer>> /\ answer[r] # "created"
  BY DEF Arrive, Stages
<1>6. OnePool'
  BY <1>1, <1>2, <1>3, <1>4, <1>5 DEF OnePool, Closed
<1>7. OneHandler'
  BY <1>1, <1>2, <1>3, <1>4, <1>5 DEF OneHandler, OnePool, Closed, Inside, Decided
<1>8. Kept'
  BY <1>1, <1>2, <1>3, <1>5 DEF Kept, Admin
<1>9. QED
  BY <1>6, <1>7, <1>8 DEF Alone

LEMMA IssueAlone ==
    ASSUME TypeOK, Stages, Alone, alone, NEW r \in Req, Issue(r)
    PROVE  Alone'
<1>1. r \in InFlight /\ req[r].conn = NoConn /\ OnePool /\ OneHandler /\ Kept /\ InFlight = {r}
  BY DEF Issue, Alone, OnePool
<1>2. UNCHANGED <<row, tx, answer>>
  BY DEF Issue
<1>3. PICK c \in Conn : /\ req' = [req EXCEPT ![r].conn = c] /\ idle' = <<>>
                        /\ idle = <<c>> \/ idle = <<>>
  <2>1. CASE idle = <<>>
    <3>1. \E c \in Conn : req' = [req EXCEPT ![r].conn = c]
      BY <2>1 DEF Issue
    <3>2. idle' = <<>>
      BY <2>1 DEF Issue
    <3>3. QED
      BY <2>1, <3>1, <3>2
  <2>2. CASE idle # <<>>
    <3>1. PICK c \in Conn : idle = <<c>> /\ Last(idle) = c /\ Front(idle) = <<>>
      BY <1>1, <2>2, IdleOne DEF OnePool
    <3>2. QED
      BY <2>2, <3>1 DEF Issue
  <2>3. QED
    BY <2>1, <2>2
<1>4. /\ req'[r].pc = req[r].pc /\ req'[r].conn = c /\ req'[r].user = req[r].user
      /\ req'[r].change = req[r].change
      /\ \A q \in Req \ {r} : req'[q] = req[q]
  BY <1>3 DEF TypeOK
<1>5. InFlight' = {r}
  BY <1>1, <1>4 DEF InFlight
<1>6. OnePool'
  BY <1>3, <1>5, IdleOne, <1>1 DEF OnePool
<1>7. \A d \in Conn : idle = <<d>> => d = c
  BY <1>3
<1>8. req[r].pc \in Inside => /\ \A d \in Conn \ {c} : Closed(d)
                              /\ req[r].pc # "rollback" => Progress(r, c)
  BY <1>1, <1>7, MarkerAssumption DEF OneHandler, Uses
<1>9. OneHandler'
  <2>1. req[r].pc \in Before => \A d \in Conn : Closed(d)
    BY <1>1 DEF OneHandler
  <2>2. (req[r].pc \in Decided /\ Removes(row[req[r].user], req[r].change)) =>
            \E v \in User \ {req[r].user} : Admin(v)
    BY <1>1 DEF OneHandler
  <2>3. Progress(r, c) => Progress(r, c)'
    BY <1>2, <1>4 DEF Progress, Bound
  <2>4. QED
    BY <1>2, <1>4, <1>5, <1>8, <2>1, <2>2, <2>3 DEF OneHandler, Closed, Uses, Admin
<1>10. Kept'
  BY <1>1, <1>2, <1>4 DEF Kept, Admin
<1>11. QED
  BY <1>6, <1>9, <1>10 DEF Alone

LEMMA BrokenAlone ==
    ASSUME TypeOK, Database, Stages, Alone, alone, NEW r \in Req, FailsInBrokenTx(r)
    PROVE  FALSE
<1>1. r \in InFlight /\ req[r].pc \in Before \cup Inside /\ req[r].pc # "rollback"
  BY DEF FailsInBrokenTx, Stages, InFlight, TypeOK, Pc, Before, Inside
<1>2. PICK c \in Conn : c = req[r].conn
  BY DEF FailsInBrokenTx, TypeOK
<1>3. Closed(c) \/ Progress(r, c)
  BY <1>1, <1>2, AloneFacts
<1>4. QED
  BY <1>2, <1>3 DEF Closed, Progress, FailsInBrokenTx, Broken

LEMMA AuthAlone ==
    ASSUME TypeOK, Database, Stages, Alone, alone, NEW r \in Req, Auth(r)
    PROVE  Alone'
<1>1. r \in InFlight /\ req[r].pc = "auth"
  BY DEF Auth, At, InFlight
<1>2. PICK c \in Conn : c = req[r].conn
  BY DEF Auth, At, TypeOK
<1>3. OnePool /\ Kept /\ req[r].conn # NoConn /\ \A d \in Conn : tx'[d].state = "none"
  BY <1>1, <1>2, AloneFacts DEF Before, Auth, Closed
<1>4. PICK pc \in {"begin", "read", "done"} : Resume(r, pc)
  BY DEF Auth, Respond, Continue
<1>5. Kept'
  <2>1. \A q \in Req : req'[q].user = req[q].user
    BY <1>1, <1>3, <1>4, Resumed DEF Pc
  <2>2. row' = row /\ (answer' = answer \/ answer' = [answer EXCEPT ![r] = "refused"])
    BY DEF Auth, Respond, Continue
  <2>3. QED
    BY <1>3, <2>1, <2>2, KeptRow
<1>6. QED
  BY <1>1, <1>2, <1>3, <1>4, <1>5, ResumedAlone DEF Pc, Before, Inside, Decided

LEMMA BeginAlone ==
    ASSUME TypeOK, Database, Stages, Alone, alone, NEW r \in Req, Begin(r)
    PROVE  Alone'
<1>1. r \in InFlight /\ req[r].pc = "begin"
  BY DEF Begin, At, InFlight
<1>2. PICK c \in Conn : c = req[r].conn
  BY DEF Begin, At, TypeOK
<1>3. /\ OnePool /\ Kept /\ req[r].conn # NoConn /\ \A d \in Conn : Closed(d)
      /\ tx[c].writes = {} /\ \A u \in User : ~Bound(c, u)
  BY <1>1, <1>2, AloneFacts DEF Before
<1>4. Resume(r, "pick") /\ "pick" \in Pc \ {"idle"} /\ row' = row /\ answer' = answer
      /\ tx' = [tx EXCEPT ![c].state = "open"]
  BY <1>2 DEF Begin, Begun, Continue, Pc
<1>5. /\ \A d \in Conn \ {c} : tx'[d].state = "none"
      /\ tx'[c].state = "open" /\ tx'[c].writes = {} /\ tx'[c].bound = tx[c].bound
  BY <1>3, <1>4, RowFacts DEF Tx, Closed
<1>6. /\ \A q \in Req : req'[q].user = req[q].user
      /\ req'[r].pc = "pick"
  BY <1>1, <1>3, <1>4, Resumed
<1>7. Progress(r, c)'
  BY <1>3, <1>5, <1>6 DEF Progress, Bound
<1>8. Kept'
  BY <1>3, <1>4, <1>6, KeptRow
<1>9. QED
  BY <1>1, <1>2, <1>3, <1>4, <1>5, <1>7, <1>8, ResumedAlone DEF Before, Inside, Decided

LEMMA PickAlone ==
    ASSUME TypeOK, Database, Stages, Alone, alone, NEW r \in Req, Pick(r) \/ PickWaited(r)
    PROVE  Alone'
<1>1. r \in InFlight /\ req[r].pc \in {"pick", "lock"}
  BY DEF Pick, PickWaited, At, InFlight
<1>2. PICK c \in Conn : c = req[r].conn
  BY DEF Pick, PickWaited, At, TypeOK
<1>3. /\ OnePool /\ Kept /\ req[r].conn # NoConn /\ Progress(r, c)
      /\ \A d \in Conn \ {c} : /\ Closed(d) /\ tx[d].locks = {}
                               /\ \A u \in User : ~Bound(d, u)
      /\ tx[c].state = "open" /\ tx[c].writes = {} /\ \A u \in User : ~Bound(c, u)
  BY <1>1, <1>2, AloneFacts DEF Inside, Progress
<1>4. \A s \in Slot : ~SlotLocked(c, s)
  BY <1>3, RowFacts DEF SlotLocked, Bound
<1>5. CASE Resume(r, "rollback") /\ UNCHANGED tx /\ answer' = [answer EXCEPT ![r] = "noSlot"]
           /\ row' = row
  <2>1. \A q \in Req : req'[q].user = req[q].user
    BY <1>1, <1>3, <1>5, Resumed DEF Pc
  <2>2. Kept'
    BY <1>3, <1>5, <2>1, KeptRow
  <2>3. \A d \in Conn \ {c} : tx'[d].state = "none"
    BY <1>3, <1>5 DEF Closed
  <2>4. QED
    BY <1>1, <1>2, <1>3, <1>5, <2>2, <2>3, ResumedAlone DEF Pc, Before, Inside, Decided
<1>6. ASSUME NEW s \in Slot, Resume(r, "insertUser"), LockSlot(c, s), answer' = answer, row' = row
      PROVE  Alone'
  <2>1. /\ \A q \in Req : req'[q].user = req[q].user
        /\ req'[r].pc = "insertUser"
    BY <1>1, <1>3, <1>6, Resumed DEF Pc
  <2>2. /\ \A d \in Conn \ {c} : tx'[d] = tx[d]
        /\ tx'[c].state = "open" /\ tx'[c].writes = {} /\ tx'[c].bound = tx[c].bound
    BY <1>3, <1>6, RowFacts DEF Tx, LockSlot
  <2>3. Progress(r, c)'
    BY <1>3, <2>1, <2>2 DEF Progress, Bound
  <2>4. Kept'
    BY <1>3, <1>6, <2>1, KeptRow
  <2>5. \A d \in Conn \ {c} : tx'[d].state = "none"
    BY <1>3, <2>2 DEF Closed
  <2>6. QED
    BY <1>1, <1>2, <1>3, <1>6, <2>3, <2>4, <2>5, ResumedAlone DEF Pc, Before, Inside, Decided
<1>7. CASE Pick(r)
  <2> DEFINE s == First(FreeSlots(c))
  <2>1. FreeSlots(c) # {} => s \in Slot
    BY FirstIn DEF FreeSlots
  <2>2. CASE FreeSlots(c) = {}
    BY <1>2, <1>5, <1>7, <2>2 DEF Pick
  <2>3. CASE FreeSlots(c) # {}
    <3>1. ~SlotLocked(c, s)
      BY <1>4, <2>1, <2>3
    <3>2. Resume(r, "insertUser") /\ LockSlot(c, s) /\ answer' = answer /\ row' = row
      BY <1>2, <1>7, <2>3, <3>1 DEF Pick, Continue
    <3>3. PICK t \in Slot : t = s
      BY <2>1, <2>3
    <3>4. LockSlot(c, t)
      BY <3>2, <3>3
    <3>5. QED
      BY <1>6, <3>2, <3>4
  <2>4. QED
    BY <2>2, <2>3
<1>8. CASE PickWaited(r)
  <2>1. PICK t \in Slot : t = slot[r]
    BY <1>8 DEF PickWaited, At, Stages, TypeOK
  <2>2. Resume(r, "insertUser") /\ LockSlot(c, t) /\ answer' = answer /\ row' = row
    BY <1>2, <1>8, <2>1 DEF PickWaited, Continue
  <2>3. QED
    BY <1>6, <2>2
<1>9. QED
  BY <1>7, <1>8

LEMMA InsertUserAlone ==
    ASSUME TypeOK, Database, Stages, Alone, alone, NEW r \in Req, InsertUser(r)
    PROVE  Alone'
<1>1. r \in InFlight /\ req[r].pc = "insertUser"
  BY DEF InsertUser, At, InFlight
<1>2. PICK c \in Conn : c = req[r].conn
  BY DEF InsertUser, At, TypeOK
<1>3. /\ OnePool /\ Kept /\ req[r].conn # NoConn /\ \A d \in Conn \ {c} : Closed(d)
      /\ tx[c].state = "open" /\ tx[c].writes = {} /\ \A v \in User : ~Bound(c, v)
      /\ req[r].user \in User
  BY <1>1, <1>2, AloneFacts DEF Inside, Progress
<1>4. PICK u \in User : u = req[r].user
  BY <1>3
<1>5. CASE Fails(r, "exists")
  BY <1>1, <1>3, <1>5, FailsAlone
<1>6. CASE ~Fails(r, "exists")
  <2> DEFINE t == [Absent EXCEPT !.made = TRUE, !.id = r, !.active = TRUE,
                                 !.admin = ("promote" \in req[r].change)]
  <2>1. ~Visible(c)[u].made /\ Write(c, u, t) /\ Continue(r, "insertRuntime")
    BY <1>2, <1>4, <1>6 DEF InsertUser, Account
  <2>2. ~row[u].made
    BY <1>3, <2>1, VisibleFacts
  <2>3. row' = row /\ Resume(r, "insertRuntime") /\ answer' = answer
    BY <1>3, <2>1 DEF Write, Continue
  <2>4. tx' = [tx EXCEPT ![c].writes = @ \cup {u}, ![c].row[u] = t]
    BY <1>3, <2>1 DEF Write
  <2>5. /\ \A d \in Conn \ {c} : tx'[d] = tx[d]
        /\ tx'[c].state = "open" /\ tx'[c].writes = {u} /\ tx'[c].bound = tx[c].bound
    BY <1>3, <2>4, RowFacts DEF Tx
  <2>6. /\ \A q \in Req : req'[q].user = req[q].user
        /\ req'[r].pc = "insertRuntime"
    BY <1>1, <1>3, <2>3, Resumed DEF Pc
  <2>7. Progress(r, c)'
    BY <1>1, <1>3, <1>4, <2>2, <2>3, <2>5, <2>6 DEF Progress, Bound
  <2>8. Kept'
    BY <1>3, <2>3, <2>6, KeptRow
  <2>9. \A d \in Conn \ {c} : tx'[d].state = "none"
    BY <1>3, <2>5 DEF Closed
  <2>10. QED
    BY <1>1, <1>2, <1>3, <2>3, <2>7, <2>8, <2>9, ResumedAlone DEF Pc, Before, Inside, Decided
<1>7. QED
  BY <1>5, <1>6

LEMMA InsertRuntimeAlone ==
    ASSUME TypeOK, Database, Stages, Alone, alone, NEW r \in Req, InsertRuntime(r)
    PROVE  Alone'
<1>1. r \in InFlight /\ req[r].pc = "insertRuntime"
  BY DEF InsertRuntime, At, InFlight
<1>2. PICK c \in Conn : c = req[r].conn
  BY DEF InsertRuntime, At, TypeOK
<1>3. PICK u \in User : u = req[r].user
  BY <1>1, <1>2, AloneFacts
<1>4. /\ OnePool /\ Kept /\ req[r].conn # NoConn /\ \A d \in Conn \ {c} : Closed(d)
      /\ tx[c].state = "open" /\ tx[c].writes = {u} /\ \A v \in User : ~Bound(c, v)
      /\ ~row[u].made
  BY <1>1, <1>2, <1>3, AloneFacts DEF Inside, Progress
<1>5. CASE Fails(r, "exists") \/ Fails(r, "failed")
  BY <1>1, <1>4, <1>5, FailsAlone
<1>6. CASE ~(Fails(r, "exists") \/ Fails(r, "failed"))
  <2>1. PICK s \in Slot : s = slot[r] /\ s # NoSlot
    BY <1>1 DEF Stages, TypeOK, InFlight
  <2>2. Bind(c, u, s) /\ Resume(r, "commit") /\ answer' = answer
    BY <1>2, <1>3, <1>6, <2>1 DEF InsertRuntime, Continue
  <2>3. row' = row /\ tx' = [tx EXCEPT ![c].bound[u] = s]
    BY <1>4, <2>2 DEF Bind
  <2>4. /\ \A d \in Conn \ {c} : tx'[d] = tx[d]
        /\ tx'[c].state = "open" /\ tx'[c].writes = {u}
        /\ \A v \in User : tx'[c].bound[v] = IF v = u THEN s ELSE tx[c].bound[v]
    BY <1>4, <2>3, RowFacts DEF Tx
  <2>5. /\ \A q \in Req : req'[q].user = req[q].user
        /\ req'[r].pc = "commit"
    BY <1>1, <1>4, <2>2, Resumed DEF Pc
  <2>6. Progress(r, c)'
    BY <1>1, <1>3, <1>4, <2>1, <2>3, <2>4, <2>5 DEF Progress, Bound, InFlight
  <2>7. Kept'
    BY <1>4, <2>2, <2>3, <2>5, KeptRow
  <2>8. \A d \in Conn \ {c} : tx'[d].state = "none"
    BY <1>4, <2>4 DEF Closed
  <2>9. QED
    BY <1>1, <1>2, <1>4, <2>2, <2>6, <2>7, <2>8, ResumedAlone DEF Pc, Before, Inside, Decided
<1>7. QED
  BY <1>5, <1>6

LEMMA CommitAlone ==
    ASSUME TypeOK, Database, Stages, Alone, alone, NEW r \in Req, Commit(r)
    PROVE  Alone'
<1>1. r \in InFlight /\ req[r].pc = "commit"
  BY DEF Commit, At, InFlight
<1>2. PICK c \in Conn : c = req[r].conn
  BY DEF Commit, At, TypeOK
<1>3. PICK u \in User : u = req[r].user
  BY <1>1, <1>2, AloneFacts
<1>4. /\ OnePool /\ Kept /\ req[r].conn # NoConn /\ \A d \in Conn \ {c} : Closed(d)
      /\ tx[c].state = "open" /\ tx[c].writes = {u} /\ \A v \in User : Bound(c, v) <=> v = u
      /\ ~row[u].made
  BY <1>1, <1>2, <1>3, AloneFacts DEF Inside, Progress
<1>5. /\ row' = Visible(c) /\ tx' = [tx EXCEPT ![c] = NoTx] /\ Resume(r, "done")
      /\ answer' = [answer EXCEPT ![r] = "created"]
  BY <1>2, <1>4 DEF Commit, Committed, Respond
<1>6. /\ row'[u].made /\ row'[u].slot # NoSlot
      /\ \A v \in User \ {u} : row'[v] = row[v]
  BY <1>4, <1>5, VisibleFacts DEF Bound, Database, Written
<1>7. \A d \in Conn : tx'[d].state = "none"
  BY <1>4, <1>5, NewTypes, RowFacts DEF Closed
<1>8. \A q \in Req : req'[q].user = req[q].user
  BY <1>1, <1>4, <1>5, Resumed DEF Pc
<1>9. Kept'
  <2>1. \E v \in User : Admin(v)'
    <3>1. PICK v \in User : Admin(v)
      BY <1>4 DEF Kept
    <3>2. row'[v] = row[v]
      BY <1>4, <1>6, <3>1 DEF Admin
    <3>3. QED
      BY <3>1, <3>2 DEF Admin
  <2>2. \A v \in User : row'[v].made => row'[v].slot # NoSlot
    BY <1>4, <1>6 DEF Kept
  <2>3. ASSUME NEW q \in Req, answer'[q] = "created"
        PROVE  row'[req'[q].user].made
    <3>1. CASE q = r
      BY <1>3, <1>6, <1>8, <3>1
    <3>2. CASE q # r
      <4>1. answer[q] = "created"
        BY <1>5, <2>3, <3>2 DEF TypeOK
      <4>2. row[req[q].user].made /\ req[q].user \in User
        BY <1>4, <4>1 DEF Kept, TypeOK
      <4>3. row'[req[q].user].made
        BY <1>6, <4>2
      <4>4. QED
        BY <1>8, <4>3
    <3>3. QED
      BY <3>1, <3>2
  <2>4. QED
    BY <2>1, <2>2, <2>3 DEF Kept
<1>10. QED
  BY <1>1, <1>2, <1>4, <1>5, <1>7, <1>9, ResumedAlone DEF Pc, Before, Inside, Decided

LEMMA RollbackAlone ==
    ASSUME TypeOK, Database, Stages, Alone, alone, NEW r \in Req, Rollback(r)
    PROVE  Alone'
<1>1. r \in InFlight /\ req[r].pc = "rollback"
  BY DEF Rollback, At, InFlight
<1>2. PICK c \in Conn : c = req[r].conn
  BY DEF Rollback, At, TypeOK
<1>3. /\ OnePool /\ Kept /\ req[r].conn # NoConn /\ \A d \in Conn \ {c} : Closed(d)
  BY <1>1, <1>2, AloneFacts DEF Inside
<1>4. Resume(r, "done") /\ answer' = answer /\ row' = row /\ tx' = [tx EXCEPT ![c] = NoTx]
  BY <1>2 DEF Rollback, Continue
<1>5. \A d \in Conn : tx'[d].state = "none"
  BY <1>3, <1>4, NewTypes, RowFacts DEF Closed
<1>6. Kept'
  <2>1. \A q \in Req : req'[q].user = req[q].user
    BY <1>1, <1>3, <1>4, Resumed DEF Pc
  <2>2. QED
    BY <1>3, <1>4, <2>1, KeptRow
<1>7. QED
  BY <1>1, <1>2, <1>3, <1>4, <1>5, <1>6, ResumedAlone DEF Pc, Before, Inside, Decided

(* The statements that only read.                                          *)
LEMMA ReadsAlone ==
    ASSUME TypeOK, Database, Stages, Alone, alone, NEW r \in Req,
           NEW pc \in Before \cup {"done"}, NEW a, a # "created",
           req[r].pc \in Before, req[r].conn # NoConn, Resume(r, pc),
           UNCHANGED <<row, tx>>,
           answer' = [answer EXCEPT ![r] = a] \/ answer' = answer,
           pc \in Decided => (Removes(row[req[r].user], req[r].change) =>
                                 \E v \in User \ {req[r].user} : Admin(v))
    PROVE  Alone'
<1>1. r \in InFlight
  BY DEF InFlight, Before
<1>2. PICK c \in Conn : c = req[r].conn
  BY DEF TypeOK
<1>3. OnePool /\ Kept /\ \A d \in Conn : tx'[d].state = "none"
  BY <1>1, <1>2, AloneFacts DEF Closed
<1>4. pc \in Pc \ {"idle"} /\ pc \notin Inside
  BY DEF Pc, Before, Inside
<1>5. \A q \in Req : req'[q].user = req[q].user
  BY <1>1, <1>3, <1>4, Resumed
<1>6. Kept'
  BY <1>3, <1>5, KeptRow
<1>7. pc \in Decided => (Removes(row'[req[r].user], req[r].change) =>
                                 \E v \in User \ {req[r].user} : Admin(v)')
  BY DEF Admin
<1>8. QED
  BY <1>1, <1>2, <1>3, <1>4, <1>6, <1>7, ResumedAlone

LEMMA ReadAlone ==
    ASSUME TypeOK, Database, Stages, Alone, alone, NEW r \in Req, Read(r)
    PROVE  Alone'
<1>1. r \in InFlight /\ req[r].pc = "read" /\ req[r].conn # NoConn /\ UNCHANGED <<row, tx>>
  BY DEF Read, At, InFlight
<1>2. PICK c \in Conn : c = req[r].conn
  BY <1>1 DEF TypeOK
<1>3. Account(r) = row[req[r].user]
  BY <1>1, <1>2, AloneFacts, VisibleFacts DEF Before, Account
<1>4. CASE ~Finds(r) \/ (req[r].user = req[r].actor /\ "disable" \in req[r].change)
  <2>1. Respond(r, "refused")
    BY <1>4 DEF Read
  <2>2. QED
    BY <1>1, <2>1, ReadsAlone DEF Before, Respond, Decided
<1>5. CASE ~(~Finds(r) \/ (req[r].user = req[r].actor /\ "disable" \in req[r].change))
  <2>1. PICK pc \in {"checkRuntime", "checkBoth", "count", "update"} :
           /\ Continue(r, pc)
           /\ pc \in Decided => ~Removes(row[req[r].user], req[r].change)
    BY <1>3, <1>5 DEF Read, Decided
  <2>2. QED
    BY <1>1, <2>1, ReadsAlone DEF Before, Continue
<1>6. QED
  BY <1>4, <1>5

LEMMA CheckRuntimeAlone ==
    ASSUME TypeOK, Database, Stages, Alone, alone, NEW r \in Req, CheckRuntime(r)
    PROVE  Alone'
<1>1. /\ req[r].pc \in {"checkRuntime", "checkBoth"}
      /\ req[r].conn # NoConn /\ UNCHANGED <<row, tx>>
  BY DEF CheckRuntime, At
<1>2. req[r].pc = "checkRuntime" =>
        (Removes(row[req[r].user], req[r].change) => \E v \in User \ {req[r].user} : Admin(v))
  BY <1>1 DEF Alone, OneHandler, InFlight, Decided
<1>3. PICK pc \in {"done", "count", "update"} :
         /\ Resume(r, pc) /\ (answer' = [answer EXCEPT ![r] = "refused"] \/ answer' = answer)
         /\ pc = "update" => req[r].pc = "checkRuntime"
  BY <1>1 DEF CheckRuntime, Respond, Continue
<1>4. QED
  BY <1>1, <1>2, <1>3, ReadsAlone DEF Before, Decided

LEMMA CountAlone ==
    ASSUME TypeOK, Database, Stages, Alone, alone, NEW r \in Req, Count(r)
    PROVE  Alone'
<1>1. r \in InFlight /\ req[r].pc = "count" /\ req[r].conn # NoConn /\ UNCHANGED <<row, tx>>
  BY DEF Count, At, InFlight
<1>2. PICK c \in Conn : c = req[r].conn
  BY <1>1 DEF TypeOK
<1>3. \A v \in User : Visible(c)[v] = row[v]
  BY <1>1, <1>2, AloneFacts, VisibleFacts DEF Before
<1>4. CASE LastAdmin(c)
  BY <1>1, <1>2, <1>4, ReadsAlone DEF Count, Before, Respond, Decided
<1>5. CASE ~LastAdmin(c)
  <2> DEFINE A == {v \in User : Visible(c)[v].admin /\ Visible(c)[v].active}
  <2>1. ~(Cardinality(A) <= 1)
    BY <1>5 DEF LastAdmin
  <2>2. PICK u : u = req[r].user
    OBVIOUS
  <2>3. \E v \in A : v # u
    <3>1. SUFFICES ASSUME A \subseteq {u} PROVE FALSE
      OBVIOUS
    <3>2. Cardinality(A) <= Cardinality({u}) /\ Cardinality({u}) = 1
      BY <3>1, FS_Subset, FS_Singleton
    <3>3. QED
      BY <2>1, <3>2
  <2>4. PICK v \in User \ {u} : Visible(c)[v].admin /\ Visible(c)[v].active
    BY <2>3
  <2>5. Admin(v)
    BY <1>3, <2>4 DEF Admin, Database, Written
  <2>6. Continue(r, "update")
    BY <1>2, <1>5 DEF Count
  <2>7. QED
    BY <1>1, <2>2, <2>5, <2>6, ReadsAlone DEF Before, Continue
<1>6. QED
  BY <1>4, <1>5

LEMMA UpdateAlone ==
    ASSUME TypeOK, Database, Stages, Alone, alone, NEW r \in Req, Update(r)
    PROVE  Alone'
<1>1. r \in InFlight /\ req[r].pc = "update" /\ req[r].conn # NoConn /\ Respond(r, "ok")
  BY DEF Update, At, InFlight
<1>2. PICK c \in Conn : c = req[r].conn
  BY <1>1 DEF TypeOK
<1>3. PICK u \in User : u = req[r].user
  BY <1>1, <1>2, AloneFacts
<1>4. PICK k \in Changes : k = req[r].change
  BY DEF TypeOK
<1>5. /\ OnePool /\ Kept /\ \A d \in Conn : tx[d].state = "none"
      /\ Removes(row[u], k) => \E v \in User \ {u} : Admin(v)
  BY <1>1, <1>2, <1>3, <1>4, AloneFacts DEF Before, Closed, Alone, OneHandler, Decided
<1>6. Account(r) = row[u]
  BY <1>1, <1>2, <1>3, AloneFacts, VisibleFacts DEF Before, Account
<1>7. CASE ~Finds(r)
  BY <1>1, <1>7, ReadsAlone DEF Update, Before, Respond, Decided
<1>8. CASE Finds(r)
  <2>1. Write(c, u, Changed(row[u], k)) /\ row[u].made
    BY <1>2, <1>3, <1>4, <1>6, <1>8 DEF Update, Finds
  <2>2. PICK t \in Row : t = row[u]
    BY RowFacts
  <2>3. PICK n \in Row : n = Changed(t, k) /\ n.made = t.made
    BY ChangedMade
  <2>4. /\ tx' = tx
        /\ row' = [row EXCEPT ![u] = [n EXCEPT !.slot = row[u].slot,
                                               !.released = row[u].released]]
    BY <1>5, <2>1, <2>2, <2>3 DEF Write
  <2>5. PICK m \in Row : m = [n EXCEPT !.slot = row[u].slot, !.released = row[u].released]
    BY RowTypes
  <2>6. m.slot = t.slot /\ m.made = t.made /\ m.admin = n.admin /\ m.active = n.active
    BY <2>2, <2>3, <2>5 DEF Row
  <2>7. \A v \in User : row'[v] = IF v = u THEN m ELSE row[v]
    BY <2>4, <2>5, RowFacts
  <2>8. ~Removes(t, k) /\ t.admin /\ t.active => n.admin /\ n.active
    BY <2>3 DEF Removes, Changed, Changes, Row
  <2>9. \E v \in User : Admin(v)'
    <3>1. CASE \E v \in User \ {u} : Admin(v)
      BY <2>7, <3>1 DEF Admin
    <3>2. CASE ~\E v \in User \ {u} : Admin(v)
      <4>1. Admin(u) /\ ~Removes(row[u], k)
        BY <1>5, <3>2 DEF Kept
      <4>2. QED
        BY <2>2, <2>6, <2>7, <2>8, <4>1 DEF Admin
    <3>3. QED
      BY <3>1, <3>2
  <2>10. /\ \A q \in Req : req'[q].user = req[q].user
         /\ Resume(r, "done") /\ answer' = [answer EXCEPT ![r] = "ok"]
    BY <1>1, <1>5, Resumed DEF Pc, Respond
  <2>11. \A v \in User : row[v].made => row'[v].made
    BY <2>1, <2>2, <2>6, <2>7
  <2>12. \A v \in User : row'[v].made => row'[v].slot # NoSlot
    BY <1>5, <2>1, <2>2, <2>6, <2>7 DEF Kept
  <2>13. \A q \in Req : answer'[q] = "created" => row'[req'[q].user].made
    BY <1>5, <2>10, <2>11 DEF Kept, TypeOK
  <2>14. Kept'
    BY <2>9, <2>12, <2>13 DEF Kept
  <2>15. QED
    BY <1>1, <1>2, <1>5, <2>4, <2>10, <2>14, ResumedAlone DEF Pc, Before, Inside, Decided
<1>9. QED
  BY <1>7, <1>8

LEMMA CloseIdleAlone ==
    ASSUME TypeOK, Alone, alone, NEW c \in Conn, CloseIdle(c)
    PROVE  Alone'
<1>1. PICK i \in DOMAIN idle : idle' = RemoveAt(idle, i)
  BY DEF CloseIdle
<1>2. OnePool /\ Kept /\ UNCHANGED <<row, req, answer>> /\ tx' = [tx EXCEPT ![c] = NoTx]
  BY DEF Alone, CloseIdle
<1>3. idle # <<>>
  BY <1>1
<1>4. InFlight = {} /\ InFlight' = {}
  BY <1>2, <1>3 DEF OnePool, CloseIdle, InFlight
<1>5. Len(idle') <= 1
  <2>1. Len(idle') = Len(idle) - 1 /\ Len(idle) \in Nat /\ Len(idle) <= 1
    BY <1>1, <1>2, IdleFacts DEF OnePool
  <2>2. PICK n \in Nat : n <= 1 /\ Len(idle') = n - 1
    BY <2>1
  <2>3. n - 1 <= 1
    BY <2>2
  <2>4. QED
    BY <2>2, <2>3
<1>6. \A d \in Conn : tx'[d].state = "none"
  BY <1>2, <1>4, NewTypes, RowFacts DEF OnePool, Closed
<1>7. OnePool' /\ OneHandler'
  BY <1>4, <1>5, <1>6 DEF OnePool, OneHandler, Closed
<1>8. Kept'
  BY <1>2 DEF Kept, Admin
<1>9. QED
  BY <1>7, <1>8 DEF Alone

LEMMA ReleaseAlone ==
    ASSUME TypeOK, Alone, alone, NEW s \in Slot, ReleaseByHand(s)
    PROVE  Alone'
<1>1. PICK u \in User : row' = [row EXCEPT ![u].released = TRUE]
  BY DEF ReleaseByHand
<1>2. \A v \in User : /\ row'[v].slot = row[v].slot /\ row'[v].made = row[v].made
                      /\ row'[v].admin = row[v].admin /\ row'[v].active = row[v].active
  BY <1>1, RowFacts DEF Row
<1>3. OnePool /\ Kept /\ InFlight = {} /\ UNCHANGED <<req, idle, tx, answer>>
  BY DEF Alone, ReleaseByHand
<1>4. OnePool' /\ OneHandler'
  BY <1>3 DEF OnePool, OneHandler, InFlight, Closed
<1>5. Kept'
  BY <1>2, <1>3 DEF Kept, Admin, TypeOK
<1>6. QED
  BY <1>4, <1>5 DEF Alone

LEMMA AloneKept ==
    ASSUME TypeOK, Database, Stages, Alone, [Next]_vars
    PROVE  Alone'
<1>1. SUFFICES ASSUME alone' PROVE Alone'
  BY DEF Alone
<1>2. CASE UNCHANGED vars
  <2>1. UNCHANGED <<row, tx, idle, req, answer, alone>>
    BY <1>2 DEF vars
  <2>2. InFlight' = InFlight
    BY <2>1 DEF InFlight
  <2>3. OnePool => OnePool'
    BY <2>1, <2>2 DEF OnePool, Closed
  <2>4. OneHandler => OneHandler'
    <3>1. \A r \in Req, c \in Conn : Uses(r, c)' = Uses(r, c)
      BY <2>1 DEF Uses
    <3>2. QED
      BY <2>1, <2>2, <3>1 DEF OneHandler, Closed, Uses, Progress, Bound, Admin
  <2>5. Kept => Kept'
    BY <2>1 DEF Kept, Admin
  <2>6. QED
    BY <2>1, <2>3, <2>4, <2>5 DEF Alone
<1>3. ASSUME NEW r \in Req, Arrive(r) PROVE Alone'
  BY <1>1, <1>3, ArriveAlone
<1>4. alone \/ (\E r \in Req : Arrive(r)) \/ UNCHANGED vars
  <2>1. ASSUME NEW r \in Req, Issue(r) \/ FailsInBrokenTx(r) \/ Auth(r) \/ Begin(r)
        PROVE  alone' = alone
    BY <2>1 DEF Issue, FailsInBrokenTx, Auth, Begin, Fails, Respond, Continue, Resume
  <2>2. ASSUME NEW r \in Req, Pick(r) \/ PickWaited(r) \/ InsertUser(r) \/ InsertRuntime(r)
        PROVE  alone' = alone
    BY <2>2 DEF Pick, PickWaited, InsertUser, InsertRuntime, Fails, Respond, Continue, Resume
  <2>3. ASSUME NEW r \in Req, Commit(r) \/ Rollback(r) \/ Read(r)
        PROVE  alone' = alone
    BY <2>3 DEF Commit, Rollback, Read, Fails, Respond, Continue, Resume
  <2>4. ASSUME NEW r \in Req, CheckRuntime(r) \/ Count(r) \/ Update(r)
        PROVE  alone' = alone
    BY <2>4 DEF CheckRuntime, Count, Update, Fails, Respond, Continue, Resume
  <2>5. ASSUME (\E c \in Conn : CloseIdle(c)) \/ (\E s \in Slot : ReleaseByHand(s))
        PROVE  alone' = alone
    BY <2>5 DEF CloseIdle, ReleaseByHand
  <2>6. QED
    BY <1>1, <2>1, <2>2, <2>3, <2>4, <2>5 DEF Next
<1>5. QED
  BY <1>2, <1>3, <1>4, IssueAlone, BrokenAlone, AuthAlone, BeginAlone, PickAlone,
     InsertUserAlone, InsertRuntimeAlone, CommitAlone, RollbackAlone, ReadAlone,
     CheckRuntimeAlone, CountAlone, UpdateAlone, CloseIdleAlone, ReleaseAlone DEF Next

-----------------------------------------------------------------------------
LEMMA Initially ==
    ASSUME Init
    PROVE  IInv
<1>1. PICK s \in [Founders -> 1..Cardinality(Founders)] :
          /\ \A u, v \in Founders : s[u] = s[v] => u = v
          /\ row = [u \in User |-> IF u \in Founders
                                   THEN [made |-> TRUE, id |-> NoReq, admin |-> TRUE,
                                         active |-> TRUE, slot |-> s[u], released |-> FALSE]
                                   ELSE Absent]
  BY DEF Init
<1>2. \A u \in Founders : s[u] \in Slot /\ s[u] # NoSlot
  BY FoundersAssumption DEF Slot, NoSlot
<1>3. row \in [User -> Row]
  BY <1>1, <1>2, NewTypes DEF Row, Id
<1>4. Founders # {} /\ Founders \subseteq User
  BY FoundersAssumption, FS_EmptySet
<1>5. tx = [c \in Conn |-> NoTx] /\ idle = <<>> /\ slot = [r \in Req |-> NoSlot]
      /\ answer = [r \in Req |-> "none"] /\ alone = TRUE
  BY DEF Init
<1>6. PICK f \in Founders : req = [r \in Req |-> NoRequest(f)]
  <2>1. (CHOOSE u \in Founders : TRUE) \in Founders
    BY <1>4
  <2>2. req = [r \in Req |-> NoRequest(CHOOSE u \in Founders : TRUE)]
    BY DEF Init
  <2>3. QED
    BY <2>1, <2>2
<1>7. /\ InFlight = {}
      /\ \A r \in Req : req[r].pc = "idle" /\ req[r].conn = NoConn
  BY <1>6 DEF NoRequest, InFlight
<1>8. TypeOK
  <2>1. tx \in [Conn -> Tx] /\ slot \in [Req -> Slot \cup {NoSlot}]
    BY <1>5, NewTypes
  <2>2. idle \in Seq(Conn)
    BY <1>5, EmptySeq
  <2>3. NoRequest(f) \in [pc : Pc, post : BOOLEAN, actor : User, user : User, id : Id,
                          change : Changes, conn : Conn \cup {NoConn}]
    BY <1>4 DEF NoRequest, Pc, Id, Changes
  <2>4. QED
    BY <1>3, <1>5, <1>6, <2>1, <2>2, <2>3 DEF TypeOK, Tx
<1>9. \A u \in User : IF u \in Founders
                      THEN row[u].made /\ row[u].admin /\ row[u].active /\ row[u].slot = s[u]
                      ELSE ~row[u].made /\ ~row[u].admin /\ row[u].slot = NoSlot
  BY <1>1 DEF Absent
<1>10. SlotsExclusive
  BY <1>1, <1>2, <1>9 DEF SlotsExclusive
<1>11. \A c \in Conn : /\ tx[c].state = "none" /\ tx[c].writes = {} /\ tx[c].locks = {}
                       /\ \A u \in User : tx[c].bound[u] = NoSlot
  BY <1>5, NewTypes
<1>12. Written /\ Bindings
  BY <1>9, <1>11 DEF Written, Bindings, Bound
<1>13. Stages
  BY <1>5, <1>7 DEF Stages, InFlight, Inside
<1>14. OnePool /\ OneHandler
  BY <1>5, <1>7, <1>11 DEF OnePool, OneHandler, Closed
<1>15. Kept
  BY <1>2, <1>4, <1>5, <1>9 DEF Kept, Admin
<1>16. QED
  BY <1>8, <1>10, <1>12, <1>13, <1>14, <1>15 DEF IInv, Alone

(* The inductive invariant.                                                *)
THEOREM Invariance == Spec => []IInv
<1>1. ASSUME IInv, [Next]_vars PROVE IInv'
  BY <1>1, TypesKept, DatabaseKept, StagesKept, AloneKept DEF IInv, Database
<1>2. QED
  BY Initially, <1>1, PTL DEF Spec

(* No two accounts ever have the same runtime, whatever handlers overlap   *)
(* and whichever transaction their statements land in.                     *)
THEOREM SlotsCorrect == Spec => []Inv
<1>1. IInv => Inv
  BY DEF IInv, Inv
<1>2. QED
  BY Invariance, <1>1, PTL

(* Handlers that run one by one keep an administrator, create accounts     *)
(* with a slot or not at all, and answer what is so.                       *)
THEOREM AloneCorrect == Spec => []PromisesAlone
<1>1. IInv => PromisesAlone
  BY DEF IInv, Alone, Kept, Admin, PromisesAlone, LastAdminKept, CreateAllOrNothing,
     CreatedIsThere, TypeOK
<1>2. QED
  BY Invariance, <1>1, PTL
=============================================================================
