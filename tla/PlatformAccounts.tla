-------------------------- MODULE PlatformAccounts --------------------------
(***************************************************************************)
(* Accounts and runtime slots of the platform back end                     *)
(* (services/platform-bff/src/index.ts) on PostgreSQL: administrators      *)
(* create accounts, each with a slot of its own, and enable, disable,      *)
(* promote and demote them, in HTTP handlers that run concurrently.        *)
(*                                                                         *)
(* Every pool.query is two actions: it takes a connection from the pool,   *)
(* and its statement runs there and gives the connection back.  The        *)
(* transaction that POST /users opens belongs to the connection, not to    *)
(* the handler: whichever handler is given the connection next works       *)
(* inside it.  Statements see committed rows and those of their own        *)
(* connection's transaction (READ COMMITTED), wait for row locks, and in a *)
(* failed transaction fail too.                                            *)
(*                                                                         *)
(* An account is known by its e-mail address, and its id by the request    *)
(* that inserted it: an address whose insertion was rolled back may be     *)
(* given to another account.  The session lookup of requireAdmin stands    *)
(* for all that authentication does; audit records, the deletion of        *)
(* sessions and the failure of a statement by which the server breaks a    *)
(* cycle of waiting transactions are left out.                             *)
(***************************************************************************)
EXTENDS Naturals, FiniteSets, Sequences, SequencesExt

CONSTANTS
    User,       \* accounts, by e-mail address
    Founders,   \* the accounts there are at the start, administrators
    MaxSlot,    \* runtime slots are 1..MaxSlot (3 in the migration)
    Req,        \* HTTP requests
    NoReq,      \* made the founders' accounts
    Conn,       \* connections of the pool, at most pg's max of 10
    NoConn,
    ByHand      \* whether an operator releases slots in the database

Slot == 1..MaxSlot
NoSlot == 0

ASSUME FoundersAssumption ==
    /\ MaxSlot \in Nat
    /\ Founders \subseteq User
    /\ IsFiniteSet(Founders) /\ Cardinality(Founders) \in 1..MaxSlot

ASSUME UserAssumption == IsFiniteSet(User)

ASSUME MarkerAssumption == NoReq \notin Req /\ NoConn \notin Conn

VARIABLES
    row,     \* committed: the users row and the user_runtimes row of a user
    tx,      \* per connection: the state of its session, the users rows it
             \* wrote, the runtimes it bound and the slots it locked
    idle,    \* the pool's idle connections, the next one to be given last
    req,     \* requests: what they ask, where they are, their connection
    slot,    \* the slot a POST has picked
    answer,  \* responses
    alone    \* history: no two requests have been in flight together

vars == <<row, tx, idle, req, slot, answer, alone>>

Id == Req \cup {NoReq}
Row == [made : BOOLEAN, id : Id, admin : BOOLEAN, active : BOOLEAN,
        slot : Slot \cup {NoSlot}, released : BOOLEAN]
Absent == [made |-> FALSE, id |-> NoReq, admin |-> FALSE, active |-> FALSE,
           slot |-> NoSlot, released |-> FALSE]
NoTx == [state |-> "none", writes |-> {}, row |-> [u \in User |-> Absent],
         bound |-> [u \in User |-> NoSlot], locks |-> {}]
FailedTx == [NoTx EXCEPT !.state = "failed"]

(* What a PATCH may set: the activity, the role, or both.                  *)
Changes == {change \in SUBSET {"disable", "enable", "demote", "promote"} :
              /\ change # {}
              /\ ~ {"disable", "enable"} \subseteq change
              /\ ~ {"demote", "promote"} \subseteq change}
Pc == {"idle", "auth", "begin", "pick", "lock", "insertUser", "insertRuntime", "commit",
       "rollback", "read", "checkRuntime", "checkBoth", "count", "update", "done"}
NoRequest(u) == [pc |-> "idle", post |-> FALSE, actor |-> u, user |-> u, id |-> NoReq,
                 change |-> {"disable"}, conn |-> NoConn]

TypeOK ==
    /\ row \in [User -> Row]
    /\ tx \in [Conn -> [state : {"none", "open", "failed"}, writes : SUBSET User,
                        row : [User -> Row], bound : [User -> Slot \cup {NoSlot}],
                        locks : SUBSET Slot]]
    /\ idle \in Seq(Conn)
    /\ req \in [Req -> [pc : Pc, post : BOOLEAN, actor : User, user : User, id : Id,
                        change : Changes, conn : Conn \cup {NoConn}]]
    /\ slot \in [Req -> Slot \cup {NoSlot}]
    /\ answer \in [Req -> {"none", "ok", "created", "noSlot", "exists", "refused",
                           "failed"}]
    /\ alone \in BOOLEAN

(* bootstrapAdmin, assignExistingAdmin and earlier requests.               *)
Init ==
    /\ \E s \in [Founders -> 1..Cardinality(Founders)] :
          /\ \A u, v \in Founders : s[u] = s[v] => u = v
          /\ row = [u \in User |-> IF u \in Founders
                                   THEN [made |-> TRUE, id |-> NoReq, admin |-> TRUE,
                                         active |-> TRUE, slot |-> s[u], released |-> FALSE]
                                   ELSE Absent]
    /\ tx = [c \in Conn |-> NoTx]
    /\ idle = <<>>
    /\ req \in [Req -> {NoRequest(CHOOSE u \in Founders : TRUE)}]
    /\ slot = [r \in Req |-> NoSlot]
    /\ answer = [r \in Req |-> "none"]
    /\ alone = TRUE

-----------------------------------------------------------------------------
(* The database, as one connection finds it.                               *)
VisibleUser(c, u) == IF u \in tx[c].writes THEN tx[c].row[u] ELSE row[u]
VisibleSlot(c, u) == IF tx[c].bound[u] # NoSlot THEN tx[c].bound[u] ELSE row[u].slot

Visible(c) ==
    [u \in User |-> [VisibleUser(c, u) EXCEPT !.slot = VisibleSlot(c, u),
                                             !.released = row[u].released]]

(* Another transaction wrote the users row; holds the slot's row, or a     *)
(* runtime that refers to it; bound a runtime to the user.                 *)
Locked(c, u) == \E d \in Conn \ {c} : u \in tx[d].writes
SlotLocked(c, s) ==
    \E d \in Conn \ {c} : s \in tx[d].locks \/ \E u \in User : tx[d].bound[u] = s
BindLocked(c, u) == \E d \in Conn \ {c} : tx[d].bound[u] # NoSlot

(* UNIQUE (slot) of user_runtimes counts released rows too (the variant is *)
(* a table without it).                                                    *)
SlotNeverTaken(c, s) == FALSE
SlotTaken(c, s) == \E u \in User : Visible(c)[u].slot = s

(* A write outside a transaction commits at once.                          *)
Write(c, u, r) ==
    IF tx[c].state = "open"
    THEN /\ tx' = [tx EXCEPT ![c].writes = @ \cup {u}, ![c].row[u] = r]
         /\ UNCHANGED row
    ELSE /\ row' = [row EXCEPT ![u] = [r EXCEPT !.slot = row[u].slot,
                                                !.released = row[u].released]]
         /\ UNCHANGED tx

Bind(c, u, s) ==
    IF tx[c].state = "open"
    THEN tx' = [tx EXCEPT ![c].bound[u] = s] /\ UNCHANGED row
    ELSE row' = [row EXCEPT ![u].slot = s] /\ UNCHANGED tx

-----------------------------------------------------------------------------
InFlight == {r \in Req : req[r].pc \notin {"idle", "done"}}

(* A request of a signed-in user arrives: POST makes the id of its account *)
(* itself, PATCH is given one in its path.                                 *)
Arrive(r) ==
    /\ req[r].pc = "idle"
    /\ \E post \in BOOLEAN, actor \in User, user \in User, id \in Id, change \in Changes :
          /\ row[actor].made
          /\ post => id = r /\ (change = {"promote"} \/ change = {"demote"})
          /\ ~post /\ id # NoReq => req[id].post /\ req[id].user = user
          /\ req' = [req EXCEPT ![r] = [pc |-> "auth", post |-> post, actor |-> actor,
                                        user |-> user, id |-> id, change |-> change,
                                        conn |-> NoConn]]
    /\ alone' = (alone /\ InFlight = {})
    /\ UNCHANGED <<row, tx, idle, slot, answer>>

(* pool.query takes the connection that became idle last, or opens one.    *)
Issue(r) ==
    LET used == ToSet(idle) \cup {req[q].conn : q \in Req}
        fresh == CHOOSE c \in Conn : c \notin used
    IN  /\ r \in InFlight /\ req[r].conn = NoConn
        /\ IF idle # <<>>
           THEN req' = [req EXCEPT ![r].conn = Last(idle)] /\ idle' = Front(idle)
           ELSE /\ Conn \ used # {}
                /\ req' = [req EXCEPT ![r].conn = fresh]
                /\ UNCHANGED idle
        /\ UNCHANGED <<row, tx, slot, answer, alone>>

(* The pool closes a connection that stayed idle for ten seconds, which no *)
(* handler spends between two statements: those in flight all wait for a   *)
(* lock.  The server rolls back what the connection had open.              *)
CloseIdle(c) ==
    /\ \A r \in InFlight : req[r].conn # NoConn
    /\ \E i \in DOMAIN idle : idle[i] = c /\ idle' = RemoveAt(idle, i)
    /\ tx' = [tx EXCEPT ![c] = NoTx]
    /\ UNCHANGED <<row, req, slot, answer, alone>>

At(r, pc) == req[r].pc = pc /\ req[r].conn # NoConn

(* The statement is done: the connection is idle, the handler goes on.     *)
Resume(r, pc) ==
    /\ req' = [req EXCEPT ![r].pc = pc, ![r].conn = NoConn]
    /\ idle' = Append(idle, req[r].conn)
    /\ UNCHANGED <<alone>>

Respond(r, a) == Resume(r, "done") /\ answer' = [answer EXCEPT ![r] = a]
Continue(r, pc) == Resume(r, pc) /\ UNCHANGED answer

(* The statement is refused: its transaction has failed and lost its       *)
(* writes and locks; POST goes to its ROLLBACK and then answers, the       *)
(* others answer at once.                                                  *)
RollsBack(r) == req[r].post /\ req[r].pc # "auth"

Fails(r, a) ==
    LET c == req[r].conn
    IN  /\ tx' = [tx EXCEPT ![c] = IF @.state = "none" THEN @ ELSE FailedTx]
        /\ Resume(r, IF RollsBack(r) THEN "rollback" ELSE "done")
        /\ answer' = [answer EXCEPT ![r] = a]
        /\ UNCHANGED <<row, slot>>

Broken(r) == tx[req[r].conn].state = "failed"

(* Any statement in a failed transaction.                                  *)
FailsInBrokenTx(r) ==
    /\ req[r].conn # NoConn /\ Broken(r)
    /\ req[r].pc \notin {"commit", "rollback"}
    /\ Fails(r, "failed")

-----------------------------------------------------------------------------
(* requireAdmin: the account as it is now, at every request.               *)
IsAdmin(r) ==
    LET a == Visible(req[r].conn)[req[r].actor]
    IN  a.made /\ a.active /\ a.admin

Auth(r) ==
    /\ At(r, "auth") /\ ~Broken(r)
    /\ IF IsAdmin(r)
       THEN Continue(r, IF req[r].post THEN "begin" ELSE "read")
       ELSE Respond(r, "refused")
    /\ UNCHANGED <<row, tx, slot>>

-----------------------------------------------------------------------------
(* POST /users.  BEGIN in an open transaction is only a warning (the       *)
(* variant of its effect is the handler without it).                       *)
NotBegun == "none"
Begun == "open"

Begin(r) ==
    /\ At(r, "begin") /\ ~Broken(r)
    /\ tx' = [tx EXCEPT ![req[r].conn].state = Begun]
    /\ Continue(r, "pick")
    /\ UNCHANGED <<row, slot>>

(* Slots without an unreleased binding, and the first of them.             *)
FreeSlots(c) ==
    {s \in Slot : \A u \in User : Visible(c)[u].slot = s => Visible(c)[u].released}

First(S) == CHOOSE s \in S : \A t \in S : s <= t

(* SELECT ... FOR UPDATE: the lock lasts as long as the transaction.  A    *)
(* statement that waits for the lock keeps the slot it found free before.  *)
LockSlot(c, s) ==
    tx' = [tx EXCEPT ![c].locks = IF tx[c].state = "open" THEN @ \cup {s} ELSE @]

Pick(r) ==
    LET c == req[r].conn
        s == First(FreeSlots(c))
    IN  /\ At(r, "pick") /\ ~Broken(r)
        /\ \/ /\ FreeSlots(c) = {}
              /\ Resume(r, "rollback")
              /\ answer' = [answer EXCEPT ![r] = "noSlot"]
              /\ UNCHANGED <<tx, slot>>
           \/ /\ FreeSlots(c) # {} /\ ~SlotLocked(c, s)
              /\ slot' = [slot EXCEPT ![r] = s]
              /\ LockSlot(c, s)
              /\ Continue(r, "insertUser")
           \/ /\ FreeSlots(c) # {} /\ SlotLocked(c, s)
              /\ slot' = [slot EXCEPT ![r] = s]
              /\ req' = [req EXCEPT ![r].pc = "lock"]
              /\ UNCHANGED <<tx, idle, answer, alone>>
        /\ UNCHANGED row

PickWaited(r) ==
    LET c == req[r].conn
    IN  /\ At(r, "lock") /\ ~SlotLocked(c, slot[r])
        /\ LockSlot(c, slot[r])
        /\ Continue(r, "insertUser")
        /\ UNCHANGED <<row, slot>>

(* The account with the id the request is about, if the statement sees it. *)
Account(r) == Visible(req[r].conn)[req[r].user]
Finds(r) == Account(r).made /\ Account(r).id = req[r].id

(* UNIQUE (email); an insertion in another transaction is awaited.         *)
InsertUser(r) ==
    LET c == req[r].conn
        u == req[r].user
    IN  /\ At(r, "insertUser") /\ ~Broken(r)
        /\ \/ Account(r).made /\ Fails(r, "exists")
           \/ /\ ~Account(r).made /\ ~Locked(c, u)
              /\ Write(c, u, [Absent EXCEPT !.made = TRUE, !.id = r, !.active = TRUE,
                                            !.admin = ("promote" \in req[r].change)])
              /\ Continue(r, "insertRuntime")
              /\ UNCHANGED slot

(* INSERT INTO user_runtimes: the account must be there, without a runtime *)
(* (PRIMARY KEY), and the slot free; locks and rows of others are awaited. *)
InsertRuntime(r) ==
    LET c == req[r].conn
        u == req[r].user
    IN  /\ At(r, "insertRuntime") /\ ~Broken(r)
        /\ ~SlotLocked(c, slot[r]) /\ ~BindLocked(c, u)
        /\ \/ /\ Account(r).slot # NoSlot \/ SlotTaken(c, slot[r])
              /\ Fails(r, "exists")
           \/ /\ Account(r).slot = NoSlot /\ ~SlotTaken(c, slot[r]) /\ ~Finds(r)
              /\ Fails(r, "failed")
           \/ /\ Account(r).slot = NoSlot /\ ~SlotTaken(c, slot[r]) /\ Finds(r)
              /\ Bind(c, u, slot[r])
              /\ Continue(r, "commit")
              /\ UNCHANGED slot

(* COMMIT: of a failed transaction it is a rollback, of none a warning.    *)
Committed(c) == IF tx[c].state = "open" THEN Visible(c) ELSE row

Commit(r) ==
    LET c == req[r].conn
    IN  /\ At(r, "commit")
        /\ row' = Committed(c)
        /\ tx' = [tx EXCEPT ![c] = NoTx]
        /\ Respond(r, "created")
        /\ UNCHANGED slot

Rollback(r) ==
    /\ At(r, "rollback")
    /\ tx' = [tx EXCEPT ![req[r].conn] = NoTx]
    /\ Continue(r, "done")
    /\ UNCHANGED <<row, slot>>

-----------------------------------------------------------------------------
(* PATCH /users/:id.  The checks go by the account as it is first read.    *)
Removes(t, change) == t.admin /\ t.active /\ change \cap {"disable", "demote"} # {}

Read(r) ==
    LET itself == req[r].user = req[r].actor /\ "disable" \in req[r].change
    IN  /\ At(r, "read") /\ ~Broken(r)
        /\ IF ~Finds(r) \/ itself THEN Respond(r, "refused")
           ELSE LET enable == "enable" \in req[r].change
                    removes == Removes(Account(r), req[r].change)
                IN  Continue(r, CASE enable /\ removes -> "checkBoth"
                                  [] enable /\ ~removes -> "checkRuntime"
                                  [] ~enable /\ removes -> "count"
                                  [] OTHER -> "update")
        /\ UNCHANGED <<row, tx, slot>>

(* An account whose slot was released stays disabled.                      *)
MayEnable(t) == t.slot # NoSlot /\ ~t.released

CheckRuntime(r) ==
    /\ At(r, "checkRuntime") \/ At(r, "checkBoth")
    /\ ~Broken(r)
    /\ IF Finds(r) /\ MayEnable(Account(r))
       THEN Continue(r, IF req[r].pc = "checkBoth" THEN "count" ELSE "update")
       ELSE Respond(r, "refused")
    /\ UNCHANGED <<row, tx, slot>>

(* The last active administrator stays.                                    *)
LastAdmin(c) ==
    Cardinality({u \in User : Visible(c)[u].admin /\ Visible(c)[u].active}) <= 1

Count(r) ==
    /\ At(r, "count") /\ ~Broken(r)
    /\ IF LastAdmin(req[r].conn) THEN Respond(r, "refused") ELSE Continue(r, "update")
    /\ UNCHANGED <<row, tx, slot>>

Changed(t, change) ==
    [t EXCEPT !.active = (@ \/ "enable" \in change) /\ "disable" \notin change,
              !.admin = (@ \/ "promote" \in change) /\ "demote" \notin change]

(* An account that is gone meanwhile is not updated, and nobody is told.   *)
Update(r) ==
    LET c == req[r].conn
        u == req[r].user
    IN  /\ At(r, "update") /\ ~Broken(r)
        /\ IF Finds(r)
           THEN ~Locked(c, u) /\ Write(c, u, Changed(Account(r), req[r].change))
           ELSE UNCHANGED <<row, tx>>
        /\ Respond(r, "ok")
        /\ UNCHANGED slot

-----------------------------------------------------------------------------
(* An operator releases the slot of a disabled account in the database.    *)
(* ops/release-runtime.ps1 should do it and refuses every account: it      *)
(* compares the text of a boolean, 'true' or 'false', with 'f'.            *)
ReleaseByHand(s) ==
    /\ ByHand
    /\ \E u \in User :
          /\ row[u].slot = s /\ ~row[u].released /\ ~row[u].active
          /\ row' = [row EXCEPT ![u].released = TRUE]
    /\ InFlight = {}
    /\ UNCHANGED <<tx, idle, req, slot, answer, alone>>

Next ==
    \/ \E r \in Req :
          \/ Arrive(r) \/ Issue(r) \/ FailsInBrokenTx(r) \/ Auth(r)
          \/ Begin(r) \/ Pick(r) \/ PickWaited(r) \/ InsertUser(r) \/ InsertRuntime(r)
          \/ Commit(r) \/ Rollback(r)
          \/ Read(r) \/ CheckRuntime(r) \/ Count(r) \/ Update(r)
    \/ \E c \in Conn : CloseIdle(c)
    \/ \E s \in Slot : ReleaseByHand(s)

Spec == Init /\ [][Next]_vars

-----------------------------------------------------------------------------
(* No two accounts ever have the same runtime, whatever handlers and       *)
(* transactions overlap, and none has one before the account exists.       *)
SlotsExclusive ==
    \A u, v \in User :
      /\ u # v /\ row[u].slot # NoSlot => row[u].slot # row[v].slot
      /\ row[u].slot # NoSlot => row[u].made

(* Runtimes are exclusive, and every variable has its type.                *)
Inv == TypeOK /\ SlotsExclusive

(* "the platform must keep at least one active administrator".             *)
LastAdminKept == \E u \in User : row[u].made /\ row[u].admin /\ row[u].active

(* Creation is all or nothing: once no request is in flight, every account *)
(* has a slot.                                                             *)
CreateAllOrNothing ==
    InFlight = {} => \A u \in User : row[u].made => row[u].slot # NoSlot

(* A response is the truth: a created account is there, with its slot.     *)
CreatedIsThere ==
    \A r \in Req : answer[r] = "created" /\ InFlight = {} =>
                     row[req[r].user].made /\ row[req[r].user].slot # NoSlot

(* A handler keeps these promises as long as no other request runs beside  *)
(* it, whatever earlier requests and the pool left behind.                 *)
PromisesAlone == alone => LastAdminKept /\ CreateAllOrNothing /\ CreatedIsThere
=============================================================================
