------------------------------ MODULE DbRegistry ------------------------------
(***************************************************************************)
(* system.db (db.rs): Program::db, the one registry behind Connection,     *)
(* PreparedStatement, ResultSet and Row.  Every method runs with the       *)
(* registry locked, so a call is one action, except a write that finds the *)
(* database locked: it waits inside the driver with the registry locked.   *)
(* Every connection belongs to a thread of its own, as stdlib.md asks.     *)
(*                                                                         *)
(* The three tables are Vec<Option<Entry>>: sequences whose closed slots   *)
(* are None.  A handle of the program is an index; it is never given up.   *)
(*                                                                         *)
(* The driver and the database are outside the repository: a connection is *)
(* in a transaction or not, a transaction that has written locks the       *)
(* database (writer) until it ends, and a write that is kept waiting fails *)
(* after the driver's busy timeout with its transaction still open.        *)
(***************************************************************************)
EXTENDS Integers, Sequences

CONSTANTS MaxConnections, MaxStatements, MaxResultSets,  \* bounds of the tables
          MaxRows,       \* bound: rows of a result set
          Placeholders,  \* of every statement
          None,
          Other          \* another process that uses the database

ConnectionIds == 1..MaxConnections
ConnectionEntry == [inTransaction : BOOLEAN, statements : SUBSET Nat, resultSets : SUBSET Nat]
StatementEntry == [conn : ConnectionIds, binds : SUBSET Placeholders]
ResultSetEntry == [conn : ConnectionIds, rows : Nat, cursor : Nat]

ASSUME DbAssumption ==
  /\ {MaxConnections, MaxStatements, MaxResultSets, MaxRows} \subseteq Nat
  /\ None \notin Nat /\ Other \notin Nat /\ Other # None
  /\ None \notin ConnectionEntry \cup StatementEntry \cup ResultSetEntry

VARIABLES connections, statements, resultSets,
          active,    \* driver: is connection c inside a transaction
          writer,    \* driver: who locks the database
          waiting,   \* the connection whose write waits in the driver
          rowOf,     \* history: the Row a result set's last next() returned
          textual    \* history: c's transaction was ended or begun behind its flag

tables == <<connections, statements, resultSets>>
driver == <<active, writer, waiting>>
vars == <<tables, driver, rowOf, textual>>

Open(table, id) == id \in DOMAIN table /\ table[id] # None

Init == /\ connections = <<>> /\ statements = <<>> /\ resultSets = <<>>
        /\ active = [c \in ConnectionIds |-> FALSE]
        /\ writer = None
        /\ waiting = None
        /\ rowOf = [r \in 1..MaxResultSets |-> None]
        /\ textual = [c \in ConnectionIds |-> FALSE]

StatementIsClosed(s) == ~Open(statements, s) \/ ~Open(connections, statements[s].conn)
ResultSetIsClosed(r) == ~Open(resultSets, r) \/ ~Open(connections, resultSets[r].conn)

\* Mutant of RegistryIsFree: the guard is dropped before the driver is called.
NothingIsLocked == TRUE

\* lock(program.db())
RegistryIsFree == waiting = None

-----------------------------------------------------------------------------
AddConnection ==
  /\ RegistryIsFree
  /\ Len(connections) < MaxConnections
  /\ connections' = Append(connections, [inTransaction |-> FALSE,
                                         statements |-> {}, resultSets |-> {}])
  /\ UNCHANGED <<statements, resultSets, driver, rowOf, textual>>

Clear(table, ids) == [id \in DOMAIN table |-> IF id \in ids THEN None ELSE table[id]]

\* The driver's part of ending a transaction, or of dropping the connection.
LeaveTransaction(c) == /\ active' = [active EXCEPT ![c] = FALSE]
                       /\ writer' = IF writer = c THEN None ELSE writer

\* Mutant of CloseConnection: the slot is emptied, the driver is still shared.
CloseKeepsDriver(c) ==
  /\ RegistryIsFree
  /\ Open(connections, c)
  /\ connections' = [connections EXCEPT ![c] = None]
  /\ statements' = Clear(statements, connections[c].statements)
  /\ resultSets' = Clear(resultSets, connections[c].resultSets)
  /\ UNCHANGED <<driver, rowOf, textual>>

CloseConnection(c) ==
  /\ RegistryIsFree
  /\ Open(connections, c)
  /\ connections' = [connections EXCEPT ![c] = None]
  /\ statements' = Clear(statements, connections[c].statements)
  /\ resultSets' = Clear(resultSets, connections[c].resultSets)
  /\ LeaveTransaction(c)
  /\ UNCHANGED <<waiting, rowOf, textual>>

\* prepare(): the driver has compiled the text, and the compiled form is dropped.
AddStatement(c) ==
  /\ RegistryIsFree
  /\ Open(connections, c)
  /\ Len(statements) < MaxStatements
  /\ statements' = Append(statements, [conn |-> c, binds |-> {}])
  /\ connections' = [connections EXCEPT ![c].statements = @ \cup {Len(statements')}]
  /\ UNCHANGED <<resultSets, driver, rowOf, textual>>

\* bindX() and reset(), and close() of a statement.
Rebind(s) ==
  /\ RegistryIsFree
  /\ ~StatementIsClosed(s)
  /\ \E binds \in {statements[s].binds \cup {p} : p \in Placeholders} \cup {{}} :
       statements' = [statements EXCEPT ![s].binds = binds]
  /\ UNCHANGED <<connections, resultSets, driver, rowOf, textual>>

CloseStatement(s) ==
  /\ RegistryIsFree
  /\ Open(statements, s)
  /\ statements' = Clear(statements, {s})
  /\ UNCHANGED <<connections, resultSets, driver, rowOf, textual>>

\* A call that runs SQL on c: the connection's own, or one of its statements
\* with every placeholder bound.
MayRun(c) == /\ RegistryIsFree
             /\ \/ Open(connections, c)
                \/ \E s \in DOMAIN statements : /\ ~StatementIsClosed(s)
                                                /\ statements[s].conn = c
                                                /\ statements[s].binds = Placeholders

\* Mutant of AddResultSet: a result set is not entered in its connection.
AddOrphan(c, rows) ==
  /\ resultSets' = Append(resultSets, [conn |-> c, rows |-> rows, cursor |-> 0])
  /\ UNCHANGED connections

\* Mutant of AddResultSet: the slot of a closed result set is taken again.
ReuseSlot(c, rows) ==
  LET id == CHOOSE i \in 1..Len(resultSets) + 1 : ~Open(resultSets, i)
  IN /\ resultSets' = [i \in DOMAIN resultSets \cup {id} |->
                        IF i = id THEN [conn |-> c, rows |-> rows, cursor |-> 0]
                        ELSE resultSets[i]]
     /\ connections' = [connections EXCEPT ![c].resultSets = @ \cup {id}]

AddResultSet(c, rows) ==
  /\ resultSets' = Append(resultSets, [conn |-> c, rows |-> rows, cursor |-> 0])
  /\ connections' = [connections EXCEPT ![c].resultSets = @ \cup {Len(resultSets')}]

\* The driver's part of running SQL that writes: in a transaction it keeps the
\* lock; if another holds it, the call waits.
Locks(c) == writer' = IF active[c] THEN c ELSE writer

\* query(): all rows are read at once.  execute() gives no result set.
NewResultSet(c) == /\ Len(resultSets) < MaxResultSets
                   /\ \E rows \in 0..MaxRows : AddResultSet(c, rows)

Query(c) == /\ MayRun(c)
            /\ NewResultSet(c)
            /\ \/ UNCHANGED writer
               \/ writer \in {None, c} /\ Locks(c)
            /\ UNCHANGED <<statements, active, waiting, rowOf, textual>>

Execute(c) == /\ MayRun(c)
              /\ writer \in {None, c}
              /\ Locks(c)
              /\ UNCHANGED <<tables, active, waiting, rowOf, textual>>

WriteWaits(c) == /\ MayRun(c)
                 /\ writer \notin {None, c}
                 /\ waiting' = c
                 /\ UNCHANGED <<tables, active, writer, rowOf, textual>>

\* The SQL text itself begins or ends a transaction, or the driver rolls one
\* back on an error: in_transaction is not told.
RunTransactionText(c) ==
  /\ MayRun(c)
  /\ IF active[c] THEN LeaveTransaction(c)
     ELSE active' = [active EXCEPT ![c] = TRUE] /\ UNCHANGED writer
  /\ textual' = [textual EXCEPT ![c] = ~@]
  /\ UNCHANGED <<tables, waiting, rowOf>>

SetFlag(c, flag) == connections' = [connections EXCEPT ![c].inTransaction = flag]

\* The driver refuses a transaction inside a transaction.
BeginTransaction(c) ==
  /\ RegistryIsFree
  /\ Open(connections, c)
  /\ ~connections[c].inTransaction
  /\ ~active[c]
  /\ active' = [active EXCEPT ![c] = TRUE]
  /\ SetFlag(c, TRUE)
  /\ UNCHANGED <<statements, resultSets, writer, waiting, rowOf, textual>>

\* Mutant of DriverFails: the flag is cleared before the driver is asked.
FlagClearedFirst(c) == SetFlag(c, FALSE) /\ UNCHANGED <<active, writer>>

\* commit() and rollback().  The driver refuses without a transaction, and may
\* fail within one (the `?` leaves the flag alone): such a call changes nothing.
DriverEnds(c) == LeaveTransaction(c) /\ SetFlag(c, FALSE)
DriverFails(c) == UNCHANGED <<connections, active, writer>>

EndTransaction(c) ==
  /\ RegistryIsFree
  /\ Open(connections, c)
  /\ connections[c].inTransaction
  /\ \/ active[c] /\ DriverEnds(c)
     \/ DriverFails(c)
  /\ UNCHANGED <<statements, resultSets, waiting, rowOf, textual>>

-----------------------------------------------------------------------------
\* A write that waits gets its lock and the call goes on, or the call fails when
\* the busy timeout is over.
LockGranted == /\ waiting # None
               /\ writer = None
               /\ Locks(waiting)
               /\ \/ UNCHANGED <<connections, resultSets>>
                  \/ NewResultSet(waiting)
               /\ waiting' = None
               /\ UNCHANGED <<statements, active, rowOf, textual>>

BusyTimeout == /\ waiting # None
               /\ waiting' = None
               /\ UNCHANGED <<tables, active, writer, rowOf, textual>>

OtherProcess == /\ \/ writer = None /\ writer' = Other
                   \/ writer = Other /\ writer' = None
                /\ UNCHANGED <<tables, active, waiting, rowOf, textual>>

-----------------------------------------------------------------------------
\* Mutant of Exhausted: the cursor stays on the last row.
ExhaustedOnLastRow(entry) == [entry EXCEPT !.cursor = entry.rows]

Exhausted(entry) == [entry EXCEPT !.cursor = entry.rows + 1]

NextRow(r) ==
  /\ RegistryIsFree
  /\ ~ResultSetIsClosed(r)
  /\ LET entry == resultSets[r]
         after == IF entry.cursor >= entry.rows THEN Exhausted(entry)
                  ELSE [entry EXCEPT !.cursor = @ + 1]
     IN /\ resultSets' = [resultSets EXCEPT ![r] = after]
        /\ rowOf' = [rowOf EXCEPT ![r] = IF entry.cursor >= entry.rows THEN None
                                         ELSE after.cursor]
  /\ UNCHANGED <<connections, statements, driver, textual>>

CloseResultSet(r) ==
  /\ RegistryIsFree
  /\ Open(resultSets, r)
  /\ resultSets' = Clear(resultSets, {r})
  /\ UNCHANGED <<connections, statements, driver, rowOf, textual>>

\* An accessor of Row compares the position it was handed out at.
RowIsAccepted(r, seq) == ~ResultSetIsClosed(r) /\ resultSets[r].cursor = seq

Next == \/ AddConnection
        \/ \E c \in ConnectionIds :
             \/ CloseConnection(c) \/ AddStatement(c)
             \/ Query(c) \/ Execute(c) \/ WriteWaits(c) \/ RunTransactionText(c)
             \/ BeginTransaction(c) \/ EndTransaction(c)
        \/ \E s \in DOMAIN statements : Rebind(s) \/ CloseStatement(s)
        \/ \E r \in DOMAIN resultSets : NextRow(r) \/ CloseResultSet(r)
        \/ LockGranted \/ BusyTimeout \/ OtherProcess

Spec == Init /\ [][Next]_vars

-----------------------------------------------------------------------------
Ids(table) == {id \in DOMAIN table : table[id] # None}

\* Type invariant: a slot is empty or an entry of its table, a connection's lists
\* name slots that exist, and what waits in the driver is an open connection.
TablesOK ==
  /\ connections \in Seq(ConnectionEntry \cup {None})
  /\ statements \in Seq(StatementEntry \cup {None})
  /\ resultSets \in Seq(ResultSetEntry \cup {None})
  /\ Len(connections) <= MaxConnections
  /\ Len(resultSets) <= MaxResultSets
  /\ \A c \in Ids(connections) : /\ connections[c].statements \subseteq DOMAIN statements
                                 /\ connections[c].resultSets \subseteq DOMAIN resultSets
DriverOK ==
  /\ active \in [ConnectionIds -> BOOLEAN]
  /\ textual \in [ConnectionIds -> BOOLEAN]
  /\ rowOf \in [1..MaxResultSets -> Nat \cup {None}]
  /\ writer \in ConnectionIds \cup {None, Other}
  /\ waiting \in ConnectionIds \cup {None}
  /\ waiting # None => Open(connections, waiting)
TypeOK == TablesOK /\ DriverOK

\* Closing a connection empties the slots of everything derived from it, through
\* prepare(), query() of the connection or query() of one of its statements,
\* closed or not (close_connection).
ChildrenCloseWithParent ==
  /\ \A s \in Ids(statements) : Open(connections, statements[s].conn)
  /\ \A r \in Ids(resultSets) : Open(connections, resultSets[r].conn)

\* A closed handle never comes to name a newer object ("Slots are never reused").
ClosedForGood ==
  [][\A i \in DOMAIN tables : \A id \in DOMAIN tables[i] \ Ids(tables[i]) :
       id \notin Ids(tables'[i])]_tables

\* Of all rows handed out by a result set an accessor takes the last one only,
\* and none once next() has returned null.
OnlyTheLastRow ==
  \A r \in DOMAIN resultSets : ~ResultSetIsClosed(r) =>
    \A seq \in 1..resultSets[r].rows : RowIsAccepted(r, seq) <=> rowOf[r] = seq

\* The database is never locked for a connection that is closed or outside a
\* transaction: a lock taken by the program can be given up by the program.
NoOrphanLock == writer \in ConnectionIds => Open(connections, writer) /\ active[writer]

\* in_transaction agrees with the driver, whatever calls failed, as long as no
\* SQL text and no driver error changed the transaction behind it.
FlagTellsTheDriver ==
  \A c \in Ids(connections) :
    (connections[c].inTransaction = active[c]) <=> ~textual[c]
=============================================================================
