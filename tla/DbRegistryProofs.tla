--------------------------- MODULE DbRegistryProofs ---------------------------
(***************************************************************************)
(* The handles, the parents and the transactions of the registry, proved   *)
(* for every size of its tables, every number of rows and placeholders.    *)
(***************************************************************************)
EXTENDS DbRegistry, SequenceTheorems, TLAPS

ConnectionSlot == ConnectionEntry \cup {None}
StatementSlot == StatementEntry \cup {None}
ResultSetSlot == ResultSetEntry \cup {None}

\* Vec::push: a new last slot, the others as they were (AddConnection, AddStatement,
\* AddResultSet).
LEMMA Pushed ==
  ASSUME NEW S, NEW table \in Seq(S), NEW e \in S, NEW new, new = Append(table, e)
  PROVE  /\ new \in Seq(S) /\ Len(new) = Len(table) + 1
         /\ DOMAIN new = DOMAIN table \cup {Len(new)}
         /\ Len(new) \notin DOMAIN table
         /\ \A id \in DOMAIN table : new[id] = table[id]
         /\ new[Len(new)] = e
<1>1. /\ new \in Seq(S) /\ Len(new) = Len(table) + 1
      /\ \A id \in 1..Len(table) : new[id] = table[id]
      /\ new[Len(new)] = e
  OBVIOUS
<1>2. /\ DOMAIN table = 1..Len(table) /\ Len(table) \in Nat
      /\ DOMAIN new = 1..Len(new)
  BY <1>1, LenProperties
<1>3. QED
  BY <1>1, <1>2

\* A slot is written in place, the others are as they were.
LEMMA Written ==
  ASSUME NEW S, NEW table \in Seq(S), NEW i \in DOMAIN table, NEW e \in S,
         NEW new, new = [table EXCEPT ![i] = e]
  PROVE  /\ new \in Seq(S) /\ Len(new) = Len(table)
         /\ DOMAIN new = DOMAIN table
         /\ \A id \in DOMAIN table : new[id] = IF id = i THEN e ELSE table[id]
<1>1. DOMAIN table = 1..Len(table)
  BY LenProperties
<1>2. QED
  BY <1>1, ExceptSeq, LenProperties

\* Emptied slots stay in the table (Clear).
LEMMA Cleared ==
  ASSUME NEW S, None \in S, NEW table \in Seq(S), NEW ids, NEW new, new = Clear(table, ids)
  PROVE  /\ new \in Seq(S) /\ Len(new) = Len(table)
         /\ DOMAIN new = DOMAIN table
         /\ \A id \in DOMAIN table : new[id] = IF id \in ids THEN None ELSE table[id]
<1>1. /\ DOMAIN table = 1..Len(table) /\ Len(table) \in Nat
      /\ \A id \in DOMAIN table : table[id] \in S
  BY LenProperties, ElementOfSeq
<1>2. new \in [1..Len(table) -> S]
  BY <1>1 DEF Clear
<1>3. new \in Seq(S)
  BY <1>1, <1>2, SeqDef
<1>4. DOMAIN new = 1..Len(table) /\ DOMAIN new = 1..Len(new) /\ Len(new) \in Nat
  BY <1>2, <1>3, LenProperties
<1>5. Len(new) = Len(table)
  BY <1>1, <1>4
<1>6. QED
  BY <1>1, <1>3, <1>4, <1>5 DEF Clear

\* What is derived from a connection is in its lists, which is where
\* close_connection looks for it.
InItsLists ==
  /\ \A s \in Ids(statements) : /\ Open(connections, statements[s].conn)
                                /\ s \in connections[statements[s].conn].statements
  /\ \A r \in Ids(resultSets) : /\ Open(connections, resultSets[r].conn)
                                /\ r \in connections[resultSets[r].conn].resultSets

\* A connection not yet made is outside a transaction.
IdleUntilOpened ==
  \A c \in ConnectionIds \ DOMAIN connections : ~active[c] /\ ~textual[c]

\* What the registry knows of a slot that is in use (TypeOK).
LEMMA Entries ==
  ASSUME TablesOK
  PROVE  /\ DOMAIN connections = 1..Len(connections) /\ Len(connections) \in Nat
         /\ DOMAIN connections \subseteq ConnectionIds
         /\ DOMAIN statements = 1..Len(statements) /\ Len(statements) \in Nat
         /\ DOMAIN resultSets = 1..Len(resultSets) /\ Len(resultSets) \in Nat
         /\ DOMAIN resultSets \subseteq 1..MaxResultSets
         /\ \A c \in Ids(connections) : connections[c] \in ConnectionEntry
         /\ \A s \in Ids(statements) : statements[s] \in StatementEntry
         /\ \A r \in Ids(resultSets) : resultSets[r] \in ResultSetEntry
<1>1. /\ DOMAIN connections = 1..Len(connections) /\ Len(connections) \in Nat
      /\ \A c \in DOMAIN connections : connections[c] \in ConnectionEntry \cup {None}
  BY LenProperties, ElementOfSeq DEF TablesOK
<1>2. /\ DOMAIN statements = 1..Len(statements) /\ Len(statements) \in Nat
      /\ \A s \in DOMAIN statements : statements[s] \in StatementEntry \cup {None}
  BY LenProperties, ElementOfSeq DEF TablesOK
<1>3. /\ DOMAIN resultSets = 1..Len(resultSets) /\ Len(resultSets) \in Nat
      /\ \A r \in DOMAIN resultSets : resultSets[r] \in ResultSetEntry \cup {None}
  BY LenProperties, ElementOfSeq DEF TablesOK
<1>4. /\ DOMAIN connections \subseteq ConnectionIds
      /\ DOMAIN resultSets \subseteq 1..MaxResultSets
  BY <1>1, <1>3, DbAssumption DEF TablesOK, ConnectionIds
<1>5. QED
  BY <1>1, <1>2, <1>3, <1>4 DEF Ids

\* SQL runs on an open connection only (MayRun).
LEMMA RunsOnOpen ==
  ASSUME NEW c, MayRun(c)
  PROVE  c \in Ids(connections)
BY DEF MayRun, StatementIsClosed, Open, Ids

-----------------------------------------------------------------------------
(* What a step may do to the tables, and what all three of them keep.       *)
\* No closed slot of a table is filled again.
NoneReopened(table, new) ==
  \A id \in DOMAIN table \ Ids(table) : id \notin Ids(new)

Kept == /\ TablesOK' /\ InItsLists'
        /\ NoneReopened(connections, connections')
        /\ NoneReopened(statements, statements')
        /\ NoneReopened(resultSets, resultSets')

\* A new connection has nothing yet (AddConnection).
LEMMA ConnectionAdded ==
  ASSUME TablesOK, InItsLists, AddConnection
  PROVE  /\ Kept
         /\ DOMAIN connections' = DOMAIN connections \cup {Len(connections')}
         /\ Len(connections') \notin DOMAIN connections
         /\ \A c \in DOMAIN connections : connections'[c] = connections[c]
         /\ connections'[Len(connections')].inTransaction = FALSE
<1> DEFINE fresh == [inTransaction |-> FALSE, statements |-> {}, resultSets |-> {}]
<1>1. fresh \in ConnectionEntry
  BY DEF ConnectionEntry
<1>2. /\ connections' \in Seq(ConnectionSlot) /\ Len(connections') = Len(connections) + 1
      /\ DOMAIN connections' = DOMAIN connections \cup {Len(connections')}
      /\ Len(connections') \notin DOMAIN connections
      /\ \A c \in DOMAIN connections : connections'[c] = connections[c]
      /\ connections'[Len(connections')] = fresh
  <2> HIDE DEF fresh
  <2>1. connections' = Append(connections, fresh)
    BY DEF AddConnection, fresh
  <2>2. connections \in Seq(ConnectionSlot) /\ fresh \in ConnectionSlot
    BY <1>1 DEF TablesOK, ConnectionSlot
  <2>3. QED
    BY <2>1, <2>2, Pushed
<1>3. statements' = statements /\ resultSets' = resultSets
  BY DEF AddConnection
<1>4. TablesOK'
  BY <1>2, <1>3, Entries, DbAssumption DEF TablesOK, Ids, AddConnection, ConnectionSlot
<1>5. InItsLists'
  <2>1. \A c : Open(connections, c) => Open(connections', c) /\ connections'[c] = connections[c]
    BY <1>2 DEF Open
  <2>2. QED
    BY <2>1, <1>3 DEF InItsLists, Ids, Open
<1>6. QED
  BY <1>2, <1>3, <1>4, <1>5 DEF Kept, NoneReopened, Ids

\* A connection's entry is changed, and stays an entry (SetFlag, AddStatement,
\* AddResultSet).
LEMMA ConnectionWritten ==
  ASSUME TablesOK, NEW c \in Ids(connections), NEW entry \in ConnectionEntry,
         connections' = [connections EXCEPT ![c] = entry]
  PROVE  /\ connections' \in Seq(ConnectionSlot)
         /\ Len(connections') = Len(connections)
         /\ DOMAIN connections' = DOMAIN connections
         /\ Ids(connections') = Ids(connections)
         /\ \A d : Open(connections', d) <=> Open(connections, d)
         /\ \A d \in DOMAIN connections :
              connections'[d] = IF d = c THEN entry ELSE connections[d]
<1>1. c \in DOMAIN connections /\ connections[c] # None /\ entry # None
  BY DbAssumption DEF Ids
<1>2. /\ connections' \in Seq(ConnectionSlot)
      /\ Len(connections') = Len(connections)
      /\ DOMAIN connections' = DOMAIN connections
      /\ \A d \in DOMAIN connections :
           connections'[d] = IF d = c THEN entry ELSE connections[d]
  <2>1. connections \in Seq(ConnectionSlot) /\ entry \in ConnectionSlot
    BY DEF TablesOK, ConnectionSlot
  <2>2. QED
    BY <1>1, <2>1, Written
<1>3. QED
  BY <1>1, <1>2 DEF Ids, Open

\* in_transaction is set or cleared, nothing else (SetFlag).
LEMMA FlagSet ==
  ASSUME TablesOK, InItsLists, NEW c \in Ids(connections), NEW flag \in BOOLEAN,
         SetFlag(c, flag), UNCHANGED <<statements, resultSets>>
  PROVE  /\ Kept
         /\ DOMAIN connections' = DOMAIN connections
         /\ Ids(connections') = Ids(connections)
         /\ connections'[c].inTransaction = flag
         /\ \A d \in DOMAIN connections \ {c} : connections'[d] = connections[d]
<1> DEFINE entry == [connections[c] EXCEPT !.inTransaction = flag]
<1>1. /\ entry \in ConnectionEntry /\ entry.inTransaction = flag
      /\ entry.statements = connections[c].statements
      /\ entry.resultSets = connections[c].resultSets
  BY Entries DEF ConnectionEntry
<1>2. connections' = [connections EXCEPT ![c] = entry]
  BY DEF SetFlag
<1> HIDE DEF entry
<1>3. /\ connections' \in Seq(ConnectionSlot)
      /\ Len(connections') = Len(connections)
      /\ DOMAIN connections' = DOMAIN connections
      /\ Ids(connections') = Ids(connections)
      /\ \A d : Open(connections', d) <=> Open(connections, d)
      /\ \A d \in DOMAIN connections :
           connections'[d] = IF d = c THEN entry ELSE connections[d]
  BY <1>1, <1>2, ConnectionWritten
<1>4. \A d \in DOMAIN connections : /\ connections'[d].statements = connections[d].statements
                                   /\ connections'[d].resultSets = connections[d].resultSets
  BY <1>1, <1>3
<1>5. TablesOK'
  <2>1. Ids(connections) \subseteq DOMAIN connections
    BY DEF Ids
  <2>2. QED
    BY <1>3, <1>4, <2>1 DEF TablesOK, ConnectionSlot
<1>6. InItsLists'
  BY <1>3, <1>4 DEF InItsLists, Open
<1>7. c \in DOMAIN connections
  BY DEF Ids
<1>8. QED
  BY <1>1, <1>3, <1>5, <1>6, <1>7 DEF Kept, NoneReopened

\* What a closed connection leaves behind: its lists empty every slot derived
\* from it (CloseConnection).
LEMMA ConnectionClosed ==
  ASSUME TablesOK, InItsLists, NEW c \in ConnectionIds, CloseConnection(c)
  PROVE  /\ Kept
         /\ DOMAIN connections' = DOMAIN connections
         /\ Ids(connections') = Ids(connections) \ {c}
         /\ \A d \in DOMAIN connections \ {c} : connections'[d] = connections[d]
<1> DEFINE listed == connections[c].statements
           read == connections[c].resultSets
<1>1. c \in DOMAIN connections /\ connections[c] # None /\ c \in Ids(connections)
  BY DEF CloseConnection, Open, Ids
<1>2. /\ connections' \in Seq(ConnectionSlot)
      /\ Len(connections') = Len(connections)
      /\ DOMAIN connections' = DOMAIN connections
      /\ \A d \in DOMAIN connections :
           connections'[d] = IF d = c THEN None ELSE connections[d]
  <2>1. connections' = [connections EXCEPT ![c] = None]
    BY DEF CloseConnection
  <2>2. connections \in Seq(ConnectionSlot) /\ None \in ConnectionSlot
    BY DEF TablesOK, ConnectionSlot
  <2>3. QED
    BY <1>1, <2>1, <2>2, Written
<1>3. /\ statements' \in Seq(StatementSlot)
      /\ DOMAIN statements' = DOMAIN statements
      /\ \A s \in DOMAIN statements :
           statements'[s] = IF s \in listed THEN None ELSE statements[s]
  <2>1. statements' = Clear(statements, listed)
    BY DEF CloseConnection
  <2>2. statements \in Seq(StatementSlot) /\ None \in StatementSlot
    BY DEF TablesOK, StatementSlot
  <2>3. QED
    BY <2>1, <2>2, Cleared
<1>4. /\ resultSets' \in Seq(ResultSetSlot)
      /\ DOMAIN resultSets' = DOMAIN resultSets
      /\ Len(resultSets') = Len(resultSets)
      /\ \A r \in DOMAIN resultSets :
           resultSets'[r] = IF r \in read THEN None ELSE resultSets[r]
  <2>1. resultSets' = Clear(resultSets, read)
    BY DEF CloseConnection
  <2>2. resultSets \in Seq(ResultSetSlot) /\ None \in ResultSetSlot
    BY DEF TablesOK, ResultSetSlot
  <2>3. QED
    BY <2>1, <2>2, Cleared
<1> HIDE DEF listed, read
<1>5. /\ Ids(connections') = Ids(connections) \ {c}
      /\ Ids(statements') = Ids(statements) \ listed
      /\ Ids(resultSets') = Ids(resultSets) \ read
  BY <1>1, <1>2, <1>3, <1>4 DEF Ids
<1>6. \A d \in Ids(connections') : d \in Ids(connections) /\ connections'[d] = connections[d]
  BY <1>2, <1>5 DEF Ids
<1>7. TablesOK'
  BY <1>2, <1>3, <1>4, <1>6 DEF TablesOK, ConnectionSlot, StatementSlot, ResultSetSlot
<1>8. InItsLists'
  <2>1. ASSUME NEW s \in Ids(statements')
        PROVE  /\ Open(connections', statements'[s].conn)
               /\ s \in connections'[statements'[s].conn].statements
    <3>1. s \in Ids(statements) /\ s \notin listed /\ statements'[s] = statements[s]
      BY <2>1, <1>3, <1>5 DEF Ids
    <3>2. /\ Open(connections, statements[s].conn)
          /\ s \in connections[statements[s].conn].statements
      BY <3>1 DEF InItsLists
    <3>3. statements[s].conn # c
      BY <3>1, <3>2 DEF listed
    <3>4. QED
      BY <3>1, <3>2, <3>3, <1>2 DEF Open
  <2>2. ASSUME NEW r \in Ids(resultSets')
        PROVE  /\ Open(connections', resultSets'[r].conn)
               /\ r \in connections'[resultSets'[r].conn].resultSets
    <3>1. r \in Ids(resultSets) /\ r \notin read /\ resultSets'[r] = resultSets[r]
      BY <2>2, <1>4, <1>5 DEF Ids
    <3>2. /\ Open(connections, resultSets[r].conn)
          /\ r \in connections[resultSets[r].conn].resultSets
      BY <3>1 DEF InItsLists
    <3>3. resultSets[r].conn # c
      BY <3>1, <3>2 DEF read
    <3>4. QED
      BY <3>1, <3>2, <3>3, <1>2 DEF Open
  <2>3. QED
    BY <2>1, <2>2 DEF InItsLists
<1>9. QED
  BY <1>2, <1>5, <1>7, <1>8 DEF Kept, NoneReopened

\* A new statement is entered in the list of its connection (AddStatement).
LEMMA StatementAdded ==
  ASSUME TablesOK, InItsLists, NEW c \in Ids(connections), AddStatement(c)
  PROVE  /\ Kept
         /\ DOMAIN connections' = DOMAIN connections
         /\ Ids(connections') = Ids(connections)
         /\ \A d \in DOMAIN connections :
              connections'[d].inTransaction = connections[d].inTransaction
<1> DEFINE new == [conn |-> c, binds |-> {}]
           id == Len(statements')
           entry == [connections[c] EXCEPT !.statements = @ \cup {id}]
<1>1. new \in StatementEntry /\ new.conn = c /\ c \in ConnectionIds /\ c \in DOMAIN connections
  BY Entries, DbAssumption DEF StatementEntry, Ids
<1>2. /\ statements' \in Seq(StatementSlot) /\ id = Len(statements) + 1
      /\ DOMAIN statements' = DOMAIN statements \cup {id}
      /\ id \notin DOMAIN statements
      /\ \A i \in DOMAIN statements : statements'[i] = statements[i]
      /\ statements'[id] = new
  <2>1. statements' = Append(statements, new)
    BY DEF AddStatement
  <2>2. statements \in Seq(StatementSlot) /\ new \in StatementSlot
    BY <1>1 DEF TablesOK, StatementSlot
  <2> HIDE DEF new
  <2>3. QED
    BY <2>1, <2>2, Pushed
<1>3. resultSets' = resultSets
  BY DEF AddStatement
<1>4. id \in Nat
  BY <1>2, Entries
<1>5. /\ entry \in ConnectionEntry
      /\ entry.inTransaction = connections[c].inTransaction
      /\ entry.statements = connections[c].statements \cup {id}
      /\ entry.resultSets = connections[c].resultSets
  BY <1>4, Entries DEF ConnectionEntry
<1>6. connections' = [connections EXCEPT ![c] = entry]
  BY DEF AddStatement
<1> HIDE DEF new, id, entry
<1>7. /\ connections' \in Seq(ConnectionSlot)
      /\ Len(connections') = Len(connections)
      /\ DOMAIN connections' = DOMAIN connections
      /\ Ids(connections') = Ids(connections)
      /\ \A d : Open(connections', d) <=> Open(connections, d)
      /\ \A d \in DOMAIN connections :
           connections'[d] = IF d = c THEN entry ELSE connections[d]
  BY <1>5, <1>6, ConnectionWritten
<1>8. TablesOK'
  <2>1. Ids(connections) \subseteq DOMAIN connections
    BY DEF Ids
  <2>2. \A d \in Ids(connections) : /\ connections'[d].statements \subseteq DOMAIN statements'
                                    /\ connections'[d].resultSets \subseteq DOMAIN resultSets'
    BY <1>2, <1>3, <1>5, <1>7, <2>1 DEF TablesOK
  <2>3. Len(resultSets') <= MaxResultSets
    BY <1>2, <1>3, Entries, DbAssumption DEF TablesOK, id
  <2>4. QED
    BY <1>2, <1>3, <1>7, <2>2, <2>3 DEF TablesOK, ConnectionSlot, StatementSlot
<1>9. InItsLists'
  <2>1. \A d \in DOMAIN connections : /\ connections[d].statements \subseteq connections'[d].statements
                                      /\ connections[d].resultSets \subseteq connections'[d].resultSets
    BY <1>5, <1>7
  <2>2. ASSUME NEW i \in Ids(statements')
        PROVE  /\ Open(connections', statements'[i].conn)
               /\ i \in connections'[statements'[i].conn].statements
    <3>1. CASE i = id
      BY <3>1, <1>1, <1>2, <1>5, <1>7 DEF Open, Ids
    <3>2. CASE i # id
      <4>1. i \in Ids(statements) /\ statements'[i] = statements[i]
        BY <3>2, <1>2 DEF Ids
      <4>2. QED
        BY <4>1, <2>1, <1>7 DEF InItsLists, Open
    <3>3. QED
      BY <3>1, <3>2
  <2>3. ASSUME NEW i \in Ids(resultSets')
        PROVE  /\ Open(connections', resultSets'[i].conn)
               /\ i \in connections'[resultSets'[i].conn].resultSets
    BY <2>1, <1>3, <1>7 DEF InItsLists, Open
  <2>4. QED
    BY <2>2, <2>3 DEF InItsLists
<1>10. \A d \in DOMAIN connections : connections'[d].inTransaction = connections[d].inTransaction
  BY <1>5, <1>7
<1>11. QED
  BY <1>2, <1>3, <1>7, <1>8, <1>9, <1>10 DEF Kept, NoneReopened, Ids

\* A new result set is entered in the list of its connection (AddResultSet).
LEMMA ResultSetAdded ==
  ASSUME TablesOK, InItsLists, NEW c \in Ids(connections), NEW rows \in 0..MaxRows,
         Len(resultSets) < MaxResultSets, AddResultSet(c, rows), UNCHANGED statements
  PROVE  /\ Kept
         /\ DOMAIN connections' = DOMAIN connections
         /\ Ids(connections') = Ids(connections)
         /\ \A d \in DOMAIN connections :
              connections'[d].inTransaction = connections[d].inTransaction
<1> DEFINE new == [conn |-> c, rows |-> rows, cursor |-> 0]
           id == Len(resultSets')
           entry == [connections[c] EXCEPT !.resultSets = @ \cup {id}]
<1>1. new \in ResultSetEntry /\ new.conn = c /\ c \in ConnectionIds /\ c \in DOMAIN connections
  BY Entries, DbAssumption DEF ResultSetEntry, Ids
<1>2. /\ resultSets' \in Seq(ResultSetSlot) /\ id = Len(resultSets) + 1
      /\ DOMAIN resultSets' = DOMAIN resultSets \cup {id}
      /\ id \notin DOMAIN resultSets
      /\ \A i \in DOMAIN resultSets : resultSets'[i] = resultSets[i]
      /\ resultSets'[id] = new
  <2>1. resultSets' = Append(resultSets, new)
    BY DEF AddResultSet
  <2>2. resultSets \in Seq(ResultSetSlot) /\ new \in ResultSetSlot
    BY <1>1 DEF TablesOK, ResultSetSlot
  <2> HIDE DEF new
  <2>3. QED
    BY <2>1, <2>2, Pushed
<1>3. statements' = statements
  OBVIOUS
<1>4. id \in Nat
  BY <1>2, Entries
<1>5. /\ entry \in ConnectionEntry
      /\ entry.inTransaction = connections[c].inTransaction
      /\ entry.resultSets = connections[c].resultSets \cup {id}
      /\ entry.statements = connections[c].statements
  BY <1>4, Entries DEF ConnectionEntry
<1>6. connections' = [connections EXCEPT ![c] = entry]
  BY DEF AddResultSet
<1> HIDE DEF new, id, entry
<1>7. /\ connections' \in Seq(ConnectionSlot)
      /\ Len(connections') = Len(connections)
      /\ DOMAIN connections' = DOMAIN connections
      /\ Ids(connections') = Ids(connections)
      /\ \A d : Open(connections', d) <=> Open(connections, d)
      /\ \A d \in DOMAIN connections :
           connections'[d] = IF d = c THEN entry ELSE connections[d]
  BY <1>5, <1>6, ConnectionWritten
<1>8. TablesOK'
  <2>1. Ids(connections) \subseteq DOMAIN connections
    BY DEF Ids
  <2>2. \A d \in Ids(connections) : /\ connections'[d].statements \subseteq DOMAIN statements'
                                    /\ connections'[d].resultSets \subseteq DOMAIN resultSets'
    BY <1>2, <1>3, <1>5, <1>7, <2>1 DEF TablesOK
  <2>3. Len(resultSets') <= MaxResultSets
    BY <1>2, <1>3, Entries, DbAssumption DEF TablesOK, id
  <2>4. QED
    BY <1>2, <1>3, <1>7, <2>2, <2>3 DEF TablesOK, ConnectionSlot, ResultSetSlot
<1>9. InItsLists'
  <2>1. \A d \in DOMAIN connections : /\ connections[d].statements \subseteq connections'[d].statements
                                      /\ connections[d].resultSets \subseteq connections'[d].resultSets
    BY <1>5, <1>7
  <2>2. ASSUME NEW i \in Ids(resultSets')
        PROVE  /\ Open(connections', resultSets'[i].conn)
               /\ i \in connections'[resultSets'[i].conn].resultSets
    <3>1. CASE i = id
      BY <3>1, <1>1, <1>2, <1>5, <1>7 DEF Open, Ids
    <3>2. CASE i # id
      <4>1. i \in Ids(resultSets) /\ resultSets'[i] = resultSets[i]
        BY <3>2, <1>2 DEF Ids
      <4>2. QED
        BY <4>1, <2>1, <1>7 DEF InItsLists, Open
    <3>3. QED
      BY <3>1, <3>2
  <2>3. ASSUME NEW i \in Ids(statements')
        PROVE  /\ Open(connections', statements'[i].conn)
               /\ i \in connections'[statements'[i].conn].statements
    BY <2>1, <1>3, <1>7 DEF InItsLists, Open
  <2>4. QED
    BY <2>2, <2>3 DEF InItsLists
<1>10. \A d \in DOMAIN connections : connections'[d].inTransaction = connections[d].inTransaction
  BY <1>5, <1>7
<1>11. QED
  BY <1>2, <1>3, <1>7, <1>8, <1>9, <1>10 DEF Kept, NoneReopened, Ids

\* A statement stays what it is, or its slot is emptied (Rebind, CloseStatement).
LEMMA StatementWritten ==
  ASSUME TablesOK, InItsLists, NEW i \in Ids(statements), UNCHANGED <<connections, resultSets>>,
         \/ \E e \in StatementEntry : e.conn = statements[i].conn /\ statements' = [statements EXCEPT ![i] = e]
         \/ statements' = Clear(statements, {i})
  PROVE  Kept
<1> DEFINE Same == /\ statements' \in Seq(StatementSlot) /\ Len(statements') = Len(statements)
                   /\ DOMAIN statements' = DOMAIN statements
                   /\ \A j \in DOMAIN statements \ {i} : statements'[j] = statements[j]
                   /\ statements'[i] # None => statements'[i].conn = statements[i].conn
<1>1. i \in DOMAIN statements /\ statements \in Seq(StatementSlot)
  BY DEF Ids, TablesOK, StatementSlot
<1>2. Same
  <2>1. CASE statements' = Clear(statements, {i})
    <3>1. None \in StatementSlot
      BY DEF StatementSlot
    <3>2. /\ statements' \in Seq(StatementSlot) /\ Len(statements') = Len(statements)
          /\ DOMAIN statements' = DOMAIN statements
          /\ \A j \in DOMAIN statements :
               statements'[j] = IF j \in {i} THEN None ELSE statements[j]
      BY <1>1, <2>1, <3>1, Cleared
    <3>3. QED
      BY <1>1, <3>2
  <2>2. ASSUME NEW e \in StatementEntry, e.conn = statements[i].conn, statements' = [statements EXCEPT ![i] = e]
        PROVE  Same
    <3>1. e \in StatementSlot
      BY DEF StatementSlot
    <3>2. /\ statements' \in Seq(StatementSlot) /\ Len(statements') = Len(statements)
          /\ DOMAIN statements' = DOMAIN statements
          /\ \A j \in DOMAIN statements : statements'[j] = IF j = i THEN e ELSE statements[j]
      BY <1>1, <2>2, <3>1, Written
    <3>3. QED
      BY <1>1, <2>2, <3>2
  <2>3. QED
    BY <2>1, <2>2
<1>3. Ids(statements') \subseteq Ids(statements)
  BY <1>1, <1>2 DEF Ids
<1>4. TablesOK'
  BY <1>2 DEF TablesOK, StatementSlot
<1>5. \A j \in Ids(statements') : statements'[j].conn = statements[j].conn
  BY <1>2 DEF Ids
<1>6. InItsLists'
  BY <1>3, <1>5 DEF InItsLists
<1>7. QED
  BY <1>3, <1>4, <1>6 DEF Kept, NoneReopened

\* A result set stays what it is, or its slot is emptied (NextRow, CloseResultSet).
LEMMA ResultSetWritten ==
  ASSUME TablesOK, InItsLists, NEW i \in Ids(resultSets), UNCHANGED <<connections, statements>>,
         \/ \E e \in ResultSetEntry : e.conn = resultSets[i].conn /\ resultSets' = [resultSets EXCEPT ![i] = e]
         \/ resultSets' = Clear(resultSets, {i})
  PROVE  Kept
<1> DEFINE Same == /\ resultSets' \in Seq(ResultSetSlot) /\ Len(resultSets') = Len(resultSets)
                   /\ DOMAIN resultSets' = DOMAIN resultSets
                   /\ \A j \in DOMAIN resultSets \ {i} : resultSets'[j] = resultSets[j]
                   /\ resultSets'[i] # None => resultSets'[i].conn = resultSets[i].conn
<1>1. i \in DOMAIN resultSets /\ resultSets \in Seq(ResultSetSlot)
  BY DEF Ids, TablesOK, ResultSetSlot
<1>2. Same
  <2>1. CASE resultSets' = Clear(resultSets, {i})
    <3>1. None \in ResultSetSlot
      BY DEF ResultSetSlot
    <3>2. /\ resultSets' \in Seq(ResultSetSlot) /\ Len(resultSets') = Len(resultSets)
          /\ DOMAIN resultSets' = DOMAIN resultSets
          /\ \A j \in DOMAIN resultSets :
               resultSets'[j] = IF j \in {i} THEN None ELSE resultSets[j]
      BY <1>1, <2>1, <3>1, Cleared
    <3>3. QED
      BY <1>1, <3>2
  <2>2. ASSUME NEW e \in ResultSetEntry, e.conn = resultSets[i].conn, resultSets' = [resultSets EXCEPT ![i] = e]
        PROVE  Same
    <3>1. e \in ResultSetSlot
      BY DEF ResultSetSlot
    <3>2. /\ resultSets' \in Seq(ResultSetSlot) /\ Len(resultSets') = Len(resultSets)
          /\ DOMAIN resultSets' = DOMAIN resultSets
          /\ \A j \in DOMAIN resultSets : resultSets'[j] = IF j = i THEN e ELSE resultSets[j]
      BY <1>1, <2>2, <3>1, Written
    <3>3. QED
      BY <1>1, <2>2, <3>2
  <2>3. QED
    BY <2>1, <2>2
<1>3. Ids(resultSets') \subseteq Ids(resultSets)
  BY <1>1, <1>2 DEF Ids
<1>4. TablesOK'
  BY <1>2 DEF TablesOK, ResultSetSlot
<1>5. \A j \in Ids(resultSets') : resultSets'[j].conn = resultSets[j].conn
  BY <1>2 DEF Ids
<1>6. InItsLists'
  BY <1>3, <1>5 DEF InItsLists
<1>7. QED
  BY <1>3, <1>4, <1>6 DEF Kept, NoneReopened

\* A step that leaves the tables alone keeps all of this.
LEMMA Untouched ==
  ASSUME TablesOK, InItsLists, UNCHANGED tables
  PROVE  Kept
BY DEF TablesOK, InItsLists, Kept, NoneReopened, tables, Ids, Open

\* A query enters a result set for an open connection (NewResultSet).
LEMMA QueryKeeps ==
  ASSUME TablesOK, InItsLists, NEW c \in Ids(connections), NewResultSet(c),
         UNCHANGED statements
  PROVE  /\ Kept
         /\ DOMAIN connections' = DOMAIN connections
         /\ Ids(connections') = Ids(connections)
         /\ \A d \in DOMAIN connections :
              connections'[d].inTransaction = connections[d].inTransaction
<1>1. Len(resultSets) < MaxResultSets
  BY DEF NewResultSet
<1>2. PICK rows \in 0..MaxRows : AddResultSet(c, rows)
  BY DEF NewResultSet
<1>3. QED
  BY <1>1, <1>2, ResultSetAdded

\* next() moves the cursor of an entry, which stays an entry (NextRow).
LEMMA CursorMoves ==
  ASSUME TablesOK, NEW r \in DOMAIN resultSets, NextRow(r)
  PROVE  /\ r \in Ids(resultSets)
         /\ \E e \in ResultSetEntry : /\ e.conn = resultSets[r].conn
                                     /\ resultSets' = [resultSets EXCEPT ![r] = e]
         /\ UNCHANGED <<connections, statements>>
         /\ rowOf \in [1..MaxResultSets -> Nat \cup {None}]
              => rowOf' \in [1..MaxResultSets -> Nat \cup {None}]
<1> DEFINE entry == resultSets[r]
           after == IF entry.cursor >= entry.rows THEN Exhausted(entry)
                    ELSE [entry EXCEPT !.cursor = @ + 1]
<1>1. r \in Ids(resultSets) /\ entry \in ResultSetEntry
  BY Entries DEF NextRow, ResultSetIsClosed, Open, Ids
<1>2. after \in ResultSetEntry /\ after.conn = entry.conn
  BY <1>1 DEF ResultSetEntry, Exhausted
<1>3. resultSets' = [resultSets EXCEPT ![r] = after]
  BY DEF NextRow
<1>4. UNCHANGED <<connections, statements>>
  BY DEF NextRow
<1>5. rowOf' = [rowOf EXCEPT ![r] = IF entry.cursor >= entry.rows THEN None ELSE after.cursor]
  BY DEF NextRow
<1>6. after.cursor \in Nat
  BY <1>2 DEF ResultSetEntry
<1>7. QED
  BY <1>1, <1>2, <1>3, <1>4, <1>5, <1>6, Entries

\* Every step keeps the three tables as they should be: what a connection owns
\* stays in its lists, and a closed slot stays closed.
LEMMA TablesStep == ASSUME TypeOK, InItsLists, Next PROVE Kept
<1> USE DEF TypeOK
<1>1. CASE AddConnection
  BY <1>1, ConnectionAdded
<1>2. ASSUME NEW c \in ConnectionIds, CloseConnection(c) PROVE Kept
  BY <1>2, ConnectionClosed
<1>3. ASSUME NEW c \in ConnectionIds, AddStatement(c) PROVE Kept
  <2>1. c \in Ids(connections)
    BY <1>3 DEF AddStatement, Open, Ids
  <2>2. QED
    BY <1>3, <2>1, StatementAdded
<1>4. ASSUME NEW c \in ConnectionIds, Query(c) PROVE Kept
  <2>1. c \in Ids(connections) /\ NewResultSet(c) /\ UNCHANGED statements
    BY <1>4, RunsOnOpen DEF Query
  <2>2. QED
    BY <2>1, QueryKeeps
<1>5. ASSUME NEW c \in ConnectionIds,
             Execute(c) \/ WriteWaits(c) \/ RunTransactionText(c)
      PROVE  Kept
  <2>1. UNCHANGED tables
    BY <1>5 DEF Execute, WriteWaits, RunTransactionText
  <2>2. QED
    BY <2>1, Untouched
<1>6. ASSUME NEW c \in ConnectionIds, BeginTransaction(c) PROVE Kept
  <2>1. c \in Ids(connections) /\ SetFlag(c, TRUE) /\ UNCHANGED <<statements, resultSets>>
    BY <1>6 DEF BeginTransaction, Open, Ids
  <2>2. QED
    BY <2>1, FlagSet
<1>7. ASSUME NEW c \in ConnectionIds, EndTransaction(c) PROVE Kept
  <2>1. /\ c \in Ids(connections) /\ UNCHANGED <<statements, resultSets>>
        /\ SetFlag(c, FALSE) \/ UNCHANGED connections
    BY <1>7 DEF EndTransaction, DriverEnds, DriverFails, Open, Ids
  <2>2. CASE SetFlag(c, FALSE)
    BY <2>1, <2>2, FlagSet
  <2>3. CASE UNCHANGED connections
    BY <2>1, <2>3, Untouched DEF tables
  <2>4. QED
    BY <2>1, <2>2, <2>3
<1>8. ASSUME NEW s \in DOMAIN statements, Rebind(s) \/ CloseStatement(s) PROVE Kept
  <2>1. s \in Ids(statements) /\ UNCHANGED <<connections, resultSets>>
    BY <1>8 DEF Rebind, CloseStatement, StatementIsClosed, Open, Ids
  <2>2. CASE Rebind(s)
    <3>1. statements[s] \in StatementEntry
      BY <2>1, Entries
    <3>2. PICK binds \in {statements[s].binds \cup {p} : p \in Placeholders} \cup {{}} :
                 statements' = [statements EXCEPT ![s].binds = binds]
      BY <2>2 DEF Rebind
    <3> DEFINE e == [statements[s] EXCEPT !.binds = binds]
    <3>3. e \in StatementEntry /\ e.conn = statements[s].conn
      BY <3>1, <3>2 DEF StatementEntry
    <3>4. statements' = [statements EXCEPT ![s] = e]
      BY <3>2
    <3>5. QED
      BY <2>1, <3>3, <3>4, StatementWritten
  <2>3. CASE CloseStatement(s)
    <3>1. statements' = Clear(statements, {s})
      BY <2>3 DEF CloseStatement
    <3>2. QED
      BY <2>1, <3>1, StatementWritten
  <2>4. QED
    BY <1>8, <2>2, <2>3
<1>9. ASSUME NEW r \in DOMAIN resultSets, NextRow(r) \/ CloseResultSet(r) PROVE Kept
  <2>1. CASE NextRow(r)
    BY <2>1, CursorMoves, ResultSetWritten
  <2>2. CASE CloseResultSet(r)
    <3>1. /\ r \in Ids(resultSets) /\ UNCHANGED <<connections, statements>>
          /\ resultSets' = Clear(resultSets, {r})
      BY <2>2 DEF CloseResultSet, Open, Ids
    <3>2. QED
      BY <3>1, ResultSetWritten
  <2>3. QED
    BY <1>9, <2>1, <2>2
<1>10. CASE LockGranted
  <2>1. waiting \in Ids(connections) /\ UNCHANGED statements
    BY <1>10 DEF LockGranted, DriverOK, Open, Ids
  <2>2. CASE NewResultSet(waiting)
    BY <2>1, <2>2, QueryKeeps
  <2>3. CASE UNCHANGED <<connections, resultSets>>
    BY <2>1, <2>3, Untouched DEF tables
  <2>4. QED
    BY <1>10, <2>2, <2>3 DEF LockGranted
<1>11. CASE BusyTimeout \/ OtherProcess
  <2>1. UNCHANGED tables
    BY <1>11 DEF BusyTimeout, OtherProcess
  <2>2. QED
    BY <2>1, Untouched
<1>12. QED
  BY <1>1, <1>2, <1>3, <1>4, <1>5, <1>6, <1>7, <1>8, <1>9, <1>10, <1>11 DEF Next







-----------------------------------------------------------------------------
(* Transactions: what the registry knows of the driver.                     *)
DriverInv == /\ DriverOK /\ NoOrphanLock
             /\ IdleUntilOpened /\ FlagTellsTheDriver

\* No connection is opened or closed and no flag is changed.
SameFlags == /\ DOMAIN connections' = DOMAIN connections
             /\ Ids(connections') = Ids(connections)
             /\ \A c \in Ids(connections) :
                  connections'[c].inTransaction = connections[c].inTransaction

\* The calls that leave the flags as they are keep what the registry knows of the
\* driver; a call may wait, and a write inside a transaction may take the lock.
LEMMA QuietStep ==
  ASSUME TypeOK, DriverInv, SameFlags, UNCHANGED <<active, textual>>,
         rowOf' \in [1..MaxResultSets -> Nat \cup {None}],
         waiting' \in Ids(connections) \cup {None},
         \/ writer' \in {writer, None, Other}
         \/ \E c \in Ids(connections) : active[c] /\ writer' = c
  PROVE  DriverInv'
<1>1. DOMAIN connections \subseteq ConnectionIds /\ Ids(connections) \subseteq DOMAIN connections
  BY Entries DEF TypeOK, Ids
<1>2. NoOrphanLock'
  <2>1. CASE writer' \in {writer, None, Other}
    BY <2>1, DbAssumption DEF DriverInv, NoOrphanLock, SameFlags, Open, Ids, ConnectionIds
  <2>2. CASE \E c \in Ids(connections) : active[c] /\ writer' = c
    BY <2>2 DEF NoOrphanLock, SameFlags, Open, Ids
  <2>3. QED
    BY <2>1, <2>2
<1>3. DriverOK'
  BY <1>1 DEF DriverInv, DriverOK, SameFlags, Open, Ids
<1>4. IdleUntilOpened' /\ FlagTellsTheDriver'
  BY DEF DriverInv, IdleUntilOpened, FlagTellsTheDriver, SameFlags
<1>5. QED
  BY <1>2, <1>3, <1>4 DEF DriverInv

\* A new connection is outside a transaction (AddConnection).
LEMMA OpeningStep ==
  ASSUME TypeOK, InItsLists, DriverInv, AddConnection
  PROVE  DriverInv'
<1> DEFINE id == Len(connections')
<1>1. /\ UNCHANGED <<active, writer, waiting, rowOf, textual>>
      /\ waiting = None
  BY DEF AddConnection, driver, RegistryIsFree
<1>2. /\ DOMAIN connections' = DOMAIN connections \cup {id}
      /\ id \notin DOMAIN connections
      /\ \A c \in DOMAIN connections : connections'[c] = connections[c]
      /\ connections'[id].inTransaction = FALSE
      /\ TablesOK'
  BY ConnectionAdded DEF TypeOK, Kept
<1>3. DOMAIN connections' \subseteq ConnectionIds
  <2>1. DOMAIN connections' = 1..Len(connections') /\ Len(connections') \in Nat
    BY <1>2, LenProperties DEF TablesOK
  <2>2. Len(connections') <= MaxConnections
    BY <1>2 DEF TablesOK
  <2>3. QED
    BY <2>1, <2>2, DbAssumption DEF ConnectionIds
<1> HIDE DEF id
<1>4. DriverOK'
  BY <1>1 DEF DriverInv, DriverOK
<1>5. NoOrphanLock'
  BY <1>1, <1>2 DEF DriverInv, NoOrphanLock, Open
<1>6. IdleUntilOpened'
  BY <1>1, <1>2 DEF DriverInv, IdleUntilOpened
<1>7. FlagTellsTheDriver'
  <2>1. ~active[id] /\ ~textual[id]
    BY <1>2, <1>3 DEF DriverInv, IdleUntilOpened
  <2>2. ASSUME NEW c \in Ids(connections')
        PROVE  (connections'[c].inTransaction = active'[c]) <=> ~textual'[c]
    <3>1. CASE c = id
      <4>1. active[id] \in BOOLEAN /\ textual[id] \in BOOLEAN
        BY <1>2, <1>3 DEF DriverInv, DriverOK
      <4>2. active'[c] = FALSE /\ textual'[c] = FALSE /\ connections'[c].inTransaction = FALSE
        BY <1>1, <1>2, <2>1, <3>1, <4>1
      <4>3. QED
        BY <4>2
    <3>2. CASE c # id
      <4>1. c \in Ids(connections) /\ connections'[c] = connections[c]
        BY <1>2, <2>2, <3>2 DEF Ids
      <4>2. QED
        BY <4>1, <1>1 DEF DriverInv, FlagTellsTheDriver
    <3>3. QED
      BY <3>1, <3>2
  <2>3. QED
    BY <2>2 DEF FlagTellsTheDriver
<1>8. QED
  BY <1>4, <1>5, <1>6, <1>7 DEF DriverInv

\* Dropping the driver's connection ends its transaction (CloseConnection).
LEMMA ClosingStep ==
  ASSUME TypeOK, InItsLists, DriverInv, NEW c \in ConnectionIds, CloseConnection(c)
  PROVE  DriverInv'
<1>1. /\ UNCHANGED <<waiting, rowOf, textual>> /\ waiting = None
      /\ active' = [active EXCEPT ![c] = FALSE]
      /\ writer' = IF writer = c THEN None ELSE writer
  BY DEF CloseConnection, LeaveTransaction, RegistryIsFree
<1>2. /\ DOMAIN connections' = DOMAIN connections
      /\ Ids(connections') = Ids(connections) \ {c}
      /\ \A d \in DOMAIN connections \ {c} : connections'[d] = connections[d]
      /\ Ids(connections) \subseteq ConnectionIds
  BY ConnectionClosed, Entries DEF TypeOK, Ids
<1>3. active \in [ConnectionIds -> BOOLEAN]
  BY DEF DriverInv, DriverOK
<1>4. DriverOK'
  BY <1>1, <1>3 DEF DriverInv, DriverOK
<1>5. NoOrphanLock'
  BY <1>1, <1>2, <1>3, DbAssumption DEF DriverInv, NoOrphanLock, Open, Ids, ConnectionIds
<1>6. IdleUntilOpened'
  BY <1>1, <1>2, <1>3 DEF DriverInv, IdleUntilOpened
<1>7. FlagTellsTheDriver'
  <2>1. \A d \in Ids(connections') : /\ d \in Ids(connections) /\ active'[d] = active[d]
                                     /\ connections'[d] = connections[d]
    BY <1>1, <1>2, <1>3 DEF Ids
  <2>2. QED
    BY <1>1, <2>1 DEF DriverInv, FlagTellsTheDriver
<1>8. QED
  BY <1>4, <1>5, <1>6, <1>7 DEF DriverInv

\* begin, commit and rollback keep the flag and the driver together; the text of a
\* statement, which does not, is what textual records.
LEMMA TransactionStep ==
  ASSUME TypeOK, InItsLists, DriverInv, NEW c \in ConnectionIds,
         RunTransactionText(c) \/ BeginTransaction(c) \/ EndTransaction(c)
  PROVE  DriverInv'
<1> DEFINE Others == /\ DOMAIN connections' = DOMAIN connections
                     /\ Ids(connections') = Ids(connections)
                     /\ \A d \in DOMAIN connections \ {c} : connections'[d] = connections[d]
           Agree(flag) == (flag = active'[c]) <=> ~textual'[c]
           Effect == /\ active' \in [ConnectionIds -> BOOLEAN]
                     /\ textual' \in [ConnectionIds -> BOOLEAN]
                     /\ \A d \in ConnectionIds \ {c} : /\ active'[d] = active[d]
                                                       /\ textual'[d] = textual[d]
                     /\ writer' \in {writer, None}
                     /\ writer' = c => active'[c]
                     /\ Agree(connections'[c].inTransaction)
<1>1. /\ c \in Ids(connections) /\ c \in DOMAIN connections
      /\ Ids(connections) \subseteq DOMAIN connections
      /\ waiting = None /\ UNCHANGED <<waiting, rowOf>>
  BY RunsOnOpen DEF RunTransactionText, MayRun, BeginTransaction, EndTransaction,
                    RegistryIsFree, Open, Ids
<1>2. /\ active \in [ConnectionIds -> BOOLEAN] /\ textual \in [ConnectionIds -> BOOLEAN]
      /\ writer = c => active[c]
      /\ (connections[c].inTransaction = active[c]) <=> ~textual[c]
  BY <1>1 DEF DriverInv, DriverOK, NoOrphanLock, FlagTellsTheDriver
<1>3. ASSUME NEW flag \in BOOLEAN, SetFlag(c, flag), UNCHANGED <<statements, resultSets>>
      PROVE  Others /\ connections'[c].inTransaction = flag
  BY <1>1, <1>3, FlagSet DEF TypeOK
<1>4. connections[c].inTransaction \in BOOLEAN
  BY <1>1, Entries DEF TypeOK, ConnectionEntry
<1>5. ASSUME RunTransactionText(c) PROVE Others /\ Effect
  <2>1. connections' = connections
    BY <1>5 DEF RunTransactionText, tables
  <2>2. /\ active' = [active EXCEPT ![c] = ~active[c]]
        /\ writer' = IF active[c] /\ writer = c THEN None ELSE writer
        /\ textual' = [textual EXCEPT ![c] = ~textual[c]]
    BY <1>2, <1>5 DEF RunTransactionText, LeaveTransaction
  <2>3. /\ active'[c] = ~active[c] /\ textual'[c] = ~textual[c]
        /\ active' \in [ConnectionIds -> BOOLEAN]
        /\ textual' \in [ConnectionIds -> BOOLEAN]
        /\ \A d \in ConnectionIds \ {c} : active'[d] = active[d] /\ textual'[d] = textual[d]
    BY <2>2, <1>2
  <2>4. Agree(connections'[c].inTransaction)
    BY <2>1, <2>3, <1>2, <1>4
  <2>5. writer' \in {writer, None} /\ (writer' = c => active'[c])
    BY <2>2, <2>3, <1>2, DbAssumption DEF ConnectionIds
  <2>6. QED
    BY <2>1, <2>3, <2>4, <2>5
<1>6. ASSUME BeginTransaction(c) PROVE Others /\ Effect
  <2>1. /\ Others /\ connections'[c].inTransaction = TRUE
    BY <1>3, <1>6 DEF BeginTransaction
  <2>2. /\ UNCHANGED <<writer, textual>> /\ active' = [active EXCEPT ![c] = TRUE]
        /\ ~active[c] /\ ~connections[c].inTransaction
    BY <1>6 DEF BeginTransaction
  <2>3. Effect
    BY <2>1, <2>2, <1>2, <1>4
  <2>4. QED
    BY <2>1, <2>3
<1>7. ASSUME EndTransaction(c) PROVE Others /\ Effect
  <2>1. CASE active[c] /\ DriverEnds(c)
    <3>1. Others /\ connections'[c].inTransaction = FALSE
      BY <1>3, <1>7, <2>1 DEF EndTransaction, DriverEnds
    <3>2. /\ textual' = textual /\ active' = [active EXCEPT ![c] = FALSE]
          /\ writer' = IF writer = c THEN None ELSE writer
          /\ active[c] /\ connections[c].inTransaction
      BY <1>7, <2>1 DEF EndTransaction, DriverEnds, LeaveTransaction
    <3>3. active'[c] = FALSE /\ c # None
      BY <3>2, <1>2, DbAssumption DEF ConnectionIds
    <3>4. Effect
      BY <3>1, <3>2, <3>3, <1>2, <1>4
    <3>5. QED
      BY <3>1, <3>4
  <2>2. CASE DriverFails(c)
    BY <1>2, <1>7, <2>2 DEF EndTransaction, DriverFails
  <2>3. QED
    BY <1>7, <2>1, <2>2 DEF EndTransaction
<1>8. Others /\ Effect
  BY <1>5, <1>6, <1>7
<1> HIDE DEF Agree
<1>9. DriverOK'
  BY <1>1, <1>8 DEF DriverInv, DriverOK
<1>10. NoOrphanLock'
  BY <1>1, <1>8, DbAssumption DEF DriverInv, NoOrphanLock, Open, Ids, ConnectionIds
<1>11. IdleUntilOpened'
  BY <1>1, <1>8 DEF DriverInv, IdleUntilOpened
<1>12. FlagTellsTheDriver'
  <2>1. ASSUME NEW d \in Ids(connections')
        PROVE  (connections'[d].inTransaction = active'[d]) <=> ~textual'[d]
    <3>1. CASE d = c
      BY <3>1, <1>8 DEF Agree
    <3>2. CASE d # c
      <4>1. /\ d \in Ids(connections) /\ d \in ConnectionIds
            /\ connections'[d] = connections[d]
        BY <1>1, <1>8, <2>1, <3>2, Entries DEF TypeOK
      <4>2. QED
        BY <4>1, <3>2, <1>8 DEF DriverInv, FlagTellsTheDriver
    <3>3. QED
      BY <3>1, <3>2
  <2>2. QED
    BY <2>1 DEF FlagTellsTheDriver
<1>13. QED
  BY <1>9, <1>10, <1>11, <1>12 DEF DriverInv

\* Every step keeps what the registry knows of the driver.
LEMMA DriverStep ==
  ASSUME TypeOK, InItsLists, DriverInv, Next
  PROVE  DriverInv'
<1>1. /\ Ids(connections) \subseteq ConnectionIds
      /\ rowOf \in [1..MaxResultSets -> Nat \cup {None}]
      /\ waiting # None => waiting \in Ids(connections)
      /\ writer \in ConnectionIds \cup {None, Other}
  BY Entries DEF TypeOK, DriverOK, Open, Ids
<1>2. CASE AddConnection
  BY <1>2, OpeningStep
<1>3. ASSUME NEW c \in ConnectionIds, CloseConnection(c) PROVE DriverInv'
  BY <1>3, ClosingStep
<1>4. ASSUME NEW c \in ConnectionIds,
             RunTransactionText(c) \/ BeginTransaction(c) \/ EndTransaction(c)
      PROVE  DriverInv'
  BY <1>4, TransactionStep
<1>5. ASSUME NEW c \in ConnectionIds, AddStatement(c) PROVE DriverInv'
  <2>1. c \in Ids(connections) /\ UNCHANGED <<driver, rowOf, textual>>
    BY <1>5 DEF AddStatement, Open, Ids
  <2>2. SameFlags
    BY <1>5, <2>1, StatementAdded DEF TypeOK, SameFlags, Ids
  <2>3. QED
    BY <1>1, <2>1, <2>2, QuietStep DEF driver
<1>6. ASSUME NEW c \in ConnectionIds, Query(c) PROVE DriverInv'
  <2>1. /\ c \in Ids(connections) /\ NewResultSet(c) /\ UNCHANGED statements
        /\ UNCHANGED <<active, waiting, rowOf, textual>>
        /\ writer' = writer \/ (active[c] /\ writer' = c)
    BY <1>6, RunsOnOpen DEF Query, Locks
  <2>2. SameFlags
    BY <2>1, QueryKeeps DEF TypeOK, SameFlags, Ids
  <2>3. QED
    BY <1>1, <2>1, <2>2, QuietStep
<1>7. ASSUME NEW c \in ConnectionIds, Execute(c) \/ WriteWaits(c) PROVE DriverInv'
  <2>1. /\ c \in Ids(connections) /\ UNCHANGED <<connections, active, rowOf, textual>>
        /\ waiting' \in {waiting, c}
        /\ writer' = writer \/ (active[c] /\ writer' = c)
    BY <1>7, RunsOnOpen DEF Execute, WriteWaits, Locks, tables
  <2>2. SameFlags
    BY <2>1 DEF SameFlags, Ids
  <2>3. QED
    BY <1>1, <2>1, <2>2, QuietStep
<1>8. CASE \/ \E s \in DOMAIN statements : Rebind(s) \/ CloseStatement(s)
           \/ \E r \in DOMAIN resultSets : CloseResultSet(r)
           \/ BusyTimeout \/ OtherProcess
  <2>1. /\ UNCHANGED <<connections, active, rowOf, textual>>
        /\ waiting' \in {waiting, None} /\ writer' \in {writer, None, Other}
    BY <1>8 DEF Rebind, CloseStatement, CloseResultSet, BusyTimeout, OtherProcess, driver, tables
  <2>2. SameFlags
    BY <2>1 DEF SameFlags, Ids
  <2>3. QED
    BY <1>1, <2>1, <2>2, QuietStep
<1>9. ASSUME NEW r \in DOMAIN resultSets, NextRow(r) PROVE DriverInv'
  <2>1. UNCHANGED <<connections, driver, textual>>
    BY <1>9 DEF NextRow
  <2>2. rowOf' \in [1..MaxResultSets -> Nat \cup {None}]
    BY <1>1, <1>9, CursorMoves DEF TypeOK
  <2>3. SameFlags
    BY <2>1 DEF SameFlags, Ids
  <2>4. QED
    BY <1>1, <2>1, <2>2, <2>3, QuietStep DEF driver
<1>10. CASE LockGranted
  <2>1. /\ waiting \in Ids(connections) /\ UNCHANGED <<statements, active, rowOf, textual>>
        /\ waiting' = None
        /\ writer' = writer \/ (active[waiting] /\ writer' = waiting)
        /\ NewResultSet(waiting) \/ UNCHANGED connections
    BY <1>1, <1>10 DEF LockGranted, Locks
  <2>2. SameFlags
    <3>1. CASE NewResultSet(waiting)
      BY <2>1, <3>1, QueryKeeps DEF TypeOK, SameFlags, Ids
    <3>2. CASE UNCHANGED connections
      BY <3>2 DEF SameFlags, Ids
    <3>3. QED
      BY <2>1, <3>1, <3>2
  <2>3. QED
    BY <1>1, <2>1, <2>2, QuietStep
<1>11. QED
  BY <1>2, <1>3, <1>4, <1>5, <1>6, <1>7, <1>8, <1>9, <1>10 DEF Next

-----------------------------------------------------------------------------
(* The rows of a result set.                                                *)
\* The Row last handed out is the one the cursor is on; before the first next()
\* and after the last there is none (next, seq).
RowsFollowCursor ==
  /\ \A r \in (1..MaxResultSets) \ DOMAIN resultSets : rowOf[r] = None
  /\ \A r \in Ids(resultSets) :
       rowOf[r] = IF resultSets[r].cursor \in 1..resultSets[r].rows
                  THEN resultSets[r].cursor ELSE None

\* Slots that are emptied or left alone keep it.
LEMMA RowsUntouched ==
  ASSUME RowsFollowCursor, UNCHANGED rowOf, DOMAIN resultSets' = DOMAIN resultSets,
         \A r \in DOMAIN resultSets : resultSets'[r] \in {None, resultSets[r]}
  PROVE  RowsFollowCursor'
BY DEF RowsFollowCursor, Ids

\* A new result set stands before its first row (AddResultSet).
LEMMA RowsAdded ==
  ASSUME TablesOK, RowsFollowCursor, UNCHANGED rowOf, NEW c, NewResultSet(c)
  PROVE  RowsFollowCursor'
<1>1. PICK rows \in 0..MaxRows : AddResultSet(c, rows)
  BY DEF NewResultSet
<1> DEFINE new == [conn |-> c, rows |-> rows, cursor |-> 0]
           id == Len(resultSets')
           S == ResultSetSlot \cup {new}
<1>2. /\ DOMAIN resultSets' = DOMAIN resultSets \cup {id}
      /\ id = Len(resultSets) + 1
      /\ id \notin DOMAIN resultSets
      /\ \A r \in DOMAIN resultSets : resultSets'[r] = resultSets[r]
      /\ resultSets'[id] = new
  <2>1. resultSets' = Append(resultSets, new)
    BY <1>1 DEF AddResultSet
  <2>2. resultSets \in Seq(S) /\ new \in S
    BY SeqMonotonic DEF TablesOK, ResultSetSlot
  <2> HIDE DEF new, S
  <2>3. QED
    BY <2>1, <2>2, Pushed
<1>3. id \in 1..MaxResultSets
  BY <1>2, Entries, DbAssumption DEF NewResultSet
<1>4. new.cursor = 0 /\ rows \in Nat /\ new.rows = rows
  BY DbAssumption
<1> HIDE DEF new, id
<1>5. rowOf[id] = None
  BY <1>2, <1>3 DEF RowsFollowCursor
<1>6. ASSUME NEW r \in Ids(resultSets')
      PROVE  rowOf'[r] = IF resultSets'[r].cursor \in 1..resultSets'[r].rows
                         THEN resultSets'[r].cursor ELSE None
  <2>1. CASE r = id
    BY <2>1, <1>2, <1>4, <1>5
  <2>2. CASE r # id
    <3>1. r \in Ids(resultSets) /\ resultSets'[r] = resultSets[r]
      BY <1>2, <1>6, <2>2 DEF Ids
    <3>2. QED
      BY <3>1 DEF RowsFollowCursor
  <2>3. QED
    BY <2>1, <2>2
<1>7. QED
  BY <1>2, <1>6 DEF RowsFollowCursor

\* next() hands out the row it moves to, or none when the cursor was on the last
\* row or behind it (NextRow).
LEMMA RowsMoved ==
  ASSUME TypeOK, RowsFollowCursor, NEW r \in DOMAIN resultSets, NextRow(r)
  PROVE  RowsFollowCursor'
<1> DEFINE entry == resultSets[r]
           after == IF entry.cursor >= entry.rows THEN Exhausted(entry)
                    ELSE [entry EXCEPT !.cursor = @ + 1]
<1>1. r \in Ids(resultSets) /\ entry \in ResultSetEntry /\ r \in 1..MaxResultSets
  BY Entries DEF TypeOK, NextRow, ResultSetIsClosed, Open, Ids
<1>2. /\ after \in ResultSetEntry /\ after.rows = entry.rows
      /\ after.cursor = IF entry.cursor >= entry.rows THEN entry.rows + 1
                        ELSE entry.cursor + 1
  BY <1>1 DEF ResultSetEntry, Exhausted
<1>3. /\ resultSets' = [resultSets EXCEPT ![r] = after]
      /\ rowOf' = [rowOf EXCEPT ![r] = IF entry.cursor >= entry.rows THEN None
                                       ELSE after.cursor]
  BY DEF NextRow
<1>4. entry.cursor \in Nat /\ entry.rows \in Nat
  BY <1>1 DEF ResultSetEntry
<1> HIDE DEF entry, after
<1>5. /\ DOMAIN resultSets' = DOMAIN resultSets
      /\ \A i \in DOMAIN resultSets : resultSets'[i] = IF i = r THEN after ELSE resultSets[i]
  <2>1. resultSets \in Seq(ResultSetSlot) /\ after \in ResultSetSlot
    BY <1>2 DEF TypeOK, TablesOK, ResultSetSlot
  <2>2. QED
    BY <1>3, <2>1, Written
<1>6. rowOf'[r] = IF after.cursor \in 1..after.rows THEN after.cursor ELSE None
  BY <1>1, <1>2, <1>3, <1>4 DEF TypeOK, DriverOK
<1>7. \A i \in 1..MaxResultSets : i # r => rowOf'[i] = rowOf[i]
  BY <1>3 DEF TypeOK, DriverOK
<1>8. ASSUME NEW i \in Ids(resultSets')
      PROVE  rowOf'[i] = IF resultSets'[i].cursor \in 1..resultSets'[i].rows
                         THEN resultSets'[i].cursor ELSE None
  <2>1. CASE i = r
    BY <2>1, <1>5, <1>6
  <2>2. CASE i # r
    <3>1. /\ i \in Ids(resultSets) /\ resultSets'[i] = resultSets[i]
          /\ i \in 1..MaxResultSets
      BY <1>5, <1>8, <2>2, Entries DEF Ids, TypeOK
    <3>2. QED
      BY <3>1, <2>2, <1>7 DEF RowsFollowCursor
  <2>3. QED
    BY <2>1, <2>2
<1>9. QED
  BY <1>5, <1>7, <1>8 DEF RowsFollowCursor

\* Every step keeps the Row last handed out on the cursor.
LEMMA RowsStep ==
  ASSUME TypeOK, RowsFollowCursor, Next
  PROVE  RowsFollowCursor'
<1>1. ASSUME NEW c \in ConnectionIds, CloseConnection(c) PROVE RowsFollowCursor'
  <2>1. resultSets' = Clear(resultSets, connections[c].resultSets) /\ UNCHANGED rowOf
    BY <1>1 DEF CloseConnection
  <2>2. QED
    BY <2>1, RowsUntouched DEF Clear
<1>2. ASSUME NEW r \in DOMAIN resultSets, CloseResultSet(r) PROVE RowsFollowCursor'
  <2>1. resultSets' = Clear(resultSets, {r}) /\ UNCHANGED rowOf
    BY <1>2 DEF CloseResultSet
  <2>2. QED
    BY <2>1, RowsUntouched DEF Clear
<1>3. ASSUME NEW r \in DOMAIN resultSets, NextRow(r) PROVE RowsFollowCursor'
  BY <1>3, RowsMoved
<1>4. ASSUME NEW c \in ConnectionIds, Query(c) PROVE RowsFollowCursor'
  <2>1. NewResultSet(c) /\ UNCHANGED rowOf
    BY <1>4 DEF Query
  <2>2. QED
    BY <2>1, RowsAdded DEF TypeOK
<1>5. CASE LockGranted
  <2>1. UNCHANGED rowOf /\ (NewResultSet(waiting) \/ UNCHANGED resultSets)
    BY <1>5 DEF LockGranted
  <2>2. CASE NewResultSet(waiting)
    BY <2>1, <2>2, RowsAdded DEF TypeOK
  <2>3. CASE UNCHANGED resultSets
    BY <2>1, <2>3, RowsUntouched
  <2>4. QED
    BY <2>1, <2>2, <2>3
<1>6. CASE \/ AddConnection \/ BusyTimeout \/ OtherProcess
           \/ \E c \in ConnectionIds :
                \/ AddStatement(c) \/ Execute(c) \/ WriteWaits(c) \/ RunTransactionText(c)
                \/ BeginTransaction(c) \/ EndTransaction(c)
           \/ \E s \in DOMAIN statements : Rebind(s) \/ CloseStatement(s)
  <2>1. UNCHANGED <<resultSets, rowOf>>
    BY <1>6 DEF AddConnection, BusyTimeout, OtherProcess, AddStatement, Execute, WriteWaits,
                RunTransactionText, BeginTransaction, EndTransaction, Rebind,
                CloseStatement, tables
  <2>2. QED
    BY <2>1, RowsUntouched
<1>7. QED
  BY <1>1, <1>2, <1>3, <1>4, <1>5, <1>6 DEF Next

-----------------------------------------------------------------------------
\* The inductive invariant of the registry.
RegistryInv == TypeOK /\ InItsLists /\ DriverInv /\ RowsFollowCursor

LEMMA RegistryInvHolds == Spec => []RegistryInv
<1>1. Init => RegistryInv
  <2> SUFFICES ASSUME Init PROVE RegistryInv
    OBVIOUS
  <2> USE DEF Init
  <2>1. /\ DOMAIN connections = {} /\ DOMAIN statements = {} /\ DOMAIN resultSets = {}
        /\ Ids(connections) = {} /\ Ids(statements) = {} /\ Ids(resultSets) = {}
    BY DEF Ids
  <2>2. TablesOK
    BY <2>1, DbAssumption, EmptySeq DEF TablesOK
  <2>3. DriverOK
    BY DEF DriverOK
  <2>4. DriverInv
    <3>1. NoOrphanLock
      BY DbAssumption DEF NoOrphanLock, ConnectionIds
    <3>2. IdleUntilOpened
      BY DEF IdleUntilOpened
    <3>3. FlagTellsTheDriver
      BY <2>1 DEF FlagTellsTheDriver
    <3>4. QED
      BY <2>3, <3>1, <3>2, <3>3 DEF DriverInv
  <2>5. InItsLists /\ RowsFollowCursor
    BY <2>1 DEF InItsLists, RowsFollowCursor
  <2>6. QED
    BY <2>2, <2>3, <2>4, <2>5 DEF RegistryInv, TypeOK
<1>2. RegistryInv /\ [Next]_vars => RegistryInv'
  <2>1. ASSUME RegistryInv, Next PROVE RegistryInv'
    BY <2>1, TablesStep, DriverStep, RowsStep DEF RegistryInv, Kept, DriverInv, TypeOK
  <2>2. ASSUME RegistryInv, UNCHANGED vars PROVE RegistryInv'
    <3>1. Kept
      BY <2>2, Untouched DEF RegistryInv, TypeOK, vars
    <3>2. SameFlags /\ UNCHANGED <<tables, driver, rowOf, textual>>
      BY <2>2 DEF vars, tables, SameFlags, Ids
    <3>3. DriverInv'
      BY <2>2, <3>2, QuietStep DEF RegistryInv, TypeOK, DriverOK, driver, Open, Ids
    <3>4. RowsFollowCursor'
      BY <2>2, <3>2, RowsUntouched DEF RegistryInv, tables
    <3>5. QED
      BY <3>1, <3>3, <3>4 DEF RegistryInv, Kept, DriverInv, TypeOK
  <2>3. QED
    BY <2>1, <2>2
<1>3. QED
  BY <1>1, <1>2, PTL DEF Spec

\* Whatever calls are made, a slot is empty or an entry of its table, and a call
\* that waits in the driver has its connection.
THEOREM RegistryTyped == Spec => []TypeOK
BY RegistryInvHolds, PTL DEF RegistryInv

\* No handle derived from a connection outlives it, closed or not (close_connection).
THEOREM ChildrenClose == Spec => []ChildrenCloseWithParent
<1>1. RegistryInv => ChildrenCloseWithParent
  BY DEF RegistryInv, InItsLists, ChildrenCloseWithParent
<1>2. QED
  BY <1>1, RegistryInvHolds, PTL

\* The database is never locked for a connection the program can no longer commit.
THEOREM LockHasOwner == Spec => []NoOrphanLock
BY RegistryInvHolds, PTL DEF RegistryInv, DriverInv

\* Connection.inTransaction tells what the driver would, unless SQL text or a driver
\* error ended or began the transaction.
THEOREM FlagIsTrue == Spec => []FlagTellsTheDriver
BY RegistryInvHolds, PTL DEF RegistryInv, DriverInv

\* A Row is good for its accessors until the next next(), and no other Row is.
THEOREM RowsExpire == Spec => []OnlyTheLastRow
<1>1. RegistryInv => OnlyTheLastRow
  <2>1. ASSUME RegistryInv, NEW r \in DOMAIN resultSets, ~ResultSetIsClosed(r),
               NEW seq \in 1..resultSets[r].rows
        PROVE  RowIsAccepted(r, seq) <=> rowOf[r] = seq
    <3>1. r \in Ids(resultSets) /\ seq \in Nat
      BY <2>1 DEF ResultSetIsClosed, Open, Ids
    <3>2. QED
      BY <2>1, <3>1, DbAssumption DEF RegistryInv, RowsFollowCursor, RowIsAccepted
  <2>2. QED
    BY <2>1 DEF OnlyTheLastRow
<1>2. QED
  BY <1>1, RegistryInvHolds, PTL

\* A closed handle never comes to name a newer object.
THEOREM ClosedStaysClosed == Spec => ClosedForGood
<1> DEFINE Stays == \A i \in DOMAIN tables : \A id \in DOMAIN tables[i] \ Ids(tables[i]) :
                      id \notin Ids(tables'[i])
<1>1. RegistryInv /\ [Next]_vars => [Stays]_tables
  <2>1. ASSUME RegistryInv, Next PROVE Stays
    <3>1. Kept
      BY <2>1, TablesStep DEF RegistryInv
    <3>2. QED
      BY <3>1 DEF Kept, NoneReopened, tables
  <2>2. UNCHANGED vars => UNCHANGED tables
    BY DEF vars
  <2>3. QED
    BY <2>1, <2>2
<1>2. QED
  BY <1>1, RegistryInvHolds, PTL DEF Spec, ClosedForGood
=============================================================================
