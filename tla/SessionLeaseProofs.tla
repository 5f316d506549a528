------------------------- MODULE SessionLeaseProofs -------------------------
(* Proofs about SessionLease, for any accounts, connections and rows. *)
EXTENDS SessionLease, TLAPS

\* What the invariants of SessionLease rest on: the rows that are not there are
\* blank, the others belong to an account; a position comes from a session of the
\* account of its character; a connection has a session of its own, of its account.
RowsBelong ==
    \A s \in SessionIds :
        IF sessions[s].state = "absent" THEN sessions[s] = NoSession
                                        ELSE sessions[s].account \in Accounts

CharactersBelong ==
    \A k \in CharacterIds :
        IF characters[k].state = "absent"
            THEN characters[k] = NoCharacter /\ positions[k] = None
            ELSE characters[k].account \in Accounts

PositionsBelong ==
    \A k \in CharacterIds :
        positions[k] # None =>
            /\ sessions[positions[k]].state # "absent"
            /\ sessions[positions[k]].account = characters[k].account

ConnectionsBelong ==
    \A c \in Connections :
        IF conn[c].at = "gone" THEN conn[c] = NoConnection
        ELSE /\ conn[c].sid \in SessionIds
             /\ conn[c].account \in Accounts
             /\ sessions[conn[c].sid].state # "absent"
             /\ sessions[conn[c].sid].account = conn[c].account
             /\ \A d \in Connections : conn[d].sid = conn[c].sid => d = c

TablesAreSound ==
    /\ NewestLeaseOnly /\ SelectionIsLive /\ LiveCharactersDiffer
    /\ RowsBelong /\ CharactersBelong /\ PositionsBelong

\* The inductive invariant.
LeaseInvariant ==
    TypeOK /\ TablesAreSound /\ ConnectionsBelong /\ MemoryAgreesWithRow

-----------------------------------------------------------------------------
(* Lemmas about the store's statements *)

\* Closing leaves every row as it is but for the state of open rows in rows.
LEMMA ClosingRow ==
    ASSUME TypeOK, NEW rows, NEW s \in SessionIds
    PROVE  /\ Closing(rows)[s].account = sessions[s].account
           /\ Closing(rows)[s].generation = sessions[s].generation
           /\ Closing(rows)[s].selected = sessions[s].selected
           /\ Closing(rows)[s].state =
                IF s \in rows /\ IsOpen(s) THEN "closed" ELSE sessions[s].state
  BY DEF Closing, TypeOK, SessionRow, IsOpen

\* Closing keeps the type of the table.
LEMMA ClosingType ==
    ASSUME TypeOK, NEW rows
    PROVE  Closing(rows) \in [SessionIds -> SessionRow]
  BY DEF Closing, TypeOK, SessionRow, IsOpen

\* The row open_session inserts, and what it does to the others.
LEMMA OpenedRow ==
    ASSUME TypeOK, NEW a \in Accounts, NEW s \in SessionIds, open_session(a, s)
    PROVE  /\ sessions' \in [SessionIds -> SessionRow]
           /\ sessions'[s].state = "open"
           /\ sessions'[s].account = a
           /\ sessions'[s].selected = None
           /\ sessions'[s].generation \in Nat \ {0}
           /\ \A t \in RowsOf(a) :
                sessions[t].generation < sessions'[s].generation
           /\ \A t \in SessionIds \ {s} : sessions'[t] = Closing(RowsOf(a))[t]
  <1>1. PICK g \in {0} \cup {sessions[t].generation : t \in RowsOf(a)} :
          /\ IsTopGeneration(a, g)
          /\ sessions' = [Closing(RowsOf(a)) EXCEPT ![s] =
                 [state |-> "open", account |-> a, generation |-> g + 1,
                  selected |-> None]]
    BY DEF open_session
  <1>2. g \in Nat
    BY DEF TypeOK, SessionRow, RowsOf
  <1>3. \A t \in RowsOf(a) : sessions[t].generation \in Nat
    BY DEF TypeOK, SessionRow, RowsOf
  <1>4. \A t \in RowsOf(a) : sessions[t].generation <= g
    BY <1>1 DEF IsTopGeneration
  <1>5. Closing(RowsOf(a)) \in [SessionIds -> SessionRow]
    BY ClosingType
  <1>6. [state |-> "open", account |-> a, generation |-> g + 1,
         selected |-> None] \in SessionRow
    BY <1>2 DEF SessionRow
  <1> QED
    BY <1>1, <1>2, <1>3, <1>4, <1>5, <1>6

-----------------------------------------------------------------------------
(* Type correctness *)

\* A fresh connection is a connection.
LEMMA NoConnectionType == NoConnection \in Connection
  BY DEF NoConnection, Connection

\* Initially every variable has its type.
LEMMA InitType == Init => TypeOK
  BY DEF Init, TypeOK, SessionRow, CharacterRow, Connection, NoSession,
         NoCharacter, NoConnection

\* Every step of a server keeps the types.
LEMMA NextType == TypeOK /\ [Next]_vars => TypeOK'
  <1> SUFFICES ASSUME TypeOK, [Next]_vars PROVE TypeOK'
    OBVIOUS
  <1> USE DEF TypeOK
  <1>1. ASSUME NEW c \in Connections, NEW a \in Accounts, NEW s \in SessionIds,
               Login(c, a, s)
        PROVE  TypeOK'
    <2>1. sessions' \in [SessionIds -> SessionRow]
      BY <1>1, OpenedRow DEF Login
    <2>2. conn' \in [Connections -> Connection]
      BY <1>1 DEF Login, Connection, NoConnection
    <2> QED
      BY <1>1, <2>1, <2>2 DEF Login
  <1>2. ASSUME NEW c \in Connections, LoginReturns(c) \/ LoginFails(c)
        PROVE  TypeOK'
    <2>1. sessions' \in [SessionIds -> SessionRow]
      BY <1>2, ClosingType DEF LoginReturns, LoginFails, close_session
    <2>2. CASE LoginReturns(c)
      BY <2>2 DEF LoginReturns, Connection
    <2>3. CASE LoginFails(c)
      BY <2>1, <2>3, NoConnectionType DEF LoginFails
    <2> QED
      BY <1>2, <2>2, <2>3
  <1>3. ASSUME NEW c \in Connections, NEW f \in Fingerprints,
               NEW k \in CharacterIds, CreateCharacter(c, f, k)
        PROVE  TypeOK'
    BY <1>3 DEF CreateCharacter, CharacterRow, Connection
  <1>4. ASSUME NEW c \in Connections, NEW n \in Selectors,
               SoftDeleteCharacter(c, n)
        PROVE  TypeOK'
    BY <1>4 DEF SoftDeleteCharacter, CharacterRow, LiveOf
  <1>5. ASSUME NEW c \in Connections, NEW n \in Selectors, Select(c, n)
        PROVE  TypeOK'
    <2>1. PICK k \in LiveOf(sessions[conn[c].sid].account) :
            /\ sessions' = [sessions EXCEPT ![conn[c].sid].selected = k]
            /\ conn' = [conn EXCEPT ![c].at = "bag", ![c].loading = k]
      BY <1>5 DEF Select
    <2>2. k \in CharacterIds
      BY DEF LiveOf
    <2> DEFINE sid == conn[c].sid
               row == [sessions[sid] EXCEPT !.selected = k]
    <2>3. sessions' \in [SessionIds -> SessionRow]
      <3>1. sessions' = [sessions EXCEPT ![sid] = row]
        BY <2>1
      <3>2. CASE sid \in SessionIds
        <4>1. sessions[sid] \in SessionRow
          BY <3>2
        <4>2. row \in SessionRow
          BY <2>2, <4>1 DEF SessionRow
        <4> HIDE DEF row
        <4> QED
          BY <3>1, <4>2
      <3>3. CASE sid \notin SessionIds
        <4> HIDE DEF row, sid
        <4> QED
          BY <3>1, <3>3
      <3> QED
        BY <3>2, <3>3
    <2>4. conn' \in [Connections -> Connection]
      <3>1. conn' = [conn EXCEPT ![c] =
                       [conn[c] EXCEPT !.at = "bag", !.loading = k]]
        BY <2>1
      <3>2. [conn[c] EXCEPT !.at = "bag", !.loading = k] \in Connection
        BY <2>2 DEF Connection
      <3> QED
        BY <3>1, <3>2
    <2> HIDE DEF row, sid
    <2> QED
      BY <1>5, <2>3, <2>4 DEF Select
  <1>6. ASSUME NEW c \in Connections,
               ReadBag(c) \/ EnterWorld(c) \/ RefuseWorld(c)
        PROVE  TypeOK'
    <2>1. conn' \in [Connections -> Connection]
      BY <1>6 DEF ReadBag, EnterWorld, RefuseWorld, Connection
    <2> QED
      BY <1>6, <2>1 DEF ReadBag, EnterWorld, RefuseWorld
  <1>7. ASSUME NEW c \in Connections, Checkpoint(c)
        PROVE  TypeOK'
    BY <1>7 DEF Checkpoint, Connection
  <1>8. ASSUME NEW c \in Connections, ExitSaves(c)
        PROVE  TypeOK'
    BY <1>8 DEF ExitSaves, Connection
  <1>9. ASSUME NEW c \in Connections,
               ExitCloses(c) \/ CloseConnection(c) \/ Disconnect(c)
        PROVE  TypeOK'
    <2>1. sessions' \in [SessionIds -> SessionRow]
      BY <1>9, ClosingType
         DEF ExitCloses, CloseConnection, Disconnect, close_session
    <2>2. CASE ExitCloses(c)
      BY <2>1, <2>2 DEF ExitCloses, Connection
    <2>3. CASE CloseConnection(c)
      BY <2>1, <2>3 DEF CloseConnection, Connection
    <2>4. CASE Disconnect(c)
      BY <2>1, <2>4, NoConnectionType DEF Disconnect
    <2> QED
      BY <1>9, <2>2, <2>3, <2>4
  <1>10. CASE Restart
    BY <1>10, ClosingType DEF Restart, Connection, NoConnection
  <1>11. CASE UNCHANGED vars
    BY <1>11 DEF vars
  <1> QED
    BY <1>1, <1>2, <1>3, <1>4, <1>5, <1>6, <1>7, <1>8, <1>9, <1>10, <1>11
       DEF Next, SelectStage, Leaving

\* The type invariant holds in every reachable state.
THEOREM TypeCorrect == Spec => []TypeOK
  BY InitType, NextType, PTL DEF Spec

-----------------------------------------------------------------------------
(* The tables stay sound under each effect a call can have on them *)

\* The empty tables are sound.
LEMMA InitTables == Init => TablesAreSound
  BY DEF Init, TablesAreSound, NewestLeaseOnly, SelectionIsLive,
         LiveCharactersDiffer, RowsBelong, CharactersBelong, PositionsBelong,
         NoSession, NoCharacter, IsOpen, LiveOf, IsLive

\* Closing sessions, for whatever reason.
LEMMA ClosingIsSound ==
    ASSUME TypeOK, TablesAreSound, NEW rows, sessions' = Closing(rows),
           UNCHANGED <<characters, positions>>
    PROVE  TablesAreSound'
  <1>1. \A s \in SessionIds :
          /\ sessions'[s].account = sessions[s].account
          /\ sessions'[s].generation = sessions[s].generation
          /\ sessions'[s].selected = sessions[s].selected
          /\ IsOpen(s)' => IsOpen(s)
          /\ IsOpen(s) <=> sessions[s].state = "open"
          /\ sessions[s].state # "open" => sessions'[s] = sessions[s]
          /\ sessions[s].state = "open" => sessions'[s].state # "absent"
    BY ClosingRow DEF Closing, IsOpen
  <1>2. NewestLeaseOnly'
    BY <1>1 DEF TablesAreSound, NewestLeaseOnly
  <1>3. SelectionIsLive'
    BY <1>1 DEF TablesAreSound, SelectionIsLive, LiveOf, IsLive
  <1>4. LiveCharactersDiffer' /\ CharactersBelong'
    BY DEF TablesAreSound, LiveCharactersDiffer, CharactersBelong, LiveOf,
           IsLive
  <1>5. RowsBelong'
    BY <1>1 DEF TablesAreSound, RowsBelong, NoSession
  <1>6. PositionsBelong'
    BY <1>1 DEF TablesAreSound, PositionsBelong, TypeOK
  <1> QED
    BY <1>2, <1>3, <1>4, <1>5, <1>6 DEF TablesAreSound

\* Opening a session: the takeover.
LEMMA OpeningIsSound ==
    ASSUME TypeOK, TablesAreSound, NEW a \in Accounts, NEW s \in SessionIds,
           open_session(a, s), UNCHANGED <<characters, positions>>
    PROVE  TablesAreSound'
  <1>1. sessions[s].state = "absent"
    BY DEF open_session
  <1>2. /\ sessions'[s].state = "open"
        /\ sessions'[s].account = a
        /\ sessions'[s].selected = None
        /\ \A t \in RowsOf(a) : sessions[t].generation < sessions'[s].generation
    BY OpenedRow
  <1>3. \A t \in SessionIds \ {s} :
          /\ sessions'[t].account = sessions[t].account
          /\ sessions'[t].generation = sessions[t].generation
          /\ sessions'[t].selected = sessions[t].selected
          /\ IsOpen(t)' <=> IsOpen(t) /\ t \notin RowsOf(a)
          /\ IsOpen(t) <=> sessions[t].state = "open"
          /\ sessions[t].state # "open" => sessions'[t] = sessions[t]
          /\ sessions[t].state = "open" => sessions'[t].state # "absent"
    <2> TAKE t \in SessionIds \ {s}
    <2>1. sessions'[t] = IF t \in RowsOf(a) /\ IsOpen(t)
                           THEN [sessions[t] EXCEPT !.state = "closed"]
                           ELSE sessions[t]
      BY OpenedRow DEF Closing
    <2>2. sessions[t] \in SessionRow
      BY DEF TypeOK
    <2> QED
      BY <2>1, <2>2 DEF IsOpen, SessionRow
  <1>4. s \notin RowsOf(a)
    BY <1>1, NoneIsNoRow DEF RowsOf, TablesAreSound, RowsBelong, NoSession
  <1>5. NewestLeaseOnly'
    <2> SUFFICES ASSUME NEW t \in SessionIds, NEW u \in SessionIds, t # u,
                        IsOpen(t)', sessions'[u].account = sessions'[t].account
                 PROVE  /\ ~IsOpen(u)'
                        /\ sessions'[u].generation < sessions'[t].generation
      BY DEF NewestLeaseOnly
    <2>1. CASE t = s
      BY <2>1, <1>2, <1>3 DEF RowsOf
    <2>2. CASE u = s
      BY <2>2, <1>2, <1>3 DEF RowsOf
    <2>3. CASE t # s /\ u # s
      BY <2>3, <1>3 DEF TablesAreSound, NewestLeaseOnly
    <2> QED
      BY <2>1, <2>2, <2>3
  <1>6. SelectionIsLive'
    BY <1>2, <1>3 DEF TablesAreSound, SelectionIsLive, LiveOf, IsLive
  <1>7. LiveCharactersDiffer' /\ CharactersBelong'
    BY DEF TablesAreSound, LiveCharactersDiffer, CharactersBelong, LiveOf,
           IsLive
  <1>8. RowsBelong'
    BY <1>2, <1>3 DEF TablesAreSound, RowsBelong, NoSession
  <1>9. PositionsBelong'
    <2> SUFFICES ASSUME NEW k \in CharacterIds, positions[k] # None
                 PROVE  /\ sessions'[positions[k]].state # "absent"
                        /\ sessions'[positions[k]].account
                              = characters[k].account
      BY DEF PositionsBelong
    <2>1. positions[k] \in SessionIds /\ sessions[positions[k]].state # "absent"
          /\ sessions[positions[k]].account = characters[k].account
      BY DEF TypeOK, TablesAreSound, PositionsBelong
    <2> QED
      BY <2>1, <1>1, <1>3
  <1> QED
    BY <1>5, <1>6, <1>7, <1>8, <1>9 DEF TablesAreSound

\* A character is created.
LEMMA CreatingIsSound ==
    ASSUME TypeOK, TablesAreSound, ConnectionsBelong, NEW c \in Connections,
           NEW f \in Fingerprints, NEW k \in CharacterIds,
           CreateCharacter(c, f, k)
    PROVE  TablesAreSound'
  <1> DEFINE a == conn[c].account
  <1>1. PICK n \in Selectors :
          /\ IsFreeSelector(a, n)
          /\ characters' = [characters EXCEPT ![k] =
                 [state |-> "live", account |-> a, selector |-> n,
                  fingerprint |-> f]]
    BY DEF CreateCharacter
  <1>2. /\ characters[k].state = "absent"
        /\ \A j \in LiveOf(a) : characters[j].fingerprint # f
        /\ UNCHANGED <<sessions, positions>>
        /\ a \in Accounts
    BY DEF CreateCharacter, ConnectionsBelong
  <1>3. \A j \in CharacterIds \ {k} : characters'[j] = characters[j]
    BY <1>1 DEF TypeOK
  <1>4. /\ characters'[k].state = "live"    /\ characters'[k].account = a
        /\ characters'[k].selector = n      /\ characters'[k].fingerprint = f
    BY <1>1 DEF TypeOK
  <1>5. \A b \in Accounts : LiveOf(b)' = IF b = a THEN LiveOf(b) \cup {k}
                                                  ELSE LiveOf(b)
    BY <1>2, <1>3, <1>4 DEF LiveOf, IsLive
  <1>6. k \notin LiveOf(a) /\ \A j \in LiveOf(a) : characters[j].selector # n
    BY <1>1, <1>2 DEF IsFreeSelector, LiveOf, IsLive
  <1>7. LiveCharactersDiffer'
    <2> SUFFICES ASSUME NEW b \in Accounts, NEW i \in LiveOf(b)',
                        NEW j \in LiveOf(b)', i # j
                 PROVE  /\ characters'[i].selector # characters'[j].selector
                        /\ characters'[i].fingerprint
                              # characters'[j].fingerprint
      BY DEF LiveCharactersDiffer
    <2>1. i \in CharacterIds /\ j \in CharacterIds
      BY DEF LiveOf
    <2>2. CASE i # k /\ j # k
      BY <2>1, <2>2, <1>3, <1>5 DEF TablesAreSound, LiveCharactersDiffer
    <2>3. CASE i = k
      <3>1. b = a /\ j \in LiveOf(a)
        BY <2>3, <1>4, <1>5 DEF LiveOf
      <3> QED
        BY <3>1, <2>1, <2>3, <1>2, <1>3, <1>4, <1>6
    <2>4. CASE j = k
      <3>1. b = a /\ i \in LiveOf(a)
        BY <2>4, <1>4, <1>5 DEF LiveOf
      <3> QED
        BY <3>1, <2>1, <2>4, <1>2, <1>3, <1>4, <1>6
    <2> QED
      BY <2>2, <2>3, <2>4
  <1>8. NewestLeaseOnly' /\ RowsBelong'
    BY <1>2 DEF TablesAreSound, NewestLeaseOnly, RowsBelong, IsOpen
  <1>9. SelectionIsLive'
    BY <1>2, <1>3, <1>4 DEF TablesAreSound, SelectionIsLive, LiveOf, IsLive,
                            IsOpen
  <1>10. CharactersBelong'
    BY <1>2, <1>3, <1>4 DEF TablesAreSound, CharactersBelong
  <1>11. PositionsBelong'
    BY <1>2, <1>3, <1>4 DEF TablesAreSound, PositionsBelong, CharactersBelong
  <1> QED
    BY <1>7, <1>8, <1>9, <1>10, <1>11 DEF TablesAreSound

\* A character is deleted: no open session has it selected.
LEMMA DeletingIsSound ==
    ASSUME TypeOK, TablesAreSound, NEW c \in Connections, NEW n \in Selectors,
           SoftDeleteCharacter(c, n)
    PROVE  TablesAreSound'
  <1>1. PICK k \in LiveOf(sessions[conn[c].sid].account) :
          /\ ~SelectedByOpenSession(k)
          /\ characters' = [characters EXCEPT ![k].state = "deleted"]
    BY DEF SoftDeleteCharacter
  <1>2. UNCHANGED <<sessions, positions>>
    BY DEF SoftDeleteCharacter
  <1>3. k \in CharacterIds /\ characters[k].state = "live"
    BY DEF LiveOf, IsLive
  <1>4. \A j \in CharacterIds :
          /\ characters'[j].account = characters[j].account
          /\ characters'[j].selector = characters[j].selector
          /\ characters'[j].fingerprint = characters[j].fingerprint
          /\ characters'[j].state = IF j = k THEN "deleted"
                                             ELSE characters[j].state
          /\ j # k => characters'[j] = characters[j]
    BY <1>1, <1>3 DEF TypeOK, CharacterRow
  <1>5. \A b : LiveOf(b)' = LiveOf(b) \ {k}
    <2> TAKE b
    <2>1. \A j \in CharacterIds :
            /\ characters'[j].state = "live" <=> IsLive(j) /\ j # k
            /\ characters'[j].account = characters[j].account
      BY <1>3, <1>4 DEF IsLive
    <2>2. LiveOf(b)' = {j \in CharacterIds :
              characters'[j].state = "live" /\ characters'[j].account = b}
      BY DEF LiveOf, IsLive
    <2>3. LiveOf(b) = {j \in CharacterIds : IsLive(j)
                                               /\ characters[j].account = b}
      BY DEF LiveOf
    <2> QED
      BY <2>1, <2>2, <2>3
  <1>6. LiveCharactersDiffer'
    <2> SUFFICES ASSUME NEW b \in Accounts, NEW i \in LiveOf(b)',
                        NEW j \in LiveOf(b)', i # j
                 PROVE  /\ characters'[i].selector # characters'[j].selector
                        /\ characters'[i].fingerprint
                              # characters'[j].fingerprint
      BY DEF LiveCharactersDiffer
    <2>1. i \in LiveOf(b) /\ j \in LiveOf(b)
      BY <1>5
    <2>2. i \in CharacterIds /\ j \in CharacterIds
      BY <2>1 DEF LiveOf
    <2> QED
      BY <2>1, <2>2, <1>4 DEF TablesAreSound, LiveCharactersDiffer
  <1>7. SelectionIsLive'
    BY <1>1, <1>2, <1>5 DEF TablesAreSound, SelectionIsLive,
                            SelectedByOpenSession, IsOpen
  <1>8. NewestLeaseOnly' /\ RowsBelong'
    BY <1>2 DEF TablesAreSound, NewestLeaseOnly, RowsBelong, IsOpen
  <1>9. CharactersBelong' /\ PositionsBelong'
    BY <1>2, <1>3, <1>4 DEF TablesAreSound, CharactersBelong, PositionsBelong
  <1> QED
    BY <1>6, <1>7, <1>8, <1>9 DEF TablesAreSound

\* A character is selected.
LEMMA SelectingIsSound ==
    ASSUME TypeOK, TablesAreSound, NEW c \in Connections, NEW n \in Selectors,
           Select(c, n)
    PROVE  TablesAreSound'
  <1> DEFINE sid == conn[c].sid
  <1>1. PICK k \in LiveOf(sessions[sid].account) :
          sessions' = [sessions EXCEPT ![sid].selected = k]
    BY DEF Select
  <1>2. IsOpen(sid) /\ UNCHANGED <<characters, positions>>
    BY DEF Select
  <1>3. \A s \in SessionIds :
          /\ sessions'[s].account = sessions[s].account
          /\ sessions'[s].generation = sessions[s].generation
          /\ sessions'[s].state = sessions[s].state
          /\ sessions'[s].selected = IF s = sid THEN k
                                                ELSE sessions[s].selected
          /\ s # sid => sessions'[s] = sessions[s]
    BY <1>1 DEF TypeOK, SessionRow
  <1>4. NewestLeaseOnly'
    BY <1>3 DEF TablesAreSound, NewestLeaseOnly, IsOpen
  <1>5. SelectionIsLive'
    BY <1>1, <1>2, <1>3 DEF TablesAreSound, SelectionIsLive, LiveOf, IsLive,
                            IsOpen
  <1>6. LiveCharactersDiffer' /\ CharactersBelong'
    BY <1>2 DEF TablesAreSound, LiveCharactersDiffer, CharactersBelong, LiveOf,
                IsLive
  <1>7. RowsBelong'
    BY <1>2, <1>3 DEF TablesAreSound, RowsBelong, IsOpen
  <1>8. PositionsBelong'
    BY <1>2, <1>3 DEF TablesAreSound, PositionsBelong, TypeOK
  <1> QED
    BY <1>4, <1>5, <1>6, <1>7, <1>8 DEF TablesAreSound

\* A position is saved under a held lease.
LEMMA SavingIsSound ==
    ASSUME TypeOK, TablesAreSound, NEW c \in Connections,
           NEW k \in CharacterIds, NEW s \in SessionIds, HoldsLease(s, k),
           positions' = [positions EXCEPT ![k] = s],
           UNCHANGED <<sessions, characters>>
    PROVE  TablesAreSound'
  <1>1. k \in LiveOf(sessions[s].account) /\ IsOpen(s)
    BY NoneIsNoRow DEF HoldsLease, TablesAreSound, SelectionIsLive
  <1>2. /\ positions'[k] = s
        /\ \A j \in CharacterIds \ {k} : positions'[j] = positions[j]
    BY DEF TypeOK
  <1>3. PositionsBelong' /\ CharactersBelong'
    BY <1>1, <1>2 DEF TablesAreSound, PositionsBelong, CharactersBelong,
                      LiveOf, IsLive, IsOpen
  <1> QED
    BY <1>3 DEF TablesAreSound, NewestLeaseOnly, SelectionIsLive,
                LiveCharactersDiffer, RowsBelong, IsOpen, LiveOf, IsLive

\* What a connection does to the tables is one of the effects above.
LEMMA NextTables == LeaseInvariant /\ [Next]_vars => TablesAreSound'
  <1> SUFFICES ASSUME LeaseInvariant, [Next]_vars PROVE TablesAreSound'
    OBVIOUS
  <1>1. TypeOK /\ TablesAreSound /\ ConnectionsBelong
    BY DEF LeaseInvariant
  <1>2. ASSUME UNCHANGED <<sessions, characters, positions>>
        PROVE  TablesAreSound'
    BY <1>1, <1>2 DEF TablesAreSound, NewestLeaseOnly, SelectionIsLive,
       LiveCharactersDiffer, RowsBelong, CharactersBelong, PositionsBelong,
       IsOpen, LiveOf, IsLive
  <1>3. ASSUME NEW c \in Connections, NEW a \in Accounts, NEW s \in SessionIds,
               Login(c, a, s)
        PROVE  TablesAreSound'
    BY <1>1, <1>3, OpeningIsSound DEF Login
  <1>4. ASSUME NEW c \in Connections,
               \/ LoginFails(c) \/ ExitCloses(c) \/ CloseConnection(c)
               \/ Disconnect(c)
        PROVE  TablesAreSound'
    <2>1. UNCHANGED <<characters, positions>>
      BY <1>4 DEF LoginFails, ExitCloses, CloseConnection, Disconnect
    <2>2. UNCHANGED sessions \/ sessions' = Closing({conn[c].sid})
      BY <1>4 DEF LoginFails, ExitCloses, CloseConnection, Disconnect,
                  close_session
    <2> QED
      BY <1>1, <1>2, <2>1, <2>2, ClosingIsSound
  <1>5. ASSUME NEW c \in Connections,
               \/ LoginReturns(c) \/ ReadBag(c) \/ EnterWorld(c)
               \/ RefuseWorld(c)
        PROVE  TablesAreSound'
    BY <1>2, <1>5 DEF LoginReturns, ReadBag, EnterWorld, RefuseWorld
  <1>6. ASSUME NEW c \in Connections, NEW f \in Fingerprints,
               NEW k \in CharacterIds, CreateCharacter(c, f, k)
        PROVE  TablesAreSound'
    BY <1>1, <1>6, CreatingIsSound
  <1>7. ASSUME NEW c \in Connections, NEW n \in Selectors,
               SoftDeleteCharacter(c, n)
        PROVE  TablesAreSound'
    BY <1>1, <1>7, DeletingIsSound
  <1>8. ASSUME NEW c \in Connections, NEW n \in Selectors, Select(c, n)
        PROVE  TablesAreSound'
    BY <1>1, <1>8, SelectingIsSound
  <1>9. ASSUME NEW c \in Connections, Checkpoint(c) \/ ExitSaves(c)
        PROVE  TablesAreSound'
    <2> DEFINE k == conn[c].selected
    <2>1. /\ k \in CharacterIds
          /\ HoldsLease(conn[c].sid, k)
          /\ UNCHANGED <<sessions, characters>>
          /\ \/ positions' = [positions EXCEPT ![k] = conn[c].sid]
             \/ UNCHANGED positions
      BY <1>1, <1>9 DEF Checkpoint, ExitSaves, TypeOK, Connection
    <2>2. conn[c].sid \in SessionIds
      BY <1>1, <1>9 DEF Checkpoint, ExitSaves, ConnectionsBelong
    <2> QED
      BY <1>1, <1>2, <2>1, <2>2, SavingIsSound
  <1>10. CASE Restart
    BY <1>1, <1>10, ClosingIsSound DEF Restart
  <1>11. CASE UNCHANGED vars
    BY <1>2, <1>11 DEF vars
  <1> QED
    BY <1>3, <1>4, <1>5, <1>6, <1>7, <1>8, <1>9, <1>10, <1>11
       DEF Next, SelectStage, Leaving

-----------------------------------------------------------------------------
(* The connections *)

\* Initially no connection refers to a row, and memory agrees with the rows.
LEMMA InitConnections == Init => ConnectionsBelong /\ MemoryAgreesWithRow
  BY DEF Init, ConnectionsBelong, MemoryAgreesWithRow, NoConnection

\* A step of one connection that keeps its session, its account and its
\* character, and opens no row and takes none away.
LEMMA SameConnections ==
    ASSUME TypeOK, ConnectionsBelong, MemoryAgreesWithRow,
           conn' \in [Connections -> Connection],
           \A c \in Connections :
             \/ conn'[c] = NoConnection
             \/ /\ conn[c].at # "gone" /\ conn'[c].at # "gone"
                /\ conn'[c].account = conn[c].account
                /\ conn'[c].sid = conn[c].sid
                /\ \/ ~conn'[c].started
                   \/ /\ conn'[c].started = conn[c].started
                      /\ conn'[c].selected = conn[c].selected,
           \A s \in SessionIds :
             /\ sessions'[s].account = sessions[s].account
             /\ sessions'[s].selected = sessions[s].selected
             /\ sessions[s].state # "absent" => sessions'[s].state # "absent"
             /\ IsOpen(s)' => IsOpen(s)
    PROVE  ConnectionsBelong' /\ MemoryAgreesWithRow'
  <1>1. ConnectionsBelong'
    BY NoneIsNoRow DEF ConnectionsBelong, NoConnection, TypeOK
  <1>2. MemoryAgreesWithRow'
    BY DEF ConnectionsBelong, MemoryAgreesWithRow, NoConnection, TypeOK
  <1> QED
    BY <1>1, <1>2

\* A step of connection c, after which it has the session sid as its own.
LEMMA OneConnection ==
    ASSUME ConnectionsBelong, NEW c \in Connections, NEW sid \in SessionIds,
           conn'[c].at # "gone", conn'[c].account \in Accounts,
           conn'[c].sid = sid, sessions'[sid].state # "absent",
           sessions'[sid].account = conn'[c].account,
           \A d \in Connections \ {c} :
             conn'[d] = conn[d] /\ conn[d].sid # sid,
           \A s \in SessionIds \ {sid} :
             /\ sessions'[s].account = sessions[s].account
             /\ sessions[s].state # "absent" => sessions'[s].state # "absent"
    PROVE  ConnectionsBelong'
  <1> SUFFICES ASSUME NEW e \in Connections
               PROVE  IF conn'[e].at = "gone" THEN conn'[e] = NoConnection
                      ELSE /\ conn'[e].sid \in SessionIds
                           /\ conn'[e].account \in Accounts
                           /\ sessions'[conn'[e].sid].state # "absent"
                           /\ sessions'[conn'[e].sid].account
                                 = conn'[e].account
                           /\ \A d \in Connections :
                                conn'[d].sid = conn'[e].sid => d = e
    BY DEF ConnectionsBelong, NoConnection
  <1>1. CASE e = c
    BY <1>1
  <1>2. CASE e # c
    <2>1. conn'[e] = conn[e] /\ conn[e].sid # sid
      BY <1>2
    <2>2. IF conn[e].at = "gone" THEN conn[e] = NoConnection
          ELSE /\ conn[e].sid \in SessionIds
               /\ conn[e].account \in Accounts
               /\ sessions[conn[e].sid].state # "absent"
               /\ sessions[conn[e].sid].account = conn[e].account
               /\ \A d \in Connections : conn[d].sid = conn[e].sid => d = e
      BY DEF ConnectionsBelong
    <2> QED
      BY <2>1, <2>2
  <1> QED
    BY <1>1, <1>2

\* What SameConnections wants of the rows: true of an unchanged table and of one
\* in which sessions were closed.
LEMMA RowsStay ==
    ASSUME TypeOK, NEW rows,
           UNCHANGED sessions \/ sessions' = Closing(rows)
    PROVE  \A s \in SessionIds :
             /\ sessions'[s].account = sessions[s].account
             /\ sessions'[s].selected = sessions[s].selected
             /\ sessions[s].state # "absent" => sessions'[s].state # "absent"
             /\ IsOpen(s)' => IsOpen(s)
  BY ClosingRow DEF IsOpen

\* Every step leaves the connections referring to rows of their own account,
\* with a selection in memory that agrees with the row.
LEMMA NextConnections ==
    LeaseInvariant /\ [Next]_vars => ConnectionsBelong' /\ MemoryAgreesWithRow'
  <1> SUFFICES ASSUME LeaseInvariant, [Next]_vars
               PROVE  ConnectionsBelong' /\ MemoryAgreesWithRow'
    OBVIOUS
  <1>1. /\ TypeOK /\ TypeOK' /\ TablesAreSound
        /\ ConnectionsBelong /\ MemoryAgreesWithRow
    BY NextType DEF LeaseInvariant
  <1>2. conn \in [Connections -> Connection]
        /\ conn' \in [Connections -> Connection]
    BY <1>1 DEF TypeOK
  <1>3. \A d \in Connections : conn[d].at = "gone" => conn[d] = NoConnection
    BY <1>1 DEF ConnectionsBelong
  <1>4. ASSUME NEW c \in Connections, NEW a \in Accounts, NEW s \in SessionIds,
               Login(c, a, s)
        PROVE  ConnectionsBelong' /\ MemoryAgreesWithRow'
    <2>1. /\ conn'[c].at = "listing" /\ conn'[c].account = a
          /\ conn'[c].sid = s /\ ~conn'[c].started
          /\ \A d \in Connections \ {c} : conn'[d] = conn[d]
      BY <1>2, <1>4 DEF Login, NoConnection
    <2>2. /\ sessions[s].state = "absent" /\ sessions'[s].state = "open"
          /\ sessions'[s].account = a
      BY <1>1, <1>4, OpenedRow DEF Login, open_session
    <2>3. \A t \in SessionIds \ {s} :
            /\ sessions'[t].account = sessions[t].account
            /\ sessions'[t].selected = sessions[t].selected
            /\ sessions[t].state # "absent" => sessions'[t].state # "absent"
            /\ IsOpen(t)' => IsOpen(t)
      BY <1>1, <1>4, OpenedRow, ClosingRow DEF Login, IsOpen
    <2>4. \A d \in Connections \ {c} : conn[d].sid # s
      BY <1>1, <2>2, NoneIsNoRow DEF ConnectionsBelong, NoConnection
    <2>5. ConnectionsBelong'
      BY <1>1, <2>1, <2>2, <2>3, <2>4, OneConnection
    <2>6. MemoryAgreesWithRow'
      BY <1>1, <2>1, <2>3, <2>4
         DEF ConnectionsBelong, MemoryAgreesWithRow, NoConnection
    <2> QED
      BY <2>5, <2>6
  <1>5. ASSUME NEW c \in Connections, NEW n \in Selectors, Select(c, n)
        PROVE  ConnectionsBelong' /\ MemoryAgreesWithRow'
    <2>1. PICK k \in CharacterIds :
            /\ sessions' = [sessions EXCEPT ![conn[c].sid].selected = k]
            /\ conn' = [conn EXCEPT ![c].at = "bag", ![c].loading = k]
      BY <1>5 DEF Select, LiveOf
    <2>2. /\ conn[c].at = "ready" /\ ~conn[c].started
          /\ conn[c].sid \in SessionIds
          /\ conn[c].account \in Accounts
          /\ sessions[conn[c].sid].state # "absent"
          /\ sessions[conn[c].sid].account = conn[c].account
          /\ \A d \in Connections \ {c} : conn[d].sid # conn[c].sid
      BY <1>1, <1>5 DEF Select, MayStart, ConnectionsBelong
    <2>3. /\ conn'[c].at = "bag" /\ ~conn'[c].started
          /\ conn'[c].account = conn[c].account
          /\ conn'[c].sid = conn[c].sid
          /\ \A d \in Connections \ {c} : conn'[d] = conn[d]
      BY <1>2, <2>1, <2>2 DEF Connection
    <2>4. \A s \in SessionIds :
            /\ sessions'[s].account = sessions[s].account
            /\ sessions'[s].state = sessions[s].state
            /\ s # conn[c].sid => sessions'[s] = sessions[s]
      BY <1>1, <2>1, <2>2 DEF TypeOK, SessionRow
    <2>5. ConnectionsBelong'
      BY <1>1, <2>2, <2>3, <2>4, OneConnection
    <2>6. MemoryAgreesWithRow'
      BY <1>1, <2>2, <2>3, <2>4
         DEF ConnectionsBelong, MemoryAgreesWithRow, NoConnection, IsOpen
    <2> QED
      BY <2>5, <2>6
  <1>6. ASSUME NEW c \in Connections, EnterWorld(c)
        PROVE  ConnectionsBelong' /\ MemoryAgreesWithRow'
    <2>1. PICK replied \in BOOLEAN :
            conn' = [conn EXCEPT ![c].at = "ready", ![c].loading = None,
                        ![c].selected = conn[c].loading,
                        ![c].started = replied]
      BY <1>6 DEF EnterWorld
    <2>2. /\ conn[c].at = "counter" /\ UNCHANGED sessions
          /\ sessions[conn[c].sid].selected = conn[c].loading
          /\ conn[c].sid \in SessionIds
          /\ conn[c].account \in Accounts
          /\ sessions[conn[c].sid].state # "absent"
          /\ sessions[conn[c].sid].account = conn[c].account
          /\ \A d \in Connections \ {c} : conn[d].sid # conn[c].sid
      BY <1>1, <1>6 DEF EnterWorld, OwnsSelected, HoldsLease, ConnectionsBelong
    <2>3. /\ conn'[c].at = "ready"
          /\ conn'[c].account = conn[c].account
          /\ conn'[c].sid = conn[c].sid
          /\ conn'[c].selected = conn[c].loading
          /\ \A d \in Connections \ {c} : conn'[d] = conn[d]
      BY <1>2, <2>1 DEF Connection
    <2>4. ConnectionsBelong'
      BY <1>1, <2>2, <2>3, OneConnection
    <2>5. MemoryAgreesWithRow'
      BY <1>1, <2>2, <2>3 DEF MemoryAgreesWithRow, IsOpen
    <2> QED
      BY <2>4, <2>5
  <1>7. ASSUME NEW c \in Connections,
               LoginFails(c) \/ Disconnect(c)
        PROVE  ConnectionsBelong' /\ MemoryAgreesWithRow'
    <2>1. UNCHANGED sessions \/ sessions' = Closing({conn[c].sid})
      BY <1>7 DEF LoginFails, Disconnect, close_session
    <2>2. conn' = [conn EXCEPT ![c] = NoConnection]
      BY <1>7 DEF LoginFails, Disconnect
    <2> QED
      BY <1>1, <1>2, <1>3, <2>1, <2>2, RowsStay, SameConnections
  <1>8. ASSUME NEW c \in Connections,
               ExitCloses(c) \/ CloseConnection(c)
        PROVE  ConnectionsBelong' /\ MemoryAgreesWithRow'
    <2>1. UNCHANGED sessions \/ sessions' = Closing({conn[c].sid})
      BY <1>8 DEF ExitCloses, CloseConnection, close_session
    <2>2. /\ conn[c].at # "gone" /\ conn'[c].at # "gone"
          /\ conn'[c].account = conn[c].account
          /\ conn'[c].sid = conn[c].sid
          /\ conn'[c].started = conn[c].started
          /\ conn'[c].selected = conn[c].selected
          /\ \A d \in Connections \ {c} : conn'[d] = conn[d]
      BY <1>2, <1>8 DEF ExitCloses, CloseConnection, Connection
    <2> QED
      BY <1>1, <1>2, <1>3, <2>1, <2>2, RowsStay, SameConnections
  <1>9. ASSUME NEW c \in Connections,
               LoginReturns(c) \/ ReadBag(c) \/ RefuseWorld(c) \/ ExitSaves(c)
        PROVE  ConnectionsBelong' /\ MemoryAgreesWithRow'
    <2>1. UNCHANGED sessions
      BY <1>9 DEF LoginReturns, ReadBag, RefuseWorld, ExitSaves
    <2>2. /\ conn[c].at # "gone" /\ conn'[c].at # "gone"
          /\ conn'[c].account = conn[c].account
          /\ conn'[c].sid = conn[c].sid
          /\ conn'[c].started = conn[c].started
          /\ conn'[c].selected = conn[c].selected
          /\ \A d \in Connections \ {c} : conn'[d] = conn[d]
      BY <1>2, <1>9 DEF LoginReturns, ReadBag, RefuseWorld, ExitSaves,
                        Connection
    <2> QED
      BY <1>1, <1>2, <1>3, <2>1, <2>2, RowsStay, SameConnections
  <1>10. ASSUME UNCHANGED <<sessions, conn>>
         PROVE  ConnectionsBelong' /\ MemoryAgreesWithRow'
    BY <1>1, <1>10 DEF ConnectionsBelong, MemoryAgreesWithRow, IsOpen
  <1>11. CASE Restart
    <2>1. /\ sessions' = Closing(SessionIds)
          /\ \A d \in Connections : conn'[d] = NoConnection
      BY <1>11 DEF Restart
    <2> QED
      BY <1>1, <1>2, <2>1, RowsStay, SameConnections
  <1> QED
    BY <1>4, <1>5, <1>6, <1>7, <1>8, <1>9, <1>10, <1>11
       DEF Next, SelectStage, Leaving, CreateCharacter, SoftDeleteCharacter,
           Checkpoint, vars

-----------------------------------------------------------------------------
(* The invariants of the runs *)

\* Every step keeps the lease invariant.
LEMMA NextInvariant == LeaseInvariant /\ [Next]_vars => LeaseInvariant'
  BY NextType, NextTables, NextConnections DEF LeaseInvariant

\* The inductive invariant: the tables are sound and every connection's view of
\* its session is right, after any logins, takeovers, deletions and reboots.
THEOREM LeaseInvariantHolds == Spec => []LeaseInvariant
  <1>1. Init => LeaseInvariant
    BY InitType, InitTables, InitConnections DEF LeaseInvariant
  <1> QED
    BY <1>1, NextInvariant, PTL DEF Spec

\* At most one open session per account, and it is the newest.
THEOREM LeasesAreExclusive == Spec => []NewestLeaseOnly
  <1>1. LeaseInvariant => NewestLeaseOnly
    BY DEF LeaseInvariant, TablesAreSound
  <1> QED
    BY <1>1, LeaseInvariantHolds, PTL

\* An open session selects only a live character of its own account.
THEOREM SelectionsAreLive == Spec => []SelectionIsLive
  <1>1. LeaseInvariant => SelectionIsLive
    BY DEF LeaseInvariant, TablesAreSound
  <1> QED
    BY <1>1, LeaseInvariantHolds, PTL

\* No two open sessions select the same character: the unique index of
\* migration 002 never refuses a selection.
THEOREM ActiveCharacterIsUnique == Spec => []OneActiveCharacter
  <1>1. LeaseInvariant => OneActiveCharacter
    BY DEF LeaseInvariant, TablesAreSound, SelectionIsLive, NewestLeaseOnly,
           OneActiveCharacter, LiveOf
  <1> QED
    BY <1>1, LeaseInvariantHolds, PTL

\* Live characters of an account never share a selector or a fingerprint.
THEOREM LiveCharactersAreDistinct == Spec => []LiveCharactersDiffer
  <1>1. LeaseInvariant => LiveCharactersDiffer
    BY DEF LeaseInvariant, TablesAreSound
  <1> QED
    BY <1>1, LeaseInvariantHolds, PTL

\* What a connection has in memory is what its session row says.
THEOREM MemoryAgrees == Spec => []MemoryAgreesWithRow
  <1>1. LeaseInvariant => MemoryAgreesWithRow
    BY DEF LeaseInvariant
  <1> QED
    BY <1>1, LeaseInvariantHolds, PTL

-----------------------------------------------------------------------------
(* The action properties *)

\* A position changes only under the lease of the account of its character, and
\* that lease is newer than any session a position of it came from.
LEMMA WritesUnderLease ==
    ASSUME LeaseInvariant, [Next]_vars, NEW k \in CharacterIds,
           positions'[k] # positions[k]
    PROVE  /\ positions'[k] \in SessionIds
           /\ HoldsLease(positions'[k], k)
           /\ \A j \in CharacterIds \ {k} : positions'[j] = positions[j]
           /\ UNCHANGED <<sessions, characters>>
  <1>1. TypeOK /\ ConnectionsBelong
    BY DEF LeaseInvariant
  <1>2. PICK c \in Connections : Checkpoint(c) \/ ExitSaves(c)
    BY DEF Next, SelectStage, Leaving, Login, LoginReturns, LoginFails,
           CreateCharacter, SoftDeleteCharacter, Select, ReadBag, EnterWorld,
           RefuseWorld, ExitCloses, CloseConnection, Disconnect, Restart, vars
  <1>3. /\ positions' = [positions EXCEPT ![conn[c].selected] = conn[c].sid]
        /\ HoldsLease(conn[c].sid, conn[c].selected)
        /\ UNCHANGED <<sessions, characters>>
        /\ conn[c].at # "gone"
    BY <1>2 DEF Checkpoint, ExitSaves
  <1>4. conn[c].sid \in SessionIds
    BY <1>1, <1>3 DEF ConnectionsBelong
  <1>5. /\ k = conn[c].selected /\ positions'[k] = conn[c].sid
        /\ \A j \in CharacterIds \ {k} : positions'[j] = positions[j]
    BY <1>1, <1>3 DEF TypeOK
  <1> QED
    BY <1>3, <1>4, <1>5

\* A step never lowers the generation a session row has.
LEMMA GenerationsStay ==
    ASSUME LeaseInvariant, [Next]_vars, NEW s \in SessionIds,
           sessions[s].state # "absent"
    PROVE  sessions'[s].generation = sessions[s].generation
  <1>1. TypeOK
    BY DEF LeaseInvariant
  <1>2. ASSUME NEW c \in Connections, NEW a \in Accounts, NEW t \in SessionIds,
               Login(c, a, t)
        PROVE  sessions'[s].generation = sessions[s].generation
    BY <1>1, <1>2, OpenedRow, ClosingRow DEF Login, open_session
  <1>3. ASSUME NEW rows, sessions' = Closing(rows)
        PROVE  sessions'[s].generation = sessions[s].generation
    BY <1>1, <1>3, ClosingRow
  <1>4. ASSUME NEW c \in Connections, NEW n \in Selectors, Select(c, n)
        PROVE  sessions'[s].generation = sessions[s].generation
    BY <1>1, <1>4 DEF Select, TypeOK, SessionRow
  <1> QED
    BY <1>2, <1>3, <1>4
       DEF Next, SelectStage, Leaving, LoginReturns, LoginFails,
           CreateCharacter, SoftDeleteCharacter, ReadBag, EnterWorld,
           RefuseWorld, Checkpoint, ExitSaves, ExitCloses, CloseConnection,
           Disconnect, Restart, close_session, vars

\* No stale session overwrites a newer session's position.
THEOREM PositionWritesAreFenced == Spec => PositionsAreFenced
  <1>1. LeaseInvariant /\ [Next]_vars =>
          [\A k \in CharacterIds :
             Generation(positions[k]) <= Generation(positions[k])']_vars
    <2> SUFFICES ASSUME LeaseInvariant, [Next]_vars, NEW k \in CharacterIds
                 PROVE  Generation(positions[k]) <= Generation(positions[k])'
      OBVIOUS
    <2>1. /\ TypeOK /\ TypeOK'
          /\ NewestLeaseOnly /\ SelectionIsLive /\ PositionsBelong
      BY NextType DEF LeaseInvariant, TablesAreSound
    <2>2. CASE positions'[k] = positions[k]
      <3>1. CASE positions[k] = None
        BY <2>2, <3>1 DEF Generation
      <3>2. CASE positions[k] # None
        <4>1. /\ positions[k] \in SessionIds
              /\ sessions[positions[k]].state # "absent"
          BY <2>1, <3>2 DEF TypeOK, PositionsBelong
        <4>2. sessions'[positions[k]].generation
                 = sessions[positions[k]].generation
          BY <4>1, GenerationsStay
        <4>3. sessions[positions[k]].generation \in Nat
          BY <2>1, <4>1 DEF TypeOK, SessionRow
        <4> QED
          BY <2>2, <3>2, <4>2, <4>3 DEF Generation
      <3> QED
        BY <3>1, <3>2
    <2>3. CASE positions'[k] # positions[k]
      <3> DEFINE s == positions'[k]
      <3>1. s \in SessionIds /\ HoldsLease(s, k) /\ UNCHANGED sessions
        BY <2>3, WritesUnderLease
      <3>2. s # None /\ sessions[s].generation \in Nat
        BY <2>1, <3>1, NoneIsNoRow DEF TypeOK, SessionRow
      <3>3. CASE positions[k] = None
        BY <3>1, <3>2, <3>3 DEF Generation
      <3>4. CASE positions[k] # None
        <4>1. /\ positions[k] \in SessionIds
              /\ sessions[positions[k]].account = characters[k].account
          BY <2>1, <3>4 DEF TypeOK, PositionsBelong
        <4>2. characters[k].account = sessions[s].account /\ IsOpen(s)
          BY <2>1, <3>1, NoneIsNoRow DEF SelectionIsLive, HoldsLease, LiveOf
        <4>3. sessions[positions[k]].generation < sessions[s].generation
          BY <2>1, <2>3, <3>1, <4>1, <4>2 DEF NewestLeaseOnly
        <4>4. sessions[positions[k]].generation \in Nat
          BY <2>1, <4>1 DEF TypeOK, SessionRow
        <4> QED
          BY <3>1, <3>2, <3>4, <4>3, <4>4 DEF Generation
      <3> QED
        BY <3>3, <3>4
    <2> QED
      BY <2>2, <2>3
  <1> QED
    BY <1>1, LeaseInvariantHolds, PTL DEF Spec, PositionsAreFenced

\* Nothing touches a deleted character or its position any more.
THEOREM DeletedCharactersAreHistory == Spec => DeletedIsHistory
  <1>1. LeaseInvariant /\ [Next]_vars =>
          [\A k \in CharacterIds : characters[k].state = "deleted"
             => UNCHANGED <<characters[k], positions[k]>>]_vars
    <2> SUFFICES ASSUME LeaseInvariant, [Next]_vars, NEW k \in CharacterIds,
                        characters[k].state = "deleted"
                 PROVE  UNCHANGED <<characters[k], positions[k]>>
      OBVIOUS
    <2>1. TypeOK /\ SelectionIsLive
      BY DEF LeaseInvariant, TablesAreSound
    <2>2. UNCHANGED positions[k]
      <3> SUFFICES ASSUME positions'[k] # positions[k] PROVE FALSE
        OBVIOUS
      <3>1. positions'[k] \in SessionIds /\ HoldsLease(positions'[k], k)
        BY WritesUnderLease
      <3> QED
        BY <2>1, <3>1, NoneIsNoRow DEF SelectionIsLive, HoldsLease, LiveOf,
                                       IsLive
    <2>3. UNCHANGED characters[k]
      <3>1. ASSUME NEW c \in Connections, NEW f \in Fingerprints,
                   NEW j \in CharacterIds, CreateCharacter(c, f, j)
            PROVE  UNCHANGED characters[k]
        BY <2>1, <3>1 DEF CreateCharacter, TypeOK
      <3>2. ASSUME NEW c \in Connections, NEW n \in Selectors,
                   SoftDeleteCharacter(c, n)
            PROVE  UNCHANGED characters[k]
        BY <2>1, <3>2 DEF SoftDeleteCharacter, LiveOf, IsLive, TypeOK
      <3> QED
        BY <3>1, <3>2
           DEF Next, SelectStage, Leaving, Login, LoginReturns, LoginFails,
               Select, ReadBag, EnterWorld, RefuseWorld, Checkpoint, ExitSaves,
               ExitCloses, CloseConnection, Disconnect, Restart, vars
    <2> QED
      BY <2>2, <2>3
  <1> QED
    BY <1>1, LeaseInvariantHolds, PTL DEF Spec, DeletedIsHistory
=============================================================================
