-------------------- MODULE SessionLeaseRefinementProofs --------------------
(* Proof that SessionLease implements AccountLease. *)
EXTENDS SessionLeaseRefinement, SessionLeaseProofs

GrantedTo(a) == GenerationsOf(RowsOf(a))
HeldBy(a) == GenerationsOf({s \in RowsOf(a) : IsOpen(s)})

\* A step that keeps account, generation and openness of every row, the owner of
\* every character, and the positions: the lease service does not move.
LEMMA Stutters ==
    ASSUME \A s \in SessionIds :
             /\ sessions'[s].account = sessions[s].account
             /\ sessions'[s].generation = sessions[s].generation
             /\ sessions'[s].state = sessions[s].state,
           \A k \in CharacterIds : characters'[k].account = characters[k].account,
           UNCHANGED positions, positions \in [CharacterIds -> SessionIds \cup {None}]
    PROVE  UNCHANGED Lease!leaseVars
  <1>1. \A a : GrantedTo(a)' = GrantedTo(a) /\ HeldBy(a)' = HeldBy(a)
    <2> TAKE a
    <2>1. RowsOf(a)' = RowsOf(a)
      BY DEF RowsOf
    <2>2. {s \in RowsOf(a) : IsOpen(s)}' = {s \in RowsOf(a) : IsOpen(s)}
      BY <2>1 DEF RowsOf, IsOpen
    <2>3. \A rows \in SUBSET SessionIds :
            GenerationsOf(rows)' = GenerationsOf(rows)
      BY DEF GenerationsOf
    <2>4. RowsOf(a) \in SUBSET SessionIds
          /\ {s \in RowsOf(a) : IsOpen(s)} \in SUBSET SessionIds
      BY DEF RowsOf
    <2> QED
      BY <2>1, <2>2, <2>3, <2>4 DEF GrantedTo, HeldBy, GenerationsOf
  <1>2. \A k \in CharacterIds :
          Generation(positions[k])' = Generation(positions[k])
    BY DEF Generation
  <1> QED
    BY <1>1, <1>2 DEF Lease!leaseVars, GrantedTo, HeldBy

\* The empty session table is an account nobody leases.
LEMMA InitRefines == Init => Lease!Init
  <1> SUFFICES ASSUME Init PROVE Lease!Init
    OBVIOUS
  <1>1. \A a \in Accounts : RowsOf(a) = {}
    BY NoneIsNoRow DEF Init, RowsOf, NoSession
  <1>2. \A a \in Accounts : GrantedTo(a) = {} /\ HeldBy(a) = {}
    BY <1>1 DEF GrantedTo, HeldBy, GenerationsOf
  <1>3. \A k \in CharacterIds : characters[k].account = None
                                  /\ Generation(positions[k]) = 0
    BY DEF Init, NoCharacter, Generation
  <1> QED
    BY <1>2, <1>3 DEF Lease!Init, GrantedTo, HeldBy

\* Closing sessions releases the leases that were held under them.
LEMMA ClosingReleases ==
    ASSUME TypeOK, NewestLeaseOnly, NEW rows, sessions' = Closing(rows),
           UNCHANGED <<characters, positions>>
    PROVE  Lease!Release
  <1> DEFINE gone == {a \in Accounts : \E s \in RowsOf(a) :
                                          s \in rows /\ IsOpen(s)}
  <1>1. \A s \in SessionIds :
          /\ sessions'[s].account = sessions[s].account
          /\ sessions'[s].generation = sessions[s].generation
          /\ IsOpen(s)' <=> IsOpen(s) /\ s \notin rows
    BY ClosingRow DEF IsOpen
  <1>2. \A a : RowsOf(a)' = RowsOf(a)
    BY <1>1 DEF RowsOf
  <1>3. \A a : GrantedTo(a)' = GrantedTo(a)
    BY <1>1, <1>2 DEF GrantedTo, GenerationsOf, RowsOf
  <1>4. \A k \in CharacterIds :
          Generation(positions[k])' = Generation(positions[k])
    BY <1>1 DEF Generation, TypeOK
  <1>5. \A a \in Accounts : HeldBy(a)' = IF a \in gone THEN {} ELSE HeldBy(a)
    <2> TAKE a \in Accounts
    <2>1. {s \in RowsOf(a) : IsOpen(s)}'
             = {s \in RowsOf(a) : IsOpen(s) /\ s \notin rows}
      BY <1>1, <1>2 DEF RowsOf
    <2>2. CASE a \in gone
      <3>1. PICK t \in RowsOf(a) : t \in rows /\ IsOpen(t)
        BY <2>2
      <3>2. \A s \in RowsOf(a) : IsOpen(s) => s = t
        BY <3>1 DEF NewestLeaseOnly, RowsOf
      <3>3. {s \in RowsOf(a) : IsOpen(s)}' = {}
        BY <2>1, <3>1, <3>2
      <3> QED
        BY <2>2, <3>3 DEF HeldBy, GenerationsOf
    <2>3. CASE a \notin gone
      <3>1. {s \in RowsOf(a) : IsOpen(s)}' = {s \in RowsOf(a) : IsOpen(s)}
        BY <2>1, <2>3
      <3>2. \A s \in RowsOf(a) :
              sessions'[s].generation = sessions[s].generation
        BY <1>1 DEF RowsOf
      <3> QED
        BY <2>3, <3>1, <3>2 DEF HeldBy, GenerationsOf
    <2> QED
      BY <2>2, <2>3
  <1>6. gone \in SUBSET Accounts
    OBVIOUS
  <1>7. [a \in Accounts |-> HeldBy(a)]' =
          [a \in Accounts |->
             IF a \in gone THEN {} ELSE [b \in Accounts |-> HeldBy(b)][a]]
    BY <1>5
  <1> QED
    BY <1>3, <1>4, <1>6, <1>7 DEF Lease!Release, GrantedTo, HeldBy

\* Opening a session grants the lease.
LEMMA OpeningGrants ==
    ASSUME TypeOK, RowsBelong, PositionsBelong,
           NEW a \in Accounts, NEW s \in SessionIds, open_session(a, s),
           UNCHANGED <<characters, positions>>
    PROVE  Lease!Grant(a)
  <1> DEFINE g == sessions'[s].generation
  <1>1. /\ sessions'[s].state = "open" /\ sessions'[s].account = a
        /\ g \in Nat
        /\ \A t \in RowsOf(a) : sessions[t].generation < g
    BY OpenedRow
  <1>2. \A t \in SessionIds \ {s} :
          /\ sessions'[t].account = sessions[t].account
          /\ sessions'[t].generation = sessions[t].generation
          /\ IsOpen(t)' <=> IsOpen(t) /\ t \notin RowsOf(a)
    BY OpenedRow, ClosingRow DEF IsOpen
  <1>3. sessions[s].state = "absent" /\ sessions[s].account = None
    BY DEF open_session, RowsBelong, NoSession
  <1>4. \A b \in Accounts : s \notin RowsOf(b)
    BY <1>3, NoneIsNoRow DEF RowsOf
  <1>5. \A b \in Accounts :
          RowsOf(b)' = IF b = a THEN RowsOf(a) \cup {s} ELSE RowsOf(b)
    BY <1>1, <1>2, <1>4 DEF RowsOf
  <1>6. \A b \in Accounts : \A t \in RowsOf(b) :
          sessions'[t].generation = sessions[t].generation
    BY <1>2, <1>4 DEF RowsOf
  <1>7. \A b \in Accounts :
          GrantedTo(b)' = IF b = a THEN GrantedTo(a) \cup {g} ELSE GrantedTo(b)
    <2> TAKE b \in Accounts
    <2>1. GrantedTo(b)' = {sessions'[t].generation : t \in RowsOf(b)'}
      BY DEF GrantedTo, GenerationsOf
    <2>2. GrantedTo(b) = {sessions'[t].generation : t \in RowsOf(b)}
      BY <1>6 DEF GrantedTo, GenerationsOf
    <2> QED
      BY <1>5, <2>1, <2>2
  <1>8. \A b \in Accounts : HeldBy(b)' = IF b = a THEN {g} ELSE HeldBy(b)
    <2> TAKE b \in Accounts
    <2>1. HeldBy(b)' = {sessions'[t].generation :
                           t \in {u \in RowsOf(b) : IsOpen(u)}'}
      BY DEF HeldBy, GenerationsOf
    <2>2. CASE b = a
      <3>1. {u \in RowsOf(b) : IsOpen(u)}' = {s}
        BY <1>1, <1>2, <1>5, <2>2 DEF RowsOf, IsOpen
      <3> QED
        BY <2>1, <2>2, <3>1
    <2>3. CASE b # a
      <3>1. {u \in RowsOf(b) : IsOpen(u)}' = {u \in RowsOf(b) : IsOpen(u)}
        BY <1>2, <1>4, <1>5, <2>3 DEF RowsOf
      <3>2. HeldBy(b) = {sessions'[t].generation :
                            t \in {u \in RowsOf(b) : IsOpen(u)}}
        BY <1>6 DEF HeldBy, GenerationsOf
      <3> QED
        BY <2>1, <2>3, <3>1, <3>2
    <2> QED
      BY <2>2, <2>3
  <1>9. \A k \in CharacterIds :
          Generation(positions[k])' = Generation(positions[k])
    BY <1>2, <1>3 DEF Generation, TypeOK, PositionsBelong
  <1>10. \A t \in GrantedTo(a) : t < g
    BY <1>1 DEF GrantedTo, GenerationsOf
  <1>11. /\ [b \in Accounts |-> GrantedTo(b)]' =
              [[b \in Accounts |-> GrantedTo(b)] EXCEPT ![a] = @ \cup {g}]
         /\ [b \in Accounts |-> HeldBy(b)]' =
              [[b \in Accounts |-> HeldBy(b)] EXCEPT ![a] = {g}]
         /\ g \in [b \in Accounts |-> GrantedTo(b)]'[a]
    BY <1>7, <1>8
  <1> QED
    BY <1>9, <1>10, <1>11 DEF Lease!Grant, GrantedTo, HeldBy

\* Creating a character adopts it.
LEMMA CreatingAdopts ==
    ASSUME TypeOK, CharactersBelong, ConnectionsBelong, NEW c \in Connections,
           NEW f \in Fingerprints, NEW k \in CharacterIds,
           CreateCharacter(c, f, k)
    PROVE  Lease!Adopt(k)
  <1> DEFINE a == conn[c].account
  <1>1. a \in Accounts /\ UNCHANGED <<sessions, positions>>
    BY DEF CreateCharacter, ConnectionsBelong
  <1>2. characters[k].account = None
    BY DEF CreateCharacter, CharactersBelong, NoCharacter
  <1>3. \A j \in CharacterIds :
          characters'[j].account = IF j = k THEN a ELSE characters[j].account
    BY DEF CreateCharacter, TypeOK
  <1>4. [j \in CharacterIds |-> characters[j].account]' =
          [[j \in CharacterIds |-> characters[j].account] EXCEPT ![k] = a]
    BY <1>3
  <1>5. /\ \A b : GrantedTo(b)' = GrantedTo(b) /\ HeldBy(b)' = HeldBy(b)
        /\ \A j \in CharacterIds :
             Generation(positions[j])' = Generation(positions[j])
    BY <1>1 DEF GrantedTo, HeldBy, GenerationsOf, RowsOf, IsOpen, Generation
  <1> QED
    BY <1>1, <1>2, <1>4, <1>5 DEF Lease!Adopt, GrantedTo, HeldBy

\* A saved position is a write under the lease.
LEMMA SavingWrites ==
    ASSUME LeaseInvariant, [Next]_vars, NEW k \in CharacterIds,
           positions'[k] # positions[k]
    PROVE  Lease!Write(k)
  <1> DEFINE s == positions'[k]
  <1>1. TypeOK /\ TypeOK' /\ SelectionIsLive
    BY NextType DEF LeaseInvariant, TablesAreSound
  <1>2. s \in SessionIds /\ HoldsLease(s, k) /\ UNCHANGED <<sessions, characters>>
    BY WritesUnderLease
  <1>3. IsOpen(s) /\ sessions[s].account = characters[k].account
    BY <1>1, <1>2, NoneIsNoRow DEF HoldsLease, SelectionIsLive, LiveOf
  <1>4. characters[k].account \in Accounts
    BY <1>1, <1>2, NoneIsNoRow
       DEF LeaseInvariant, TablesAreSound, CharactersBelong, SelectionIsLive,
           HoldsLease, LiveOf, IsLive
  <1>5. sessions[s].generation \in HeldBy(characters[k].account)
    BY <1>2, <1>3 DEF HeldBy, GenerationsOf, RowsOf
  <1>6. \A j \in CharacterIds :
          Generation(positions[j])' =
             IF j = k THEN sessions[s].generation
                      ELSE Generation(positions[j])
    BY <1>2, WritesUnderLease, NoneIsNoRow DEF Generation
  <1>7. [j \in CharacterIds |-> Generation(positions[j])]' =
          [[j \in CharacterIds |-> Generation(positions[j])]
              EXCEPT ![k] = sessions[s].generation]
    BY <1>6
  <1>8. /\ \A b : GrantedTo(b)' = GrantedTo(b) /\ HeldBy(b)' = HeldBy(b)
        /\ UNCHANGED characters
    BY <1>2 DEF GrantedTo, HeldBy, GenerationsOf, RowsOf, IsOpen
  <1>9. characters[k].account # None
    BY <1>4, NoneIsNoRow
  <1> QED
    BY <1>4, <1>5, <1>7, <1>8, <1>9 DEF Lease!Write, HeldBy, GrantedTo

\* Every step of the tables and connections is a step of the lease service, or
\* none.
LEMMA StepRefines ==
    LeaseInvariant /\ [Next]_vars => [Lease!Next]_Lease!leaseVars
  <1> SUFFICES ASSUME LeaseInvariant, [Next]_vars
               PROVE  Lease!Next \/ UNCHANGED Lease!leaseVars
    OBVIOUS
  <1>1. /\ TypeOK /\ NewestLeaseOnly /\ RowsBelong /\ CharactersBelong
        /\ PositionsBelong /\ ConnectionsBelong
    BY DEF LeaseInvariant, TablesAreSound
  <1>2. positions \in [CharacterIds -> SessionIds \cup {None}]
    BY <1>1 DEF TypeOK
  <1>3. ASSUME NEW rows, sessions' = Closing(rows),
               UNCHANGED <<characters, positions>>
        PROVE  Lease!Next
    BY <1>1, <1>3, ClosingReleases DEF Lease!Next
  <1>4. ASSUME UNCHANGED <<sessions, characters, positions>>
        PROVE  UNCHANGED Lease!leaseVars
    BY <1>2, <1>4, Stutters
  <1>5. ASSUME NEW k \in CharacterIds, positions'[k] # positions[k]
        PROVE  Lease!Next
    BY <1>5, SavingWrites DEF Lease!Next
  <1>6. ASSUME NEW c \in Connections, NEW a \in Accounts, NEW s \in SessionIds,
               Login(c, a, s)
        PROVE  Lease!Next
    BY <1>1, <1>6, OpeningGrants DEF Login, Lease!Next
  <1>7. ASSUME NEW c \in Connections, NEW f \in Fingerprints,
               NEW k \in CharacterIds, CreateCharacter(c, f, k)
        PROVE  Lease!Next
    BY <1>1, <1>7, CreatingAdopts DEF Lease!Next
  <1>8. ASSUME NEW c \in Connections, NEW n \in Selectors,
               SoftDeleteCharacter(c, n)
        PROVE  UNCHANGED Lease!leaseVars
    <2>1. UNCHANGED <<sessions, positions>>
      BY <1>8 DEF SoftDeleteCharacter
    <2>2. \A k \in CharacterIds : characters'[k].account = characters[k].account
      BY <1>1, <1>8 DEF SoftDeleteCharacter, TypeOK, CharacterRow
    <2> QED
      BY <1>2, <2>1, <2>2, Stutters
  <1>9. ASSUME NEW c \in Connections, NEW n \in Selectors, Select(c, n)
        PROVE  UNCHANGED Lease!leaseVars
    <2>1. UNCHANGED <<characters, positions>>
      BY <1>9 DEF Select
    <2>2. \A s \in SessionIds :
            /\ sessions'[s].account = sessions[s].account
            /\ sessions'[s].generation = sessions[s].generation
            /\ sessions'[s].state = sessions[s].state
      BY <1>1, <1>9 DEF Select, TypeOK, SessionRow
    <2> QED
      BY <1>2, <2>1, <2>2, Stutters
  <1>10. ASSUME NEW c \in Connections, Checkpoint(c) \/ ExitSaves(c)
         PROVE  Lease!Next \/ UNCHANGED Lease!leaseVars
    <2>1. positions' \in [CharacterIds -> SessionIds \cup {None}]
      BY NextType DEF LeaseInvariant, TypeOK
    <2>2. CASE \A k \in CharacterIds : positions'[k] = positions[k]
      <3>1. positions' = positions
        BY <1>2, <2>1, <2>2
      <3> QED
        BY <1>4, <1>10, <3>1 DEF Checkpoint, ExitSaves
    <2> QED
      BY <1>5, <2>2
  <1> QED
    BY <1>3, <1>4, <1>6, <1>7, <1>8, <1>9, <1>10
       DEF Next, SelectStage, Leaving, LoginReturns, LoginFails, ReadBag,
           EnterWorld, RefuseWorld, ExitCloses, CloseConnection, Disconnect,
           Restart, close_session, vars

\* The session leases implement the fencing-token lease service of AccountLease,
\* for any number of accounts, connections, logins and characters.
THEOREM LeaseIsImplemented == Spec => ImplementsLease
  <1>1. Spec => Lease!Init /\ [][Lease!Next]_Lease!leaseVars
    BY InitRefines, StepRefines, LeaseInvariantHolds, PTL DEF Spec
  <1> QED
    BY <1>1 DEF ImplementsLease, Lease!LeaseSpec
=============================================================================
