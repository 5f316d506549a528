-------------------------- MODULE GroundLootProofs --------------------------
(***************************************************************************)
(* Types, exclusive claims and bounded floor life of GroundLoot, for every *)
(* number of sessions, drops and keys.  Claims are exclusive because a     *)
(* drop is in one place at a time: about to fall, under one key of the     *)
(* floor, or in the hand of one session.  And one drop becomes one item    *)
(* as long as one session follows another (MaxLive = 1): a drop keeps the  *)
(* key it fell under, so a row that is taken after the floor was asked for *)
(* its key has no second one anywhere.                                     *)
(***************************************************************************)
EXTENDS GroundLootRefinement, FiniteSetTheorems, TLAPS

\* A session that is there plays a character, and a call that needs the key of the
\* request has it.
KeyIsKnown ==
    \A s \in Sessions :
        /\ session[s].at # "out" => session[s].character \in Characters
        /\ session[s].at \in {"remember", "asks", "picks", "commits"} => session[s].key \in Keys
        /\ session[s].at = "commits" => session[s].item \in Drops

Typed == TypeOK /\ KeyIsKnown

\* A claim that is remembered.
Memory == [drop : Drops \cup {None}, left : 0..(2 * Lifetime), floor : Times]

\* What a session has killed and not put on the floor yet.
Pending(s) ==
    IF session[s].at = "remember" THEN session[s].rows[session[s].key].drop ELSE None

Claim(s) == session[s].claim

OnFloor(d) == \E k \in Keys : floor[k].drop = d

\* A drop is in one place.
Apart ==
    /\ \A j, k \in Keys :
         floor[j].drop # None /\ floor[j].drop = floor[k].drop => j = k
    /\ \A s \in Sessions : Claim(s) # None =>
         /\ ~OnFloor(Claim(s))
         /\ \A t \in Sessions \ {s} : Claim(t) # Claim(s)
    /\ \A s \in Sessions : Pending(s) # None =>
         /\ ~OnFloor(Pending(s))
         /\ \A t \in Sessions \ {s} : Pending(t) # Pending(s)
         /\ \A t \in Sessions : Claim(t) # Pending(s)

\* A drop that is somewhere has a killer, so no second kill drops it.
KnownIsKilled ==
    \A d \in Drops :
        OnFloor(d) \/ (\E s \in Sessions : Claim(s) = d \/ Pending(s) = d)
          => killer[d] # None

\* The memory of a claim keeps no more time than the drop has left.
MemoryIsBounded ==
    \A k \in Keys : taken[k].drop # None => taken[k].floor <= life[taken[k].drop]

-----------------------------------------------------------------------------
(* Types *)

\* Sweeping a cell keeps its type and what the calls go by.
LEMMA SweptCellType ==
  ASSUME Typed, NEW s \in Sessions
  PROVE  /\ SweptCell(s) \in Session
         /\ SweptCell(s) = [session[s] EXCEPT !.rows = SweptCell(s).rows,
                                              !.expired = SweptCell(s).expired]
         /\ SweptCell(s).at = session[s].at
         /\ SweptCell(s).key = session[s].key
         /\ SweptCell(s).claim = session[s].claim
         /\ SweptCell(s).item = session[s].item
         /\ SweptCell(s).issued = session[s].issued
         /\ SweptCell(s).character = session[s].character
         /\ SweptCell(s).rows \in [Keys -> Row]
         /\ SweptCell(s).expired \in SUBSET Keys
<1>1. session[s] \in Session
  BY DEF Typed, TypeOK
<1>2. session[s].rows \in [Keys -> Row]
  BY <1>1 DEF Session
<1>3. Swept(session[s].rows) \in [Keys -> Row]
  BY <1>2, LifetimeIsPositive DEF Swept, Row, Absent, Times
<1>4. QED
  BY <1>1, <1>3 DEF SweptCell, Session

\* Sweeping the floor keeps its type.
LEMMA SweptFloorType ==
  ASSUME Typed
  PROVE  Swept(floor) \in [Keys -> Row]
  BY LifetimeIsPositive DEF Typed, TypeOK, Swept, Row, Absent, Times

\* Nothing left, nobody there.
LEMMA OutType == Out \in Session /\ Absent \in Row
  BY LifetimeIsPositive, KeysAreNumbers DEF Out, Session, Absent, Row, Times, Keys

\* A server that has just started is well typed.
LEMMA InitTyped == Init => Typed
<1> SUFFICES ASSUME Init PROVE Typed
  OBVIOUS
<1>1. session \in [Sessions -> Session] /\ floor \in [Keys -> Row]
  BY OutType DEF Init
<1>2. KeyIsKnown
  BY DEF Init, KeyIsKnown, Out
<1>3. QED
  BY <1>1, <1>2, LifetimeIsPositive DEF Init, Typed, TypeOK, Untaken, Times

\* Sessions other than s keep what KeyIsKnown says of them.
LEMMA OneSession ==
  ASSUME Typed, NEW s \in Sessions, NEW new \in Session,
         session' = [session EXCEPT ![s] = new],
         new.at # "out" => new.character \in Characters,
         new.at \in {"remember", "asks", "picks", "commits"} => new.key \in Keys,
         new.at = "commits" => new.item \in Drops
  PROVE  session' \in [Sessions -> Session] /\ KeyIsKnown'
<1>1. session' \in [Sessions -> Session]
  BY DEF Typed, TypeOK
<1>2. \A t \in Sessions : session'[t] = IF t = s THEN new ELSE session[t]
  BY DEF Typed, TypeOK
<1>3. QED
  BY <1>1, <1>2 DEF Typed, KeyIsKnown, Keys

\* A kill gives its row to the killer's cell, under a key of the block.
LEMMA KillTyped ==
  ASSUME Typed, NEW s \in Sessions, NEW d \in Drops, Kill(s, d)
  PROVE  Typed'
<1> DEFINE cell == SweptCell(s)
           k    == cell.issued
           row  == [drop |-> d, left |-> Lifetime]
           new  == [cell EXCEPT !.at = "remember", !.key = k, !.issued = k + 1, !.rows[k] = row]
<1>1. k \in Keys /\ k + 1 \in 1..(LastKey + 1)
  <2>1. k \in 1..(LastKey + 1) /\ k <= LastKey
    BY SweptCellType DEF Kill, HasKey, Typed, TypeOK, Session
  <2>2. QED
    BY <2>1, KeysAreNumbers DEF Keys
<1>2. row \in Row
  BY LifetimeIsPositive DEF Row, Times
<1>3. /\ new \in Session /\ new.at = "remember" /\ new.key = k
      /\ new.character \in Characters
  <2>0. cell.character \in Characters
    BY SweptCellType DEF Kill, Typed, KeyIsKnown
  <2> HIDE DEF cell, k, row
  <2>1. cell \in Session /\ cell.rows \in [Keys -> Row]
    BY SweptCellType DEF cell
  <2>2. [cell.rows EXCEPT ![k] = row] \in [Keys -> Row]
    BY <1>2, <2>1
  <2>3. QED
    BY <1>1, <2>0, <2>1, <2>2 DEF Session
<1>4. session' \in [Sessions -> Session] /\ KeyIsKnown'
  <2> HIDE DEF new
  <2>1. session' = [session EXCEPT ![s] = new]
    BY DEF Kill, new
  <2>2. QED
    BY <1>1, <1>3, <2>1, OneSession
<1>5. killer' \in [Drops -> Characters \cup {None}]
  BY DEF Kill, Typed, TypeOK, Session
<1>6. QED
  BY <1>4, <1>5 DEF Kill, Typed, TypeOK

\* The row of a kill goes to the floor.
LEMMA RememberTyped ==
  ASSUME Typed, NEW s \in Sessions, Remember(s)
  PROVE  Typed'
<1> DEFINE k   == session[s].key
           d   == session[s].rows[k].drop
           row == [drop |-> d, left |-> Lifetime]
           new == [session[s] EXCEPT !.at = "in", !.key = None]
<1>1. session[s] \in Session /\ k \in Keys /\ session[s].character \in Characters
  BY DEF Remember, Typed, TypeOK, KeyIsKnown
<1>2. row \in Row
  BY <1>1, LifetimeIsPositive DEF Session, Row, Times
<1>3. floor' \in [Keys -> Row]
  BY <1>1, <1>2, SweptFloorType DEF Remember
<1>4. new \in Session /\ new.at = "in" /\ new.character \in Characters
  BY <1>1 DEF Session
<1>5. session' \in [Sessions -> Session] /\ KeyIsKnown'
  <2>1. session' = [session EXCEPT ![s] = new]
    BY DEF Remember
  <2>2. QED
    BY <1>4, <2>1, OneSession
<1>6. life' \in [Drops -> Times]
  <2>1. life \in [Drops -> Times]
    BY DEF Typed, TypeOK
  <2>2. Lifetime \in Times
    BY LifetimeIsPositive DEF Times
  <2> HIDE DEF d
  <2>3. life' = [life EXCEPT ![d] = Lifetime]
    BY DEF Remember, d
  <2>4. QED
    BY <2>1, <2>2, <2>3
<1>7. QED
  BY <1>3, <1>5, <1>6 DEF Remember, Typed, TypeOK

\* A cell is seeded with rows of the floor, each with a new lifetime.
LEMMA AdmitTyped ==
  ASSUME Typed, NEW s \in Sessions, Admit(s)
  PROVE  Typed'
<1> DEFINE cell  == SweptCell(s)
           fresh == {k \in Keys : session[s].standing[k] # None /\ cell.rows[k].drop = None}
           rows  == [k \in Keys |->
                       IF k \in fresh
                         THEN [drop |-> session[s].standing[k], left |-> Lifetime]
                         ELSE cell.rows[k]]
<1>1. session[s] \in Session
  BY DEF Typed, TypeOK
<1>2. rows \in [Keys -> Row]
  <2>1. \A k \in Keys : cell.rows[k] \in Row
    BY SweptCellType
  <2>2. \A k \in Keys : session[s].standing[k] \in Drops \cup {None}
    BY <1>1 DEF Session
  <2>3. \A k \in Keys : [drop |-> session[s].standing[k], left |-> Lifetime] \in Row
    BY <2>2, LifetimeIsPositive DEF Row, Times
  <2> HIDE DEF fresh, cell
  <2>4. QED
    BY <2>1, <2>3
<1>3. PICK i \in {cell.issued} \cup {k + 1 : k \in fresh} :
        session' = [session EXCEPT ![s] =
                      [cell EXCEPT !.at = "in", !.issued = i,
                                   !.standing = [k \in Keys |-> None], !.rows = rows]]
  BY DEF Admit
<1>4. i \in 1..(LastKey + 1)
  <2>1. cell.issued \in 1..(LastKey + 1)
    BY <1>1, SweptCellType DEF Session
  <2>2. \A k \in fresh : k + 1 \in 1..(LastKey + 1)
    BY KeysAreNumbers DEF Keys
  <2>3. QED
    BY <2>1, <2>2
<1> DEFINE new == [cell EXCEPT !.at = "in", !.issued = i,
                               !.standing = [k \in Keys |-> None], !.rows = rows]
<1>5. new \in Session /\ new.at = "in" /\ new.character \in Characters
  <2>1. cell \in Session /\ cell.character \in Characters
    BY SweptCellType DEF Admit, Typed, KeyIsKnown
  <2> HIDE DEF cell, rows
  <2>2. [k \in Keys |-> None] \in [Keys -> Drops \cup {None}]
    OBVIOUS
  <2>3. QED
    BY <1>2, <1>4, <2>1, <2>2 DEF Session
<1>6. session' \in [Sessions -> Session] /\ KeyIsKnown'
  <2> HIDE DEF new
  <2>1. session' = [session EXCEPT ![s] = new]
    BY <1>3 DEF new
  <2>2. QED
    BY <1>5, <2>1, OneSession
<1>7. QED
  BY <1>6 DEF Admit, Typed, TypeOK

\* The floor and the memory of claims after a row changed hands.
LEMMA ClaimsTyped ==
  ASSUME Typed, NEW s \in Sessions, NEW k \in Keys, session[s].at = "in", Claims(s, k)
  PROVE  /\ floor' \in [Keys -> Row]
         /\ taken' \in [Keys -> Memory]
         /\ session' \in [Sessions -> Session] /\ KeyIsKnown'
<1> DEFINE row == Swept(floor)[k]
           new == [session[s] EXCEPT !.at = "picks", !.key = k, !.claim = row.drop]
<1>1. session[s] \in Session /\ session[s].character \in Characters /\ row \in Row
  BY SweptFloorType DEF Typed, TypeOK, KeyIsKnown
<1>2. floor' \in [Keys -> Row]
  BY SweptFloorType, OutType DEF Claims
<1>3. [drop |-> row.drop, left |-> 2 * Lifetime, floor |-> row.left] \in Memory
  BY <1>1, LifetimeIsPositive DEF Row, Memory
<1>4. taken' \in [Keys -> Memory]
  <2> HIDE DEF row
  <2>1. taken' = [taken EXCEPT ![k] = [drop |-> row.drop, left |-> 2 * Lifetime,
                                       floor |-> row.left]]
    BY DEF Claims, row
  <2>2. QED
    BY <1>3, <2>1 DEF Typed, TypeOK, Memory
<1>5. /\ new \in Session /\ new.at = "picks" /\ new.key = k
      /\ new.character \in Characters
  <2> HIDE DEF row
  <2>1. QED
    BY <1>1 DEF Session, Row
<1>6. session' \in [Sessions -> Session] /\ KeyIsKnown'
  <2> HIDE DEF new
  <2>1. session' = [session EXCEPT ![s] = new]
    BY DEF Claims, new
  <2>2. QED
    BY <1>5, <2>1, OneSession
<1>7. QED
  BY <1>2, <1>4, <1>6

\* No claim is remembered as one.
LEMMA UntakenType == Untaken \in Memory
  BY LifetimeIsPositive DEF Untaken, Memory, Times

\* A click asks the floor first.
LEMMA AskFloorTyped ==
  ASSUME Typed, NEW s \in Sessions, NEW k \in Keys, AskFloor(s, k)
  PROVE  Typed'
<1>1. CASE Claims(s, k)
  BY <1>1, ClaimsTyped DEF AskFloor, Typed, TypeOK, Memory
<1>2. CASE /\ floor' = Swept(floor)
           /\ session' = [session EXCEPT ![s].at = "asks", ![s].key = k]
           /\ UNCHANGED taken
  <2> DEFINE new == [session[s] EXCEPT !.at = "asks", !.key = k]
  <2>0. session[s] \in Session /\ session[s].character \in Characters
    BY DEF AskFloor, Typed, TypeOK, KeyIsKnown
  <2>1. /\ new \in Session /\ new.at = "asks" /\ new.key = k
        /\ new.character \in Characters
    BY <2>0 DEF Session
  <2>2. session' = [session EXCEPT ![s] = new]
    BY <1>2
  <2> HIDE DEF new
  <2>3. session' \in [Sessions -> Session] /\ KeyIsKnown'
    BY <2>1, <2>2, OneSession
  <2>4. QED
    BY <1>2, <2>3, SweptFloorType DEF AskFloor, Typed, TypeOK
<1>3. QED
  BY <1>1, <1>2 DEF AskFloor

\* A click on a row the floor does not have asks the memory of claims.
LEMMA AskTakenTyped ==
  ASSUME Typed, NEW s \in Sessions, AskTaken(s)
  PROVE  Typed'
<1> DEFINE swept == SweptCell(s)
           known == session[s].key \in Keys /\ session[s].character \in Characters
<1>1. session[s] \in Session /\ known
  BY DEF AskTaken, Typed, TypeOK, KeyIsKnown
<1>2. /\ swept \in Session /\ swept.key = session[s].key
      /\ swept.character = session[s].character
  BY SweptCellType
<1>3. PICK cell \in {session[s], swept} :
        \/ session' = [session EXCEPT ![s] = [cell EXCEPT !.at = "in", !.key = None]]
        \/ session' = [session EXCEPT ![s] = [cell EXCEPT !.at = "picks"]]
  BY DEF AskTaken
<1>4. session' \in [Sessions -> Session] /\ KeyIsKnown'
  <2> HIDE DEF swept
  <2>1. cell \in Session /\ cell.key \in Keys /\ cell.character \in Characters
    BY <1>1, <1>2
  <2> DEFINE done == [cell EXCEPT !.at = "in", !.key = None]
             more == [cell EXCEPT !.at = "picks"]
  <2>2. done \in Session /\ done.at = "in" /\ done.character \in Characters
    BY <2>1 DEF Session
  <2>3. /\ more \in Session /\ more.at = "picks" /\ more.key \in Keys
        /\ more.character \in Characters
    BY <2>1 DEF Session
  <2> HIDE DEF done, more
  <2>4. CASE session' = [session EXCEPT ![s] = done]
    BY <2>2, <2>4, OneSession
  <2>5. CASE session' = [session EXCEPT ![s] = more]
    BY <2>3, <2>5, OneSession
  <2>6. QED
    BY <1>3, <2>4, <2>5 DEF done, more
<1>5. taken' \in [Keys -> Memory]
  <2>1. taken' \in {taken, [taken EXCEPT ![session[s].key] = Untaken]}
    BY DEF AskTaken
  <2>2. QED
    BY <2>1, UntakenType DEF Typed, TypeOK, Memory
<1>6. QED
  BY <1>4, <1>5 DEF AskTaken, Typed, TypeOK, Memory

\* A row leaves the cell of the one who takes it.
LEMMA TakeTyped ==
  ASSUME Typed, NEW s \in Sessions, Take(s)
  PROVE  Typed'
<1> DEFINE cell == SweptCell(s)
           k    == cell.key
           d    == cell.rows[k].drop
           new  == [cell EXCEPT !.at = "commits", !.rows[k] = Absent, !.item = d]
<1>1. k \in Keys /\ cell \in Session /\ cell.character \in Characters
  BY SweptCellType DEF Take, Typed, KeyIsKnown
<1>2. d \in Drops
  BY <1>1, SweptCellType DEF Take, Row
<1>3. /\ new \in Session /\ new.at = "commits" /\ new.key = k /\ new.item = d
      /\ new.character \in Characters
  <2>1. [cell.rows EXCEPT ![k] = Absent] \in [Keys -> Row]
    BY OutType, SweptCellType
  <2> HIDE DEF cell, d
  <2>2. QED
    BY <1>1, <1>2, <2>1 DEF Session
<1>4. session' = [session EXCEPT ![s] = new]
  BY DEF Take
<1>5. session' \in [Sessions -> Session] /\ KeyIsKnown'
  <2> HIDE DEF new
  <2>1. QED
    BY <1>1, <1>2, <1>3, <1>4, OneSession
<1>6. QED
  BY <1>5 DEF Take, Typed, TypeOK

\* A claim that is given back leaves memory, and may go to the floor.
LEMMA ReturnedTyped ==
  ASSUME Typed, NEW d, Returned(d)
  PROVE  floor' \in [Keys -> Row] /\ taken' \in [Keys -> Memory]
<1>1. CASE UNCHANGED <<floor, taken>>
  BY <1>1 DEF Typed, TypeOK, Memory
<1>2. CASE \E k \in Keys :
             /\ taken[k].drop = d
             /\ taken' = [taken EXCEPT ![k] = Untaken]
             /\ floor' = IF taken[k].floor > 0 /\ floor[k].drop = None
                           THEN [floor EXCEPT ![k] = [drop |-> d, left |-> taken[k].floor]]
                           ELSE floor
  <2>1. PICK k \in Keys :
             /\ taken[k].drop = d
             /\ taken' = [taken EXCEPT ![k] = Untaken]
             /\ floor' \in {floor, [floor EXCEPT ![k] = [drop |-> d, left |-> taken[k].floor]]}
    BY <1>2
  <2>2. [drop |-> d, left |-> taken[k].floor] \in Row
    BY <2>1 DEF Typed, TypeOK, Row
  <2>3. QED
    BY <2>1, <2>2, UntakenType DEF Typed, TypeOK, Memory
<1>3. QED
  BY <1>1, <1>2 DEF Returned

\* A refusal ends the request.
LEMMA RefuseTyped ==
  ASSUME Typed, NEW s \in Sessions, Refuse(s)
  PROVE  Typed'
<1> DEFINE cell == SweptCell(s)
           new  == [cell EXCEPT !.at = "in", !.key = None, !.claim = None]
<1>1. new \in Session /\ new.at = "in" /\ new.character \in Characters
  <2>1. cell \in Session /\ cell.character \in Characters
    BY SweptCellType DEF Refuse, Typed, KeyIsKnown
  <2> HIDE DEF cell
  <2>2. QED
    BY <2>1 DEF Session
<1>2. session' \in [Sessions -> Session] /\ KeyIsKnown'
  <2> HIDE DEF new
  <2>1. session' = [session EXCEPT ![s] = new]
    BY DEF Refuse, new
  <2>2. QED
    BY <1>1, <2>1, OneSession
<1>3. floor' \in [Keys -> Row] /\ taken' \in [Keys -> Memory]
  <2>1. CASE Returned(session[s].claim)
    BY <2>1, ReturnedTyped
  <2>2. CASE UNCHANGED <<floor, taken>>
    BY <2>2 DEF Typed, TypeOK, Memory
  <2>3. QED
    BY <2>1, <2>2 DEF Refuse
<1>4. QED
  BY <1>2, <1>3 DEF Refuse, Typed, TypeOK, Memory

\* The other steps of a session put a session in the place of its own.
LEMMA PlainTyped ==
  ASSUME Typed, NEW s \in Sessions,
         \/ \E c \in Characters : Login(s, c)
         \/ Logout(s) \/ ReadStanding(s) \/ Commit(s)
  PROVE  Typed'
<1>0. session[s] \in Session
  BY DEF Typed, TypeOK
<1>1. ASSUME NEW c \in Characters, Login(s, c) PROVE Typed'
  <2> DEFINE new == [Out EXCEPT !.at = "in", !.character = c]
  <2>1. new \in Session /\ new.at = "in" /\ new.character \in Characters
    BY OutType DEF Session
  <2>2. session' = [session EXCEPT ![s] = new]
    BY <1>1 DEF Login
  <2> HIDE DEF new
  <2>3. session' \in [Sessions -> Session] /\ KeyIsKnown'
    BY <2>1, <2>2, OneSession
  <2>4. QED
    BY <1>1, <2>3 DEF Login, Typed, TypeOK
<1>2. CASE Logout(s)
  <2>1. Out.at = "out"
    BY DEF Out
  <2>2. session' \in [Sessions -> Session] /\ KeyIsKnown'
    BY <1>2, <2>1, OutType, OneSession DEF Logout
  <2>3. QED
    BY <1>2, <2>2 DEF Logout, Typed, TypeOK
<1>3. CASE ReadStanding(s)
  <2> DEFINE standing == [k \in Keys |-> Swept(floor)[k].drop]
             new      == [session[s] EXCEPT !.at = "admit", !.standing = standing]
  <2>1. standing \in [Keys -> Drops \cup {None}]
    BY SweptFloorType DEF Row
  <2>2. new \in Session /\ new.at = "admit" /\ new.character \in Characters
    <3>1. session[s].character \in Characters
      BY <1>3 DEF ReadStanding, Typed, KeyIsKnown
    <3> HIDE DEF standing
    <3>2. QED
      BY <1>0, <2>1, <3>1 DEF Session
  <2>3. session' = [session EXCEPT ![s] = new]
    BY <1>3 DEF ReadStanding
  <2> HIDE DEF new
  <2>4. session' \in [Sessions -> Session] /\ KeyIsKnown'
    BY <2>2, <2>3, OneSession
  <2>5. QED
    BY <1>3, <2>4, SweptFloorType DEF ReadStanding, Typed, TypeOK
<1>4. CASE Commit(s)
  <2> DEFINE new == [session[s] EXCEPT !.at = "in", !.key = None, !.claim = None,
                                       !.item = None]
  <2>0. session[s].character \in Characters
    BY <1>4 DEF Commit, Typed, KeyIsKnown
  <2>1. new \in Session /\ new.at = "in" /\ new.character \in Characters
    BY <1>0, <2>0 DEF Session
  <2>2. session' = [session EXCEPT ![s] = new]
    BY <1>4 DEF Commit
  <2> HIDE DEF new
  <2>3. session' \in [Sessions -> Session] /\ KeyIsKnown'
    BY <2>1, <2>2, OneSession
  <2>4. carried' \in [Drops -> 0..2]
    BY <1>4 DEF Commit, Counted, Typed, TypeOK
  <2>5. QED
    BY <1>4, <2>3, <2>4 DEF Commit, Typed, TypeOK
<1>5. QED
  BY <1>1, <1>2, <1>3, <1>4

\* Time takes from every row, and from no row more than it has.
LEMMA TickTyped ==
  ASSUME Typed, Tick
  PROVE  Typed'
<1>1. \A n \in Times : Less(n) \in Times
  BY LifetimeIsPositive DEF Less, Times
<1>2. \A rows \in [Keys -> Row] : Aged(rows) \in [Keys -> Row]
  BY <1>1 DEF Aged, Row
<1>3. floor' \in [Keys -> Row]
  BY <1>2 DEF Tick, Typed, TypeOK
<1>4. taken' \in [Keys -> Memory]
  <2>1. \A n \in 0..(2 * Lifetime) : Less(n) \in 0..(2 * Lifetime)
    BY LifetimeIsPositive DEF Less
  <2>2. \A row \in Memory :
          [row EXCEPT !.left = Less(@), !.floor = Less(@)] \in Memory
    BY <1>1, <2>1 DEF Memory
  <2>3. QED
    BY <2>2 DEF Tick, Typed, TypeOK, Memory
<1>5. ASSUME NEW s \in Sessions
      PROVE  /\ session'[s] \in Session
             /\ session'[s].at = session[s].at
             /\ session'[s].key = session[s].key
             /\ session'[s].item = session[s].item
             /\ session'[s].character = session[s].character
  <2>1. session[s] \in Session
    BY DEF Typed, TypeOK
  <2>2. Aged(session[s].rows) \in [Keys -> Row]
    BY <1>2, <2>1 DEF Session
  <2>3. session'[s] = [session[s] EXCEPT !.rows = Aged(session[s].rows)]
    BY DEF Tick
  <2> DEFINE rows == Aged(session[s].rows)
  <2> HIDE DEF rows
  <2>4. QED
    BY <2>1, <2>2, <2>3 DEF Session, rows
<1>6. session' \in [Sessions -> Session] /\ KeyIsKnown'
  <2>1. session' \in [Sessions -> Session]
    BY <1>5 DEF Tick
  <2>2. QED
    BY <2>1, <1>5 DEF Typed, KeyIsKnown, Keys
<1>7. life' \in [Drops -> Times]
  BY <1>1 DEF Tick, Typed, TypeOK
<1>8. QED
  BY <1>3, <1>4, <1>6, <1>7 DEF Tick, Typed, TypeOK, Memory

\* Every step keeps the types.
LEMMA NextTyped == Typed /\ [Next]_vars => Typed'
<1> SUFFICES ASSUME Typed, [Next]_vars PROVE Typed'
  OBVIOUS
<1>1. CASE UNCHANGED vars
  BY <1>1 DEF vars, Typed, TypeOK, KeyIsKnown
<1>2. CASE Next
  BY <1>2, KillTyped, RememberTyped, AdmitTyped, AskFloorTyped, AskTakenTyped, TakeTyped,
     RefuseTyped, PlainTyped, TickTyped DEF Next
<1>3. QED
  BY <1>1, <1>2

\* The variables of the ground keep their types, and no call lacks its key.
THEOREM TypesHold == Spec => []Typed
  BY InitTyped, NextTyped, PTL DEF Spec

\* The variables keep their types.
THEOREM TypeCorrect == Spec => []TypeOK
<1>1. Typed => TypeOK
  BY DEF Typed
<1>2. QED
  BY <1>1, TypesHold, PTL

-----------------------------------------------------------------------------
(* Places *)

Placed == Apart /\ KnownIsKilled

\* A drop only disappears from where it was.
LEMMA NothingMoves ==
  ASSUME Placed,
         \A k \in Keys : floor'[k].drop \in {None, floor[k].drop},
         \A s \in Sessions : Claim(s)' \in {None, Claim(s)},
         \A s \in Sessions : Pending(s)' \in {None, Pending(s)},
         \A d \in Drops : killer[d] # None => killer'[d] # None
  PROVE  Placed'
<1>1. \A d : d # None /\ OnFloor(d)' => OnFloor(d)
  BY DEF OnFloor
<1>2. Apart'
  <2>1. \A j, k \in Keys :
          floor'[j].drop # None /\ floor'[j].drop = floor'[k].drop => j = k
    BY DEF Placed, Apart
  <2>2. QED
    BY <1>1, <2>1 DEF Placed, Apart
<1>3. KnownIsKilled'
  BY <1>1, NoneIsNothing DEF Placed, KnownIsKilled
<1>4. QED
  BY <1>2, <1>3 DEF Placed

\* A drop with no killer is nowhere; after a kill one session has it.
LEMMA DropIsKilled ==
  ASSUME Placed, NEW s \in Sessions, NEW d \in Drops, killer[d] = None,
         floor' = floor,
         \A t \in Sessions : Claim(t)' = Claim(t),
         \A t \in Sessions : Pending(t)' = IF t = s THEN d ELSE Pending(t),
         \A e \in Drops : killer'[e] # None <=> killer[e] # None \/ e = d
  PROVE  Placed'
<1>1. ~OnFloor(d) /\ \A t \in Sessions : Claim(t) # d /\ Pending(t) # d
  BY DEF Placed, KnownIsKilled
<1>2. \A e : OnFloor(e)' <=> OnFloor(e)
  BY DEF OnFloor
<1>3. Apart'
  BY <1>1, <1>2, NoneIsNothing DEF Placed, Apart
<1>4. KnownIsKilled'
  BY <1>2 DEF Placed, KnownIsKilled
<1>5. QED
  BY <1>3, <1>4 DEF Placed

\* A drop falls to the floor from the one session that has killed it.
LEMMA DropFalls ==
  ASSUME Placed, NEW s \in Sessions, NEW k \in Keys,
         \A j \in Keys : floor'[j].drop \in {None, floor[j].drop}
                          \/ (j = k /\ floor'[j].drop = Pending(s)),
         \A t \in Sessions : Claim(t)' = Claim(t),
         \A t \in Sessions : Pending(t)' = IF t = s THEN None ELSE Pending(t),
         killer' = killer
  PROVE  Placed'
<1>1. \A e : e # None /\ OnFloor(e)' => OnFloor(e) \/ e = Pending(s)
  BY DEF OnFloor
<1>2. \A i, j \in Keys :
        floor'[i].drop # None /\ floor'[i].drop = floor'[j].drop => i = j
  BY DEF Placed, Apart, OnFloor
<1>3. Apart'
  BY <1>1, <1>2 DEF Placed, Apart
<1>4. KnownIsKilled'
  BY <1>1, NoneIsNothing DEF Placed, KnownIsKilled
<1>5. QED
  BY <1>3, <1>4 DEF Placed

\* The floor hands a drop to one session.
LEMMA DropIsClaimed ==
  ASSUME Placed, NEW s \in Sessions, NEW k \in Keys, floor[k].drop # None,
         \A j \in Keys : floor'[j].drop \in {None, floor[j].drop},
         floor'[k].drop = None,
         \A t \in Sessions : Claim(t)' = IF t = s THEN floor[k].drop ELSE Claim(t),
         \A t \in Sessions : Pending(t)' \in {None, Pending(t)},
         killer' = killer
  PROVE  Placed'
<1>0. PICK d : d = floor[k].drop
  OBVIOUS
<1>1. \A e : e # None /\ OnFloor(e)' => OnFloor(e)
  BY DEF OnFloor
<1>2. OnFloor(d) /\ ~OnFloor(d)'
  BY <1>0 DEF OnFloor, Placed, Apart
<1>3. \A i, j \in Keys :
        floor'[i].drop # None /\ floor'[i].drop = floor'[j].drop => i = j
  BY DEF Placed, Apart
<1>4. Apart'
  BY <1>0, <1>1, <1>2, <1>3 DEF Placed, Apart
<1>5. KnownIsKilled'
  BY <1>0, <1>1, <1>2, NoneIsNothing DEF Placed, KnownIsKilled
<1>6. QED
  BY <1>4, <1>5 DEF Placed

\* One session gives back what only it has.
LEMMA DropIsReturned ==
  ASSUME Placed, NEW s \in Sessions, NEW k \in Keys,
         \A j \in Keys : floor'[j].drop \in {None, floor[j].drop}
                          \/ (j = k /\ floor'[j].drop = Claim(s)),
         \A t \in Sessions : Claim(t)' = IF t = s THEN None ELSE Claim(t),
         \A t \in Sessions : Pending(t)' \in {None, Pending(t)},
         killer' = killer
  PROVE  Placed'
<1>1. \A e : e # None /\ OnFloor(e)' => OnFloor(e) \/ e = Claim(s)
  BY DEF OnFloor
<1>2. \A i, j \in Keys :
        floor'[i].drop # None /\ floor'[i].drop = floor'[j].drop => i = j
  BY DEF Placed, Apart, OnFloor
<1>3. Apart'
  BY <1>1, <1>2 DEF Placed, Apart
<1>4. KnownIsKilled'
  BY <1>1, NoneIsNothing DEF Placed, KnownIsKilled
<1>5. QED
  BY <1>3, <1>4 DEF Placed

\* Nothing has fallen yet.
LEMMA InitPlaced == Init => Placed
<1> SUFFICES ASSUME Init PROVE Placed
  OBVIOUS
<1>1. \A k \in Keys : floor[k].drop = None
  BY DEF Init, Absent
<1>2. \A s \in Sessions : Claim(s) = None /\ Pending(s) = None
  BY DEF Init, Claim, Pending, Out
<1>3. Apart
  BY <1>1, <1>2 DEF Apart
<1>4. KnownIsKilled
  BY <1>1, <1>2, NoneIsNothing DEF KnownIsKilled, OnFloor
<1>5. QED
  BY <1>3, <1>4 DEF Placed

\* Sweeping takes rows away and moves none.
LEMMA SweepMovesNothing ==
  ASSUME NEW k \in Keys
  PROVE  Swept(floor)[k].drop \in {None, floor[k].drop}
  BY DEF Swept, Absent

\* A session that is put in the place of s, and what the others have.
LEMMA OneSessionPlaces ==
  ASSUME Typed, NEW s \in Sessions, NEW new, session' = [session EXCEPT ![s] = new]
  PROVE  /\ \A t \in Sessions : Claim(t)' = IF t = s THEN new.claim ELSE Claim(t)
         /\ \A t \in Sessions \ {s} : Pending(t)' = Pending(t)
         /\ new.at # "remember" => Pending(s)' = None
         /\ new.at = "remember" => Pending(s)' = new.rows[new.key].drop
<1>1. \A t \in Sessions : session'[t] = IF t = s THEN new ELSE session[t]
  BY DEF Typed, TypeOK
<1>2. QED
  BY <1>1 DEF Claim, Pending

\* A kill.
LEMMA KillPlaced ==
  ASSUME Typed, Placed, NEW s \in Sessions, NEW d \in Drops, Kill(s, d)
  PROVE  Placed'
<1> DEFINE cell == SweptCell(s)
           k    == cell.issued
           row  == [drop |-> d, left |-> Lifetime]
           new  == [cell EXCEPT !.at = "remember", !.key = k, !.issued = k + 1, !.rows[k] = row]
<1>1. session' = [session EXCEPT ![s] = new]
  BY DEF Kill
<1>2. k \in Keys
  <2>1. k \in 1..(LastKey + 1) /\ k <= LastKey
    BY SweptCellType DEF Kill, HasKey, Typed, TypeOK, Session
  <2>2. QED
    BY <2>1, KeysAreNumbers DEF Keys
<1>3. /\ new.at = "remember" /\ new.claim = session[s].claim
      /\ new.rows[new.key].drop = d
  <2>1. cell \in Session /\ cell.rows \in [Keys -> Row] /\ cell.claim = session[s].claim
    BY SweptCellType
  <2> HIDE DEF cell, k, row
  <2>2. [cell.rows EXCEPT ![k] = row][k].drop = d
    BY <1>2, <2>1 DEF row
  <2>3. QED
    BY <2>1, <2>2 DEF Session
<1> HIDE DEF new
<1>4. \A t \in Sessions : Claim(t)' = Claim(t)
  BY <1>1, <1>3, OneSessionPlaces DEF Claim
<1>5. \A t \in Sessions : Pending(t)' = IF t = s THEN d ELSE Pending(t)
  BY <1>1, <1>3, OneSessionPlaces
<1>6. \A e \in Drops : killer'[e] # None <=> killer[e] # None \/ e = d
  BY NoneIsNothing DEF Kill, Typed, TypeOK, KeyIsKnown
<1>7. QED
  BY <1>4, <1>5, <1>6, DropIsKilled DEF Kill

\* The row of a kill comes to the floor, unless its key is taken there.
LEMMA RememberPlaced ==
  ASSUME Typed, Placed, NEW s \in Sessions, Remember(s)
  PROVE  Placed'
<1> DEFINE new == [session[s] EXCEPT !.at = "in", !.key = None]
<1>1. PICK k \in Keys : k = session[s].key
  BY DEF Remember, Typed, KeyIsKnown
<1>2. new.at = "in" /\ new.claim = session[s].claim
  BY DEF Typed, TypeOK, Session
<1>3. session' = [session EXCEPT ![s] = new]
  BY DEF Remember
<1> HIDE DEF new
<1>4. \A t \in Sessions : /\ Claim(t)' = Claim(t)
                          /\ Pending(t)' = IF t = s THEN None ELSE Pending(t)
  <2>1. new.claim = Claim(s) /\ new.at # "remember"
    BY <1>2 DEF Claim
  <2>2. QED
    BY <1>3, <2>1, OneSessionPlaces
<1>5. \A j \in Keys : floor'[j].drop \in {None, floor[j].drop}
                      \/ (j = k /\ floor'[j].drop = Pending(s))
  <2>1. Pending(s) = session[s].rows[k].drop
    BY <1>1 DEF Remember, Pending
  <2> DEFINE row == [drop |-> session[s].rows[k].drop, left |-> Lifetime]
  <2>2. floor' \in {Swept(floor), [Swept(floor) EXCEPT ![k] = row]}
    BY <1>1 DEF Remember
  <2>3. row.drop = Pending(s)
    BY <2>1
  <2> HIDE DEF row
  <2>4. \A j \in Keys : Swept(floor)[j].drop \in {None, floor[j].drop}
    BY SweepMovesNothing
  <2>5. \A j \in Keys : floor'[j] = Swept(floor)[j] \/ (j = k /\ floor'[j] = row)
    BY <2>2, SweptFloorType
  <2>6. QED
    BY <2>3, <2>4, <2>5
<1>6. QED
  BY <1>4, <1>5, DropFalls DEF Remember

\* A claim that succeeds.
LEMMA ClaimsPlaced ==
  ASSUME Typed, Placed, NEW s \in Sessions, NEW k \in Keys, session[s].at = "in",
         Claims(s, k), killer' = killer
  PROVE  Placed'
<1> DEFINE row == Swept(floor)[k]
           new == [session[s] EXCEPT !.at = "picks", !.key = k, !.claim = row.drop]
<1>1. row.drop = floor[k].drop /\ floor[k].drop # None
  BY SweepMovesNothing DEF Claims
<1>2. new.at = "picks" /\ new.claim = floor[k].drop
  <2> HIDE DEF row
  <2>1. QED
    BY <1>1 DEF Typed, TypeOK, Session
<1>3. session' = [session EXCEPT ![s] = new]
  BY DEF Claims
<1> HIDE DEF new
<1>4. \A t \in Sessions : /\ Claim(t)' = IF t = s THEN floor[k].drop ELSE Claim(t)
                          /\ Pending(t)' \in {None, Pending(t)}
  BY <1>2, <1>3, OneSessionPlaces
<1>5. floor'[k].drop = None /\ \A j \in Keys : floor'[j].drop \in {None, floor[j].drop}
  <2>1. floor' = [Swept(floor) EXCEPT ![k] = Absent]
    BY DEF Claims
  <2>2. \A j \in Keys : floor'[j] = IF j = k THEN Absent ELSE Swept(floor)[j]
    BY <2>1, SweptFloorType
  <2>3. QED
    BY <2>2, SweepMovesNothing DEF Absent
<1>6. QED
  BY <1>1, <1>4, <1>5, DropIsClaimed

\* A claim that is given back.
LEMMA RefusePlaced ==
  ASSUME Typed, Placed, NEW s \in Sessions, Refuse(s)
  PROVE  Placed'
<1> DEFINE new == [SweptCell(s) EXCEPT !.at = "in", !.key = None, !.claim = None]
<1>1. new.at = "in" /\ new.claim = None
  <2>1. SweptCell(s) \in Session
    BY SweptCellType
  <2>2. QED
    BY <2>1 DEF Session
<1>2. session' = [session EXCEPT ![s] = new]
  BY DEF Refuse
<1> HIDE DEF new
<1>3. \A t \in Sessions : /\ Claim(t)' = IF t = s THEN None ELSE Claim(t)
                          /\ Pending(t)' \in {None, Pending(t)}
  BY <1>1, <1>2, OneSessionPlaces
<1>4. (Returned(Claim(s)) \/ floor' = floor) /\ killer' = killer
  BY DEF Refuse, Claim
<1>5. CASE floor' = floor
  BY <1>3, <1>4, <1>5, NothingMoves
<1>6. CASE floor' # floor
  <2>1. PICK k \in Keys : \E left : floor' = [floor EXCEPT ![k] = [drop |-> Claim(s), left |-> left]]
    BY <1>4, <1>6 DEF Returned
  <2>2. \A j \in Keys : floor'[j].drop = floor[j].drop
                        \/ (j = k /\ floor'[j].drop = Claim(s))
    BY <2>1 DEF Typed, TypeOK
  <2>3. QED
    BY <1>3, <1>4, <2>2, DropIsReturned
<1>7. QED
  BY <1>5, <1>6

\* The other steps of a session move no drop.
LEMMA PlainPlaced ==
  ASSUME Typed, Placed, NEW s \in Sessions, NEW new,
         session' = [session EXCEPT ![s] = new],
         new.at # "remember", new.claim \in {None, session[s].claim},
         floor' = floor \/ floor' = Swept(floor), killer' = killer
  PROVE  Placed'
<1>1. \A t \in Sessions : Claim(t)' \in {None, Claim(t)} /\ Pending(t)' \in {None, Pending(t)}
  <2>1. new.claim \in {None, Claim(s)}
    BY DEF Claim
  <2>2. QED
    BY <2>1, OneSessionPlaces
<1>2. \A k \in Keys : floor'[k].drop \in {None, floor[k].drop}
  BY SweepMovesNothing
<1>3. QED
  BY <1>1, <1>2, NothingMoves

\* Time moves no drop.
LEMMA TickPlaced ==
  ASSUME Typed, Placed, Tick
  PROVE  Placed'
<1>1. \A k \in Keys : floor'[k].drop = floor[k].drop
  BY DEF Tick, Aged, Typed, TypeOK, Row
<1>2. ASSUME NEW s \in Sessions
      PROVE  Claim(s)' = Claim(s) /\ Pending(s)' = Pending(s)
  <2>1. session[s] \in Session
    BY DEF Typed, TypeOK
  <2>2. session'[s] = [session[s] EXCEPT !.rows = Aged(session[s].rows)]
    BY DEF Tick
  <2>3. \A k \in Keys : Aged(session[s].rows)[k].drop = session[s].rows[k].drop
    BY <2>1 DEF Aged, Session, Row
  <2>4. /\ session'[s].at = session[s].at
        /\ session'[s].key = session[s].key
        /\ session'[s].claim = session[s].claim
        /\ session'[s].rows = Aged(session[s].rows)
    <3> DEFINE rows == Aged(session[s].rows)
    <3> HIDE DEF rows
    <3>1. QED
      BY <2>1, <2>2 DEF Session, rows
  <2>5. session[s].at = "remember" => session[s].key \in Keys
    BY DEF Typed, KeyIsKnown
  <2>6. QED
    BY <2>3, <2>4, <2>5 DEF Claim, Pending
<1>3. QED
  BY <1>1, <1>2, NothingMoves DEF Tick

\* A session that is in has no row to put on the floor; what it becomes has none.
LEMMA SessionPlaced ==
  ASSUME Typed, Placed, NEW s \in Sessions,
         \/ \E c \in Characters : Login(s, c)
         \/ Logout(s) \/ ReadStanding(s) \/ Admit(s) \/ AskTaken(s) \/ Take(s) \/ Commit(s)
  PROVE  Placed'
<1> DEFINE MayBecome(new) == new.at # "remember" /\ new.claim \in {None, session[s].claim}
<1>0. session[s] \in Session /\ SweptCell(s) \in Session
      /\ SweptCell(s).claim = session[s].claim
  BY SweptCellType DEF Typed, TypeOK
<1>1. \E new : session' = [session EXCEPT ![s] = new] /\ MayBecome(new)
  <2>1. ASSUME NEW c \in Characters, Login(s, c)
        PROVE \E new : session' = [session EXCEPT ![s] = new] /\ MayBecome(new)
    <3>1. MayBecome([Out EXCEPT !.at = "in", !.character = c])
      BY DEF Out
    <3>2. QED
      BY <2>1, <3>1 DEF Login
  <2>2. CASE Logout(s)
    <3>1. MayBecome(Out)
      BY DEF Out
    <3>2. QED
      BY <2>2, <3>1 DEF Logout
  <2>3. CASE ReadStanding(s)
    <3> DEFINE standing == [k \in Keys |-> Swept(floor)[k].drop]
               new      == [session[s] EXCEPT !.at = "admit", !.standing = standing]
    <3>1. session' = [session EXCEPT ![s] = new]
      BY <2>3 DEF ReadStanding
    <3>2. MayBecome(new)
      <4> HIDE DEF standing
      <4>1. QED
        BY <1>0 DEF Session
    <3>3. QED
      BY <3>1, <3>2
  <2>4. CASE Admit(s)
    <3>1. PICK i, standing, rows :
            session' = [session EXCEPT ![s] =
              [SweptCell(s) EXCEPT !.at = "in", !.issued = i, !.standing = standing,
                                   !.rows = rows]]
      BY <2>4 DEF Admit
    <3>2. MayBecome([SweptCell(s) EXCEPT !.at = "in", !.issued = i, !.standing = standing,
                                         !.rows = rows])
      BY <1>0 DEF Session
    <3>3. QED
      BY <3>1, <3>2
  <2>5. CASE AskTaken(s)
    <3>1. PICK cell \in {session[s], SweptCell(s)} :
            \/ session' = [session EXCEPT ![s] = [cell EXCEPT !.at = "in", !.key = None]]
            \/ session' = [session EXCEPT ![s] = [cell EXCEPT !.at = "picks"]]
      BY <2>5 DEF AskTaken
    <3>2. /\ MayBecome([cell EXCEPT !.at = "in", !.key = None])
          /\ MayBecome([cell EXCEPT !.at = "picks"])
      BY <1>0 DEF Session
    <3>3. QED
      BY <3>1, <3>2
  <2>6. CASE Take(s)
    <3>1. PICK rows, d :
            session' = [session EXCEPT ![s] =
              [SweptCell(s) EXCEPT !.at = "commits", !.rows = rows, !.item = d]]
      BY <2>6 DEF Take
    <3>2. MayBecome([SweptCell(s) EXCEPT !.at = "commits", !.rows = rows, !.item = d])
      BY <1>0 DEF Session
    <3>3. QED
      BY <3>1, <3>2
  <2>7. CASE Commit(s)
    <3> DEFINE new == [session[s] EXCEPT !.at = "in", !.key = None, !.claim = None,
                                         !.item = None]
    <3>1. session' = [session EXCEPT ![s] = new]
      BY <2>7 DEF Commit
    <3>2. MayBecome(new)
      BY <1>0 DEF Session
    <3>3. QED
      BY <3>1, <3>2
  <2>8. QED
    BY <2>1, <2>2, <2>3, <2>4, <2>5, <2>6, <2>7
<1>2. (floor' = floor \/ floor' = Swept(floor)) /\ killer' = killer
  BY DEF Login, Logout, ReadStanding, Admit, AskTaken, Take, Commit
<1>3. QED
  BY <1>1, <1>2, PlainPlaced

\* A click that finds nothing on the floor moves nothing.
LEMMA AskFloorPlaced ==
  ASSUME Typed, Placed, NEW s \in Sessions, NEW k \in Keys, AskFloor(s, k)
  PROVE  Placed'
<1>1. CASE Claims(s, k)
  BY <1>1, ClaimsPlaced DEF AskFloor
<1>2. CASE /\ floor' = Swept(floor)
           /\ session' = [session EXCEPT ![s].at = "asks", ![s].key = k]
  <2> DEFINE new == [session[s] EXCEPT !.at = "asks", !.key = k]
  <2>1. new.at # "remember" /\ new.claim = session[s].claim
    BY DEF Typed, TypeOK, Session
  <2>2. session' = [session EXCEPT ![s] = new]
    BY <1>2
  <2> HIDE DEF new
  <2>3. QED
    BY <1>2, <2>1, <2>2, PlainPlaced DEF AskFloor
<1>3. QED
  BY <1>1, <1>2 DEF AskFloor

\* Every step keeps a drop in one place.
LEMMA NextPlaced == Typed /\ Placed /\ [Next]_vars => Placed'
<1> SUFFICES ASSUME Typed, Placed, [Next]_vars PROVE Placed'
  OBVIOUS
<1>1. CASE UNCHANGED vars
  BY <1>1 DEF vars, Placed, Apart, KnownIsKilled, OnFloor, Claim, Pending
<1>2. CASE Next
  BY <1>2, KillPlaced, RememberPlaced, AskFloorPlaced, RefusePlaced, SessionPlaced,
     TickPlaced DEF Next
<1>3. QED
  BY <1>1, <1>2

\* A drop is about to fall, on the floor under one key, or claimed by one session,
\* and never two of these.
THEOREM DropsAreInOnePlace == Spec => []Placed
<1>1. Init => Typed /\ Placed
  BY InitTyped, InitPlaced
<1>2. Typed /\ Placed /\ [Next]_vars => Typed' /\ Placed'
  BY NextTyped, NextPlaced
<1>3. QED
  BY <1>1, <1>2, PTL DEF Spec

\* What the world handed to one session is neither on the floor nor handed to
\* another one, with any number of sessions at once.
THEOREM ClaimsStayExclusive == Spec => []ClaimsAreExclusive
<1>1. Placed => ClaimsAreExclusive
  BY DEF Placed, Apart, ClaimsAreExclusive, Claim, OnFloor
<1>2. QED
  BY <1>1, DropsAreInOnePlace, PTL

-----------------------------------------------------------------------------
(* Times *)

Bounded == FloorLifeIsBounded /\ MemoryIsBounded

\* A row that stays, goes, or comes with no more than its drop has left.
LEMMA RowsKeepBounds ==
  ASSUME Bounded,
         \A d \in Drops : life[d] <= life'[d],
         Typed, Typed',
         \A k \in Keys : \/ floor'[k] = floor[k]
                         \/ floor'[k].drop = None
                         \/ floor'[k].left <= life'[floor'[k].drop],
         \A k \in Keys : \/ taken'[k] = taken[k]
                         \/ taken'[k].drop = None
                         \/ taken'[k].floor <= life'[taken'[k].drop]
  PROVE  Bounded'
<1>1. \A d \in Drops : life[d] \in Nat /\ life'[d] \in Nat
  BY LifetimeIsPositive DEF Typed, TypeOK, Times
<1>2. \A k \in Keys : /\ floor[k].drop \in Drops \cup {None} /\ floor[k].left \in Nat
                      /\ taken[k].drop \in Drops \cup {None} /\ taken[k].floor \in Nat
  BY LifetimeIsPositive DEF Typed, TypeOK, Row, Times
<1>3. ASSUME NEW k \in Keys, floor'[k].drop # None
      PROVE  floor'[k].left <= life'[floor'[k].drop]
  <2>1. CASE floor'[k] = floor[k]
    BY <1>1, <1>2, <1>3, <2>1 DEF Bounded, FloorLifeIsBounded
  <2>2. QED
    BY <1>3, <2>1
<1>4. ASSUME NEW k \in Keys, taken'[k].drop # None
      PROVE  taken'[k].floor <= life'[taken'[k].drop]
  <2>1. CASE taken'[k] = taken[k]
    BY <1>1, <1>2, <1>4, <2>1 DEF Bounded, MemoryIsBounded
  <2>2. QED
    BY <1>4, <2>1
<1>5. QED
  BY <1>3, <1>4 DEF Bounded, FloorLifeIsBounded, MemoryIsBounded

\* Sweeping gives no row more time.
LEMMA SweepKeepsRows == \A k \in Keys : Swept(floor)[k] = floor[k] \/ Swept(floor)[k].drop = None
  BY DEF Swept, Absent

\* A row falls with the lifetime of its drop.
LEMMA RememberBounded ==
  ASSUME Typed, Bounded, NEW s \in Sessions, Remember(s)
  PROVE  Bounded'
<1>1. PICK d : d = session[s].rows[session[s].key].drop
  OBVIOUS
<1>2. PICK k \in Keys : k = session[s].key
  BY DEF Remember, Typed, KeyIsKnown
<1>3. Typed'
  BY RememberTyped
<1>4. d \in Drops \cup {None}
  BY <1>1, <1>2 DEF Typed, TypeOK, Session, Row
<1>5. life' = [life EXCEPT ![d] = Lifetime]
  BY <1>1 DEF Remember
<1>6. \A e \in Drops : life'[e] = IF e = d THEN Lifetime ELSE life[e]
  BY <1>5 DEF Typed, TypeOK
<1>7. \A e \in Drops : life[e] <= life'[e]
  BY <1>6, LifetimeIsPositive DEF Typed, TypeOK, Times
<1>8. ASSUME NEW j \in Keys
      PROVE  \/ floor'[j] = floor[j]
             \/ floor'[j].drop = None
             \/ floor'[j].left <= life'[floor'[j].drop]
  <2> DEFINE row == [drop |-> d, left |-> Lifetime]
  <2>1. floor' \in {Swept(floor), [Swept(floor) EXCEPT ![k] = row]}
    BY <1>1, <1>2 DEF Remember
  <2>2. floor'[j] \in {Swept(floor)[j], row}
    <3> HIDE DEF row
    <3>1. QED
      BY <2>1, SweptFloorType
  <2>3. CASE floor'[j] = Swept(floor)[j]
    BY <2>3, SweepKeepsRows
  <2>4. CASE floor'[j] = row
    BY <1>4, <1>6, <2>4, LifetimeIsPositive
  <2>5. QED
    BY <2>2, <2>3, <2>4
<1>9. taken' = taken
  BY DEF Remember
<1>10. QED
  BY <1>3, <1>7, <1>8, <1>9, RowsKeepBounds

\* A claim is remembered with what its row had left.
LEMMA AskFloorBounded ==
  ASSUME Typed, Bounded, NEW s \in Sessions, NEW k \in Keys, AskFloor(s, k)
  PROVE  Bounded'
<1>1. Typed' /\ life' = life
  BY AskFloorTyped DEF AskFloor
<1>2. \A d \in Drops : life[d] <= life'[d]
  BY <1>1, LifetimeIsPositive DEF Typed, TypeOK, Times
<1>3. CASE Claims(s, k)
  <2>1. PICK row : row = Swept(floor)[k]
    OBVIOUS
  <2>2. row = floor[k] /\ row.drop # None
    BY <1>3, <2>1, SweepKeepsRows DEF Claims
  <2>3. row.left <= life[row.drop]
    BY <2>2 DEF Bounded, FloorLifeIsBounded
  <2>4. \A j \in Keys : floor'[j] = floor[j] \/ floor'[j].drop = None
    <3>1. floor' = [Swept(floor) EXCEPT ![k] = Absent]
      BY <1>3 DEF Claims
    <3>2. \A j \in Keys : floor'[j] = IF j = k THEN Absent ELSE Swept(floor)[j]
      BY <3>1, SweptFloorType
    <3>3. QED
      BY <3>2, SweepKeepsRows DEF Absent
  <2>5. taken' = [taken EXCEPT ![k] = [drop |-> row.drop, left |-> 2 * Lifetime,
                                       floor |-> row.left]]
    BY <1>3, <2>1 DEF Claims
  <2>6. \A j \in Keys : taken'[j] = taken[j] \/ taken'[j].floor <= life'[taken'[j].drop]
    BY <1>1, <2>3, <2>5 DEF Typed, TypeOK
  <2>7. QED
    BY <1>1, <1>2, <2>4, <2>6, RowsKeepBounds
<1>4. CASE floor' = Swept(floor) /\ UNCHANGED taken
  BY <1>1, <1>2, <1>4, SweepKeepsRows, RowsKeepBounds
<1>5. QED
  BY <1>3, <1>4 DEF AskFloor

\* A claim goes back with what the memory kept of it.
LEMMA RefuseBounded ==
  ASSUME Typed, Bounded, NEW s \in Sessions, Refuse(s)
  PROVE  Bounded'
<1>1. /\ Typed' /\ life' = life
      /\ Returned(session[s].claim) \/ UNCHANGED <<floor, taken>>
  BY RefuseTyped DEF Refuse
<1>2. \A d \in Drops : life[d] <= life'[d]
  BY <1>1, LifetimeIsPositive DEF Typed, TypeOK, Times
<1>3. CASE UNCHANGED <<floor, taken>>
  BY <1>1, <1>2, <1>3, RowsKeepBounds
<1>4. CASE ~UNCHANGED <<floor, taken>>
  <2>1. PICK d : d = session[s].claim
    OBVIOUS
  <2>2. PICK k \in Keys :
          /\ d # None /\ taken[k].drop = d
          /\ taken' = [taken EXCEPT ![k] = Untaken]
          /\ floor' \in {floor, [floor EXCEPT ![k] = [drop |-> d, left |-> taken[k].floor]]}
    BY <1>1, <1>4, <2>1 DEF Returned
  <2>3. taken[k].floor <= life[d]
    BY <2>2 DEF Bounded, MemoryIsBounded
  <2>4. \A j \in Keys : floor'[j] = floor[j] \/ floor'[j].left <= life'[floor'[j].drop]
    BY <1>1, <2>2, <2>3 DEF Typed, TypeOK
  <2>5. \A j \in Keys : taken'[j] = taken[j] \/ taken'[j].drop = None
    BY <2>2 DEF Typed, TypeOK, Untaken
  <2>6. QED
    BY <1>1, <1>2, <2>4, <2>5, RowsKeepBounds
<1>5. QED
  BY <1>3, <1>4

\* Time takes as much from a drop as from its rows.
LEMMA TickBounded ==
  ASSUME Typed, Bounded, Tick
  PROVE  Bounded'
<1>1. \A m, n \in Nat : m <= n => Less(m) <= Less(n)
  BY DEF Less
<1>2. ASSUME NEW k \in Keys
      PROVE  /\ floor'[k].drop = floor[k].drop
             /\ floor'[k].left = Less(floor[k].left)
             /\ taken'[k].drop = taken[k].drop
             /\ taken'[k].floor = Less(taken[k].floor)
             /\ floor[k] \in Row /\ taken[k] \in Memory
  <2>1. floor[k] \in Row /\ taken[k] \in Memory
    BY DEF Typed, TypeOK, Memory
  <2>2. /\ floor'[k] = [floor[k] EXCEPT !.left = Less(floor[k].left)]
        /\ taken'[k] = [taken[k] EXCEPT !.left = Less(taken[k].left),
                                        !.floor = Less(taken[k].floor)]
    BY DEF Tick, Aged
  <2>3. QED
    BY <2>1, <2>2 DEF Row, Memory
<1>3. \A d \in Drops : life'[d] = Less(life[d]) /\ life[d] \in Nat
  <2>1. \A d \in Drops : life'[d] = Less(life[d])
    BY DEF Tick
  <2>2. \A d \in Drops : life[d] \in Nat
    BY LifetimeIsPositive DEF Typed, TypeOK, Times
  <2>3. QED
    BY <2>1, <2>2
<1>4. \A k \in Keys : floor[k].left \in Nat /\ taken[k].floor \in Nat
                      /\ floor[k].drop \in Drops \cup {None}
                      /\ taken[k].drop \in Drops \cup {None}
  BY <1>2, LifetimeIsPositive DEF Row, Memory, Times
<1>5. FloorLifeIsBounded'
  BY <1>1, <1>2, <1>3, <1>4 DEF Bounded, FloorLifeIsBounded
<1>6. MemoryIsBounded'
  BY <1>1, <1>2, <1>3, <1>4 DEF Bounded, MemoryIsBounded
<1>7. QED
  BY <1>5, <1>6 DEF Bounded

\* The other steps sweep, or forget a claim.
LEMMA PlainBounded ==
  ASSUME Typed, Typed', Bounded, life' = life,
         floor' = floor \/ floor' = Swept(floor),
         taken' = taken \/ \E k \in Keys : taken' = [taken EXCEPT ![k] = Untaken]
  PROVE  Bounded'
<1>1. \A d \in Drops : life[d] <= life'[d]
  BY LifetimeIsPositive DEF Typed, TypeOK, Times
<1>2. \A k \in Keys : taken'[k] = taken[k] \/ taken'[k].drop = None
  BY DEF Typed, TypeOK, Untaken
<1>3. \A k \in Keys : floor'[k] = floor[k] \/ floor'[k].drop = None
  BY SweepKeepsRows
<1>4. QED
  BY <1>1, <1>2, <1>3, RowsKeepBounds

\* Every step keeps the bounds.
LEMMA NextBounded == Typed /\ Bounded /\ [Next]_vars => Bounded'
<1> SUFFICES ASSUME Typed, Bounded, [Next]_vars PROVE Bounded'
  OBVIOUS
<1>1. Typed'
  BY NextTyped
<1>2. CASE UNCHANGED vars
  BY <1>2 DEF vars, Bounded, FloorLifeIsBounded, MemoryIsBounded
<1>3. ASSUME NEW s \in Sessions,
             \/ \E c \in Characters : Login(s, c)
             \/ Logout(s) \/ ReadStanding(s) \/ Admit(s) \/ Take(s) \/ Commit(s)
             \/ \E d \in Drops : Kill(s, d)
      PROVE  Bounded'
  <2>1. /\ life' = life /\ taken' = taken
        /\ floor' = floor \/ floor' = Swept(floor)
    BY <1>3 DEF Login, Logout, ReadStanding, Admit, Take, Commit, Kill
  <2>2. QED
    BY <1>1, <2>1, PlainBounded
<1>4. ASSUME NEW s \in Sessions, AskTaken(s)
      PROVE  Bounded'
  <2>1. session[s].key \in Keys
    BY <1>4 DEF AskTaken, Typed, KeyIsKnown
  <2>2. taken' = taken \/ \E k \in Keys : taken' = [taken EXCEPT ![k] = Untaken]
    BY <1>4, <2>1 DEF AskTaken
  <2>3. QED
    BY <1>1, <1>4, <2>2, PlainBounded DEF AskTaken
<1>5. QED
  BY <1>2, <1>3, <1>4, RememberBounded, AskFloorBounded, RefuseBounded, TickBounded DEF Next

\* No hand-back, no seeding and no second claim keeps a drop on the floor for longer
\* than the lifetime it fell with.
THEOREM FloorLifeStaysBounded == Spec => []FloorLifeIsBounded
<1>1. Init => Bounded
  BY DEF Init, Bounded, FloorLifeIsBounded, MemoryIsBounded, Absent, Untaken
<1>2. Init => Typed
  BY InitTyped
<1>3. Typed /\ Bounded /\ [Next]_vars => Typed' /\ Bounded'
  BY NextTyped, NextBounded
<1>4. Bounded => FloorLifeIsBounded
  BY DEF Bounded
<1>5. QED
  BY <1>1, <1>2, <1>3, <1>4, PTL DEF Spec

-----------------------------------------------------------------------------
(* One session at a time, as the accept loop of v141 serves them *)

\* Where the key of a drop is known: on the floor, in the memory of claims, in the
\* cell of s and in what s has read of the floor.
At(s, d, k) ==
    \/ floor[k].drop = d \/ taken[k].drop = d
    \/ session[s].rows[k].drop = d \/ session[s].standing[k] = d

\* A drop keeps the key it fell under.
Keyed(s) == \A d \in Drops : \A j, k \in Keys : At(s, d, j) /\ At(s, d, k) => j = k

\* What has not fallen yet is nowhere.
Unfallen(s) ==
    \A d \in Drops : killer[d] = None => carried[d] = 0 /\ \A k \in Keys : ~At(s, d, k)

\* What is in a bag can be taken from nowhere, and is not about to be committed.
Spent(s) ==
    \A d \in Drops : carried[d] # 0 =>
        /\ carried[d] = 1
        /\ \A k \in Keys : /\ floor[k].drop # d
                           /\ session[s].rows[k].drop # d
                           /\ session[s].standing[k] # d
        /\ session[s].at = "picks" => session[s].claim # d
        /\ session[s].at = "commits" => session[s].item # d

\* What the calls of a session have found out still holds when it goes on.
Hand(s) ==
    /\ session[s].at \in {"asks", "picks"} => floor[session[s].key].drop = None
    /\ session[s].at = "commits" =>
         /\ killer[session[s].item] # None
         /\ \A k \in Keys : /\ floor[k].drop # session[s].item
                            /\ session[s].rows[k].drop # session[s].item
    /\ session[s].at # "admit" => \A k \in Keys : session[s].standing[k] = None
    /\ session[s].at \notin {"picks", "commits"} => session[s].claim = None

Alone(s) == Keyed(s) /\ Unfallen(s) /\ Spent(s) /\ Hand(s)

Serial ==
    /\ \A s, t \in Live : s = t
    /\ \A s \in Sessions : session[s].at = "out" => session[s] = Out
    /\ \A s \in Sessions : Alone(s)
    /\ OneItemPerDrop /\ StandingIsNotCarried

\* Sweeping a cell takes rows away and nothing else that matters here.
LEMMA CellSweeps ==
  ASSUME Typed, NEW s \in Sessions
  PROVE  /\ SweptCell(s).standing = session[s].standing
         /\ \A k \in Keys : SweptCell(s).rows[k].drop \in {None, session[s].rows[k].drop}
<1>1. session[s] \in Session /\ session[s].rows \in [Keys -> Row]
  BY DEF Typed, TypeOK, Session
<1>2. /\ SweptCell(s).standing = session[s].standing
      /\ SweptCell(s).rows = Swept(session[s].rows)
  BY <1>1 DEF SweptCell, Session
<1>3. QED
  BY <1>1, <1>2 DEF Swept, Absent

\* Where nothing comes to a new place, keys stay and what has not fallen stays away.
LEMMA NothingNew ==
  ASSUME NEW s \in Sessions, Keyed(s), Unfallen(s),
         \A d \in Drops : \A k \in Keys : At(s, d, k)' => At(s, d, k),
         killer' = killer,
         \A d \in Drops : killer[d] = None => carried'[d] = carried[d]
  PROVE  Keyed(s)' /\ Unfallen(s)'
  BY DEF Keyed, Unfallen

\* A kill drops what was nowhere.
LEMMA KillAlone ==
  ASSUME Typed, NEW s \in Sessions, NEW d \in Drops, Alone(s), Kill(s, d)
  PROVE  Alone(s)'
<1> DEFINE cell == SweptCell(s)
           i    == cell.issued
           row  == [drop |-> d, left |-> Lifetime]
           new  == [cell EXCEPT !.at = "remember", !.key = i, !.issued = i + 1, !.rows[i] = row]
<1>1. cell \in Session /\ i \in Keys /\ cell.rows \in [Keys -> Row]
  <2>1. i \in 1..(LastKey + 1) /\ i <= LastKey
    BY SweptCellType DEF Kill, HasKey, Typed, TypeOK, Session
  <2>2. i \in Keys
    BY <2>1, KeysAreNumbers DEF Keys
  <2>3. QED
    BY <2>2, SweptCellType
<1>2. session'[s] = new
  BY DEF Kill, Typed, TypeOK
<1>3. /\ session'[s].at = "remember" /\ session'[s].claim = session[s].claim
      /\ session'[s].standing = session[s].standing
      /\ \A k \in Keys : session'[s].rows[k] = IF k = i THEN row ELSE cell.rows[k]
  <2> HIDE DEF cell, i, row
  <2>1. cell.claim = session[s].claim /\ cell.standing = session[s].standing
    BY SweptCellType, CellSweeps DEF cell
  <2>2. QED
    BY <1>1, <1>2, <2>1 DEF Session
<1>4. /\ killer[d] = None /\ session[s].at = "in"
      /\ \A e \in Drops : killer'[e] = None => killer[e] = None /\ e # d
      /\ UNCHANGED <<floor, taken, carried>>
  BY NoneIsNothing DEF Kill, Typed, TypeOK, KeyIsKnown
<1> HIDE DEF cell, i, new
<1>5. \A k \in Keys : session'[s].rows[k].drop \in {None, session[s].rows[k].drop}
                        \/ (k = i /\ session'[s].rows[k].drop = d)
  BY <1>1, <1>3, CellSweeps DEF cell
<1>6. \A e \in Drops : \A k \in Keys : At(s, e, k)' => At(s, e, k) \/ (e = d /\ k = i)
  BY <1>3, <1>4, <1>5, NoneIsNothing DEF At
<1>7. \A k \in Keys : ~At(s, d, k)
  BY <1>4 DEF Alone, Unfallen
<1>8. Keyed(s)'
  BY <1>1, <1>6, <1>7 DEF Alone, Keyed
<1>9. Unfallen(s)'
  BY <1>4, <1>6 DEF Alone, Unfallen
<1>10. Spent(s)'
  BY <1>3, <1>4, <1>5, NoneIsNothing DEF Alone, Spent, Unfallen
<1>11. Hand(s)'
  BY <1>3, <1>4 DEF Alone, Hand
<1>12. QED
  BY <1>8, <1>9, <1>10, <1>11 DEF Alone

\* The row of a kill goes to the floor under the key it has in the cell.
LEMMA RememberAlone ==
  ASSUME Typed, NEW s \in Sessions, Alone(s), Remember(s)
  PROVE  Alone(s)'
<1> DEFINE i == session[s].key
<1>1. session[s] \in Session /\ i \in Keys /\ Swept(floor) \in [Keys -> Row]
  BY SweptFloorType DEF Remember, Typed, TypeOK, KeyIsKnown
<1>2. session'[s] = [session[s] EXCEPT !.at = "in", !.key = None]
  BY DEF Remember, Typed, TypeOK
<1>3. /\ session[s].at = "remember" /\ session'[s].at = "in"
      /\ session'[s].claim = session[s].claim
      /\ session'[s].rows = session[s].rows /\ session'[s].standing = session[s].standing
      /\ UNCHANGED <<taken, killer, carried>>
  <2>1. session[s].at = "remember" /\ UNCHANGED <<taken, killer, carried>>
    BY DEF Remember
  <2>2. QED
    BY <1>1, <1>2, <2>1 DEF Session
<1>4. \A k \in Keys : floor'[k].drop \in {None, floor[k].drop}
                        \/ (k = i /\ floor'[k].drop = session[s].rows[i].drop)
  BY <1>1, SweepMovesNothing DEF Remember
<1>5. \A d \in Drops : \A k \in Keys : At(s, d, k)' => At(s, d, k)
  BY <1>1, <1>3, <1>4, NoneIsNothing DEF At
<1>6. Keyed(s)' /\ Unfallen(s)'
  BY <1>3, <1>5, NothingNew DEF Alone
<1>7. Spent(s)'
  BY <1>1, <1>3, <1>4, NoneIsNothing DEF Alone, Spent
<1>8. Hand(s)'
  BY <1>3 DEF Alone, Hand
<1>9. QED
  BY <1>6, <1>7, <1>8 DEF Alone

\* The floor is read.
LEMMA ReadStandingAlone ==
  ASSUME Typed, NEW s \in Sessions, Alone(s), ReadStanding(s)
  PROVE  Alone(s)'
<1>1. session[s] \in Session
  BY DEF Typed, TypeOK
<1>2. session'[s] = [session[s] EXCEPT !.at = "admit",
                                       !.standing = [k \in Keys |-> Swept(floor)[k].drop]]
  BY DEF ReadStanding, Typed, TypeOK
<1>3. /\ session[s].at = "in" /\ session'[s].at = "admit"
      /\ session'[s].claim = session[s].claim /\ session'[s].rows = session[s].rows
      /\ \A k \in Keys : session'[s].standing[k] \in {None, floor[k].drop}
      /\ \A k \in Keys : floor'[k].drop \in {None, floor[k].drop}
      /\ UNCHANGED <<taken, killer, carried>>
  <2>1. /\ session[s].at = "in" /\ UNCHANGED <<taken, killer, carried>>
        /\ floor' = Swept(floor)
    BY DEF ReadStanding
  <2>2. \A k \in Keys : Swept(floor)[k].drop \in {None, floor[k].drop}
    BY SweepMovesNothing
  <2>3. /\ session'[s].at = "admit" /\ session'[s].claim = session[s].claim
        /\ session'[s].rows = session[s].rows
        /\ session'[s].standing = [k \in Keys |-> Swept(floor)[k].drop]
    BY <1>1, <1>2 DEF Session
  <2>4. QED
    BY <2>1, <2>2, <2>3
<1>4. \A d \in Drops : \A k \in Keys : At(s, d, k)' => At(s, d, k)
  BY <1>3, NoneIsNothing DEF At
<1>5. Keyed(s)' /\ Unfallen(s)'
  BY <1>3, <1>4, NothingNew DEF Alone
<1>6. Spent(s)'
  BY <1>3, NoneIsNothing DEF Alone, Spent
<1>7. Hand(s)'
  BY <1>3 DEF Alone, Hand
<1>8. QED
  BY <1>5, <1>6, <1>7 DEF Alone

\* What was read of the floor comes to the cell, under the keys it has there.
LEMMA AdmitAlone ==
  ASSUME Typed, NEW s \in Sessions, Alone(s), Admit(s)
  PROVE  Alone(s)'
<1> DEFINE cell  == SweptCell(s)
           fresh == {k \in Keys : session[s].standing[k] # None /\ cell.rows[k].drop = None}
           rows  == [k \in Keys |->
                       IF k \in fresh
                         THEN [drop |-> session[s].standing[k], left |-> Lifetime]
                         ELSE cell.rows[k]]
<1>1. cell \in Session
  BY SweptCellType
<1>2. PICK i : session' = [session EXCEPT ![s] =
                  [cell EXCEPT !.at = "in", !.issued = i,
                               !.standing = [k \in Keys |-> None], !.rows = rows]]
  BY DEF Admit
<1>3. \A k \in Keys : rows[k].drop \in {None, session[s].rows[k].drop, session[s].standing[k]}
  BY CellSweeps
<1>4. /\ session[s].at = "admit" /\ UNCHANGED <<floor, taken, killer, carried>>
  BY DEF Admit
<1> HIDE DEF cell, rows
<1>5. /\ session'[s].at = "in" /\ session'[s].claim = cell.claim
      /\ session'[s].rows = rows /\ session'[s].standing = [k \in Keys |-> None]
  BY <1>1, <1>2 DEF Session, Typed, TypeOK
<1>6. cell.claim = session[s].claim
  BY SweptCellType DEF cell
<1>7. \A d \in Drops : \A k \in Keys : At(s, d, k)' => At(s, d, k)
  BY <1>3, <1>4, <1>5, NoneIsNothing DEF At
<1>8. Keyed(s)' /\ Unfallen(s)'
  BY <1>4, <1>7, NothingNew DEF Alone
<1>9. Spent(s)'
  BY <1>3, <1>4, <1>5, NoneIsNothing DEF Alone, Spent
<1>10. Hand(s)'
  BY <1>4, <1>5, <1>6 DEF Alone, Hand
<1>11. QED
  BY <1>8, <1>9, <1>10 DEF Alone

\* The floor answers a click: its row goes to the session, and with it off the floor.
LEMMA AskFloorAlone ==
  ASSUME Typed, NEW s \in Sessions, NEW k \in Keys, Alone(s), AskFloor(s, k)
  PROVE  Alone(s)'
<1>1. session[s] \in Session /\ Swept(floor) \in [Keys -> Row] /\ taken \in [Keys -> Memory]
  BY SweptFloorType DEF Typed, TypeOK, Memory
<1>2. \A j \in Keys : Swept(floor)[j].drop \in {None, floor[j].drop}
  BY SweepMovesNothing
<1>3. session[s].at = "in" /\ UNCHANGED <<killer, carried>>
  BY DEF AskFloor
<1>4. CASE Claims(s, k)
  <2> DEFINE e == Swept(floor)[k].drop
  <2>1. /\ session'[s].at = "picks" /\ session'[s].key = k /\ session'[s].claim = e
        /\ session'[s].rows = session[s].rows /\ session'[s].standing = session[s].standing
    BY <1>1, <1>4 DEF Claims, Session, Typed, TypeOK
  <2>2. /\ \A j \in Keys : floor'[j].drop \in {None, floor[j].drop}
        /\ floor'[k].drop = None
        /\ \A j \in Keys : taken'[j].drop \in {taken[j].drop, floor[j].drop}
        /\ e = floor[k].drop /\ e # None
    BY <1>1, <1>2, <1>4 DEF Claims, Absent
  <2> HIDE DEF e
  <2>3. \A d \in Drops : \A j \in Keys : At(s, d, j)' => At(s, d, j)
    BY <2>1, <2>2, NoneIsNothing DEF At
  <2>4. Keyed(s)' /\ Unfallen(s)'
    BY <1>3, <2>3, NothingNew DEF Alone
  <2>5. Spent(s)'
    BY <1>3, <2>1, <2>2, NoneIsNothing DEF Alone, Spent
  <2>6. Hand(s)'
    BY <1>3, <2>1, <2>2 DEF Alone, Hand
  <2>7. QED
    BY <2>4, <2>5, <2>6 DEF Alone
<1>5. CASE /\ Swept(floor)[k].drop = None
           /\ floor' = Swept(floor)
           /\ session' = [session EXCEPT ![s].at = "asks", ![s].key = k]
           /\ UNCHANGED taken
  <2>1. /\ session'[s].at = "asks" /\ session'[s].key = k
        /\ session'[s].claim = session[s].claim
        /\ session'[s].rows = session[s].rows /\ session'[s].standing = session[s].standing
    BY <1>1, <1>5 DEF Session, Typed, TypeOK
  <2>2. \A d \in Drops : \A j \in Keys : At(s, d, j)' => At(s, d, j)
    BY <1>2, <1>5, <2>1, NoneIsNothing DEF At
  <2>3. Keyed(s)' /\ Unfallen(s)'
    BY <1>3, <2>2, NothingNew DEF Alone
  <2>4. Spent(s)'
    BY <1>2, <1>3, <1>5, <2>1, NoneIsNothing DEF Alone, Spent
  <2>5. Hand(s)'
    BY <1>3, <1>5, <2>1 DEF Alone, Hand
  <2>6. QED
    BY <2>3, <2>4, <2>5 DEF Alone
<1>6. QED
  BY <1>4, <1>5 DEF AskFloor

\* Nothing moves but rows that are swept.
LEMMA SweptAlone ==
  ASSUME Typed, NEW s \in Sessions, Alone(s),
         floor' = floor \/ floor' = Swept(floor), UNCHANGED <<killer, carried>>,
         \A k \in Keys : taken'[k].drop \in {None, taken[k].drop},
         \A k \in Keys : session'[s].rows[k].drop \in {None, session[s].rows[k].drop},
         session'[s].standing = session[s].standing,
         session'[s].claim = session[s].claim,
         session[s].at = "asks",
         \/ session'[s].at = "in"
         \/ session'[s].at = "picks" /\ session'[s].key = session[s].key
  PROVE  Alone(s)'
<1>1. \A k \in Keys : floor'[k].drop \in {None, floor[k].drop}
  BY SweepMovesNothing
<1>2. \A d \in Drops : \A j \in Keys : At(s, d, j)' => At(s, d, j)
  BY <1>1, NoneIsNothing DEF At
<1>3. Keyed(s)' /\ Unfallen(s)'
  BY <1>2, NothingNew DEF Alone
<1>4. Spent(s)'
  BY <1>1, NoneIsNothing DEF Alone, Spent, Hand
<1>5. session[s].key \in Keys
  BY DEF Typed, KeyIsKnown
<1>6. Hand(s)'
  BY <1>1, <1>5 DEF Alone, Hand
<1>7. QED
  BY <1>3, <1>4, <1>6 DEF Alone

\* The memory of claims answers; no row comes to a new place.
LEMMA AskTakenAlone ==
  ASSUME Typed, NEW s \in Sessions, Alone(s), AskTaken(s)
  PROVE  Alone(s)'
<1> DEFINE k    == session[s].key
           gone == IF taken[k].left = 0 THEN None ELSE taken[k].drop
           cell == IF gone = None THEN session[s] ELSE SweptCell(s)
<1>1. /\ session[s] \in Session /\ SweptCell(s) \in Session /\ k \in Keys
      /\ session[s].at = "asks"
  BY SweptCellType DEF AskTaken, Typed, TypeOK, KeyIsKnown
<1>2. /\ cell \in Session /\ cell.claim = session[s].claim /\ cell.key = session[s].key
      /\ cell.standing = session[s].standing
      /\ \A j \in Keys : cell.rows[j].drop \in {None, session[s].rows[j].drop}
  BY <1>1, SweptCellType, CellSweeps
<1>3. \A j \in Keys : taken'[j].drop \in {None, taken[j].drop}
  BY <1>1 DEF AskTaken, Untaken, Typed, TypeOK
<1>4. \/ session' = [session EXCEPT ![s] = [cell EXCEPT !.at = "in", !.key = None]]
      \/ session' = [session EXCEPT ![s] = [cell EXCEPT !.at = "picks"]]
  BY DEF AskTaken
<1> HIDE DEF cell
<1>5. /\ session'[s].rows = cell.rows /\ session'[s].standing = cell.standing
      /\ session'[s].claim = cell.claim
      /\ \/ session'[s].at = "in"
         \/ session'[s].at = "picks" /\ session'[s].key = cell.key
  <2>1. CASE session' = [session EXCEPT ![s] = [cell EXCEPT !.at = "in", !.key = None]]
    BY <1>2, <2>1 DEF Session, Typed, TypeOK
  <2>2. CASE session' = [session EXCEPT ![s] = [cell EXCEPT !.at = "picks"]]
    BY <1>2, <2>2 DEF Session, Typed, TypeOK
  <2>3. QED
    BY <1>4, <2>1, <2>2
<1>6. UNCHANGED <<floor, killer, carried>>
  BY DEF AskTaken
<1>7. QED
  BY <1>1, <1>2, <1>3, <1>5, <1>6, SweptAlone

\* A row is taken: no other one of its drop is left, for its key is off the floor.
LEMMA TakeAlone ==
  ASSUME Typed, NEW s \in Sessions, Alone(s), Take(s)
  PROVE  Alone(s)'
<1> DEFINE cell == SweptCell(s)
           k    == session[s].key
           d    == cell.rows[k].drop
<1>1. /\ session[s] \in Session /\ cell \in Session /\ cell.rows \in [Keys -> Row]
      /\ cell.key = k /\ cell.claim = session[s].claim /\ cell.standing = session[s].standing
      /\ session[s].at = "picks" /\ k \in Keys
  BY SweptCellType, CellSweeps DEF Take, Typed, TypeOK, KeyIsKnown
<1>2. \A j \in Keys : cell.rows[j].drop \in {None, session[s].rows[j].drop}
  BY CellSweeps
<1>3. /\ d # None /\ MayTake(s, d) /\ UNCHANGED <<floor, taken, killer, carried>>
      /\ session' = [session EXCEPT ![s] =
           [cell EXCEPT !.at = "commits", !.rows[k] = Absent, !.item = d]]
  BY <1>1 DEF Take
<1>4. d \in Drops /\ d = session[s].rows[k].drop
  BY <1>1, <1>2, <1>3 DEF Row
<1> HIDE DEF cell, k, d
<1>5. /\ session'[s].at = "commits" /\ session'[s].item = d
      /\ session'[s].claim = cell.claim /\ session'[s].standing = cell.standing
      /\ \A j \in Keys : session'[s].rows[j] = IF j = k THEN Absent ELSE cell.rows[j]
  BY <1>1, <1>3 DEF Session, Typed, TypeOK
<1>6. \A j \in Keys : session'[s].rows[j].drop \in {None, session[s].rows[j].drop}
  BY <1>2, <1>5 DEF Absent
<1>7. \A e \in Drops : \A j \in Keys : At(s, e, j)' => At(s, e, j)
  BY <1>1, <1>3, <1>5, <1>6, NoneIsNothing DEF At
<1>8. Keyed(s)' /\ Unfallen(s)'
  BY <1>3, <1>7, NothingNew DEF Alone
<1>9. carried[d] = 0
  BY <1>1, <1>4 DEF Alone, Spent
<1>10. Spent(s)'
  BY <1>1, <1>3, <1>5, <1>6, <1>9, NoneIsNothing DEF Alone, Spent
<1>11. killer[d] # None
  BY <1>1, <1>4 DEF Alone, Unfallen, At
<1>12. \A j \in Keys : floor[j].drop = d \/ session[s].rows[j].drop = d => j = k
  BY <1>1, <1>4 DEF Alone, Keyed, At
<1>13. \A j \in Keys : floor[j].drop # d /\ session'[s].rows[j].drop # d
  <2>1. floor[k].drop = None
    BY <1>1 DEF Alone, Hand, k
  <2>2. \A j \in Keys : floor[j].drop # d
    BY <1>3, <1>12, <2>1
  <2>3. \A j \in Keys : session'[s].rows[j].drop # d
    BY <1>3, <1>5, <1>6, <1>12 DEF Absent
  <2>4. QED
    BY <2>2, <2>3
<1>14. Hand(s)'
  BY <1>1, <1>3, <1>5, <1>11, <1>13 DEF Alone, Hand
<1>15. QED
  BY <1>8, <1>10, <1>14 DEF Alone

\* What goes back goes back under its key, and was not committed.
LEMMA RefuseAlone ==
  ASSUME Typed, NEW s \in Sessions, Alone(s), Refuse(s)
  PROVE  Alone(s)'
<1> DEFINE cell == SweptCell(s)
           d    == session[s].claim
<1>1. /\ cell \in Session /\ cell.standing = session[s].standing
      /\ session[s].at = "picks" /\ UNCHANGED <<killer, carried>>
      /\ Returned(d) \/ UNCHANGED <<floor, taken>>
  BY SweptCellType, CellSweeps DEF Refuse
<1>2. \A j \in Keys : cell.rows[j].drop \in {None, session[s].rows[j].drop}
  BY CellSweeps
<1>3. session' = [session EXCEPT ![s] = [cell EXCEPT !.at = "in", !.key = None, !.claim = None]]
  BY DEF Refuse
<1> HIDE DEF cell, d
<1>4. /\ session'[s].at = "in" /\ session'[s].claim = None
      /\ session'[s].rows = cell.rows /\ session'[s].standing = cell.standing
  BY <1>1, <1>3 DEF Session, Typed, TypeOK
<1>5. /\ \A k \in Keys : taken'[k].drop \in {None, taken[k].drop}
      /\ \A k \in Keys : \/ floor'[k].drop = floor[k].drop
                         \/ floor'[k].drop = d /\ taken[k].drop = d
  <2>1. CASE UNCHANGED <<floor, taken>>
    BY <2>1
  <2>2. CASE \E k \in Keys :
               /\ taken[k].drop = d
               /\ taken' = [taken EXCEPT ![k] = Untaken]
               /\ floor' = IF taken[k].floor > 0 /\ floor[k].drop = None
                             THEN [floor EXCEPT ![k] = [drop |-> d, left |-> taken[k].floor]]
                             ELSE floor
    BY <2>2 DEF Untaken, Typed, TypeOK
  <2>3. QED
    BY <1>1, <2>1, <2>2 DEF Returned
<1>6. \A e \in Drops : \A k \in Keys : At(s, e, k)' => At(s, e, k)
  BY <1>1, <1>2, <1>4, <1>5, NoneIsNothing DEF At
<1>7. Keyed(s)' /\ Unfallen(s)'
  BY <1>1, <1>6, NothingNew DEF Alone
<1>8. Spent(s)'
  BY <1>1, <1>2, <1>4, <1>5, NoneIsNothing DEF Alone, Spent, d
<1>9. Hand(s)'
  BY <1>1, <1>4 DEF Alone, Hand
<1>10. QED
  BY <1>7, <1>8, <1>9 DEF Alone

\* A drop that reaches a bag is nowhere else.
LEMMA CommitAlone ==
  ASSUME Typed, NEW s \in Sessions, Alone(s), Commit(s)
  PROVE  Alone(s)'
<1> DEFINE d == session[s].item
<1>1. session[s] \in Session /\ d \in Drops /\ session[s].at = "commits"
  BY DEF Commit, Typed, TypeOK, KeyIsKnown
<1>2. /\ UNCHANGED <<floor, taken, killer>>
      /\ session'[s] = [session[s] EXCEPT !.at = "in", !.key = None, !.claim = None,
                                          !.item = None]
      /\ carried' = carried \/ carried' = [carried EXCEPT ![d] = Counted(@ + 1)]
  BY DEF Commit, Typed, TypeOK
<1>3. /\ session'[s].at = "in" /\ session'[s].claim = None
      /\ session'[s].rows = session[s].rows /\ session'[s].standing = session[s].standing
  BY <1>1, <1>2 DEF Session
<1>4. carried[d] = 0 /\ killer[d] # None
  BY <1>1 DEF Alone, Spent, Hand
<1>5. \A e \in Drops : carried'[e] = carried[e] \/ (e = d /\ carried'[e] = 1)
  BY <1>1, <1>2, <1>4 DEF Counted, Typed, TypeOK
<1> HIDE DEF d
<1>6. \A e \in Drops : \A k \in Keys : At(s, e, k)' => At(s, e, k)
  BY <1>2, <1>3 DEF At
<1>7. Keyed(s)' /\ Unfallen(s)'
  BY <1>2, <1>4, <1>5, <1>6, NothingNew DEF Alone
<1>8. \A k \in Keys : /\ floor[k].drop # d /\ session[s].rows[k].drop # d
                      /\ session[s].standing[k] # d
  BY <1>1, NoneIsNothing DEF Alone, Hand, d
<1>9. Spent(s)'
  BY <1>2, <1>3, <1>5, <1>8 DEF Alone, Spent
<1>10. Hand(s)'
  BY <1>1, <1>2, <1>3 DEF Alone, Hand
<1>11. QED
  BY <1>7, <1>9, <1>10 DEF Alone

\* Who comes or goes has nothing in his cell.
LEMMA BlankAlone ==
  ASSUME Typed, NEW s \in Sessions, Alone(s), UNCHANGED <<floor, taken, killer, carried>>,
         \A k \in Keys : session'[s].rows[k].drop = None /\ session'[s].standing[k] = None,
         session'[s].claim = None, session'[s].at \in {"out", "in"}
  PROVE  Alone(s)'
<1>1. \A e \in Drops : \A k \in Keys : At(s, e, k)' => At(s, e, k)
  BY NoneIsNothing DEF At
<1>2. Keyed(s)' /\ Unfallen(s)'
  BY <1>1, NothingNew DEF Alone
<1>3. Spent(s)' /\ Hand(s)'
  BY NoneIsNothing DEF Alone, Spent, Hand
<1>4. QED
  BY <1>2, <1>3 DEF Alone

\* A login brings an empty cell.
LEMMA LoginAlone ==
  ASSUME Typed, NEW s \in Sessions, NEW c \in Characters, Alone(s), Login(s, c)
  PROVE  Alone(s)'
<1>1. session'[s] = [Out EXCEPT !.at = "in", !.character = c]
  BY DEF Login, Typed, TypeOK
<1>2. /\ \A k \in Keys : session'[s].rows[k].drop = None /\ session'[s].standing[k] = None
      /\ session'[s].claim = None /\ session'[s].at = "in"
  BY <1>1 DEF Out, Absent
<1>3. UNCHANGED <<floor, taken, killer, carried>>
  BY DEF Login
<1>4. QED
  BY <1>2, <1>3, BlankAlone

\* A logout leaves one.
LEMMA LogoutAlone ==
  ASSUME Typed, NEW s \in Sessions, Alone(s), Logout(s)
  PROVE  Alone(s)'
<1>1. session'[s] = Out
  BY DEF Logout, Typed, TypeOK
<1>2. QED
  BY <1>1, BlankAlone DEF Logout, Out, Absent

\* Time takes nothing away: rows are swept when they are looked at.
LEMMA TickAlone ==
  ASSUME Typed, NEW s \in Sessions, Alone(s), Tick
  PROVE  Alone(s)'
<1>1. /\ session[s] \in Session /\ session[s].rows \in [Keys -> Row]
      /\ floor \in [Keys -> Row] /\ taken \in [Keys -> Memory]
  BY DEF Typed, TypeOK, Session, Memory
<1>2. \A rows \in [Keys -> Row] : \A k \in Keys : Aged(rows)[k].drop = rows[k].drop
  BY DEF Aged, Row
<1>3. /\ \A k \in Keys : floor'[k].drop = floor[k].drop
      /\ \A k \in Keys : taken'[k].drop = taken[k].drop
      /\ UNCHANGED <<killer, carried>>
  BY <1>1, <1>2 DEF Tick, Memory
<1>4. session'[s] = [session[s] EXCEPT !.rows = Aged(@)]
  BY DEF Tick
<1>5. /\ \A k \in Keys : session'[s].rows[k].drop = session[s].rows[k].drop
      /\ session'[s].standing = session[s].standing /\ session'[s].claim = session[s].claim
      /\ session'[s].at = session[s].at /\ session'[s].key = session[s].key
      /\ session'[s].item = session[s].item
  BY <1>1, <1>2, <1>4 DEF Session
<1>6. \A e \in Drops : \A k \in Keys : At(s, e, k)' => At(s, e, k)
  BY <1>3, <1>5 DEF At
<1>7. Keyed(s)' /\ Unfallen(s)'
  BY <1>3, <1>6, NothingNew DEF Alone
<1>8. Spent(s)'
  BY <1>3, <1>5 DEF Alone, Spent
<1>9. session[s].at \in {"asks", "picks"} => session[s].key \in Keys
  BY DEF Typed, KeyIsKnown
<1>10. Hand(s)'
  BY <1>3, <1>5, <1>9 DEF Alone, Hand
<1>11. QED
  BY <1>7, <1>8, <1>10 DEF Alone

\* What a session does in the loop of v141.
Step(s) ==
    \/ \E c \in Characters : Login(s, c)
    \/ Logout(s)
    \/ \E d \in Drops : Kill(s, d)
    \/ Remember(s) \/ ReadStanding(s) \/ Admit(s)
    \/ \E k \in Keys : AskFloor(s, k)
    \/ AskTaken(s) \/ Take(s) \/ Refuse(s) \/ Commit(s)

\* Every step of a session leaves it alone with its drops.
LEMMA StepAlone ==
  ASSUME Typed, NEW s \in Sessions, Alone(s), Step(s)
  PROVE  Alone(s)'
  BY LoginAlone, LogoutAlone, KillAlone, RememberAlone, ReadStandingAlone, AdmitAlone,
     AskFloorAlone, AskTakenAlone, TakeAlone, RefuseAlone, CommitAlone DEF Step

\* A step of a session changes no other one, and only a login brings one.
LEMMA StepOfOne ==
  ASSUME Typed, NEW s \in Sessions, Step(s)
  PROVE  /\ \A t \in Sessions \ {s} : session'[t] = session[t]
         /\ session'[s].at = "out" => session'[s] = Out
         /\ s \in Live \/ Cardinality(Live) < MaxLive
<1>1. PICK new : session' = [session EXCEPT ![s] = new]
  BY DEF Step, Login, Logout, Kill, Remember, ReadStanding, Admit, AskFloor, Claims, AskTaken,
         Take, Refuse, Commit
<1>2. \A t \in Sessions \ {s} : session'[t] = session[t]
  BY <1>1 DEF Typed, TypeOK
<1>3. session[s] \in Session /\ SweptCell(s) \in Session
  BY SweptCellType DEF Typed, TypeOK
<1>4. session'[s].at = "out" => session'[s] = Out
  <2>1. CASE Logout(s)
    BY <2>1 DEF Logout, Typed, TypeOK
  <2>2. CASE Remember(s) \/ ReadStanding(s) \/ Commit(s)
    BY <1>3, <2>2 DEF Remember, ReadStanding, Commit, Session, Typed, TypeOK
  <2>3. CASE Admit(s)
    BY <1>3, <2>3 DEF Admit, Session, Typed, TypeOK
  <2>4. CASE Take(s)
    <3> DEFINE cell == SweptCell(s)
    <3>1. session'[s] = [cell EXCEPT !.at = "commits", !.rows[cell.key] = Absent,
                                     !.item = cell.rows[cell.key].drop]
      BY <2>4 DEF Take, Typed, TypeOK
    <3>2. cell \in Session
      BY <1>3
    <3> HIDE DEF cell
    <3>3. QED
      BY <3>1, <3>2 DEF Session
  <2>5. CASE \E d \in Drops : Kill(s, d)
    BY <1>3, <2>5 DEF Kill, Session, Typed, TypeOK
  <2>6. CASE \E k \in Keys : AskFloor(s, k)
    BY <1>3, <2>6 DEF AskFloor, Claims, Session, Typed, TypeOK
  <2>7. CASE AskTaken(s)
    BY <1>3, <2>7 DEF AskTaken, Session, Typed, TypeOK
  <2>8. CASE \E c \in Characters : Login(s, c)
    BY <2>8 DEF Login, Out, Typed, TypeOK
  <2>9. CASE Refuse(s)
    BY <1>3, <2>9 DEF Refuse, Session, Typed, TypeOK
  <2>10. QED
    BY <2>1, <2>2, <2>3, <2>4, <2>5, <2>6, <2>7, <2>8, <2>9 DEF Step
<1>5. s \in Live \/ Cardinality(Live) < MaxLive
  BY DEF Step, Login, Logout, Kill, Remember, ReadStanding, Admit, AskFloor, AskTaken, Take,
         Refuse, Commit, Live
<1>6. QED
  BY <1>2, <1>4, <1>5

\* So every other one is out, before the step and after it.
LEMMA OthersAreOut ==
  ASSUME Typed, MaxLive = 1, Serial, NEW s \in Sessions, Step(s)
  PROVE  \A t \in Sessions \ {s} : session[t] = Out /\ session'[t] = Out
<1>1. \A t \in Sessions \ {s} : session[t] = Out
  <2>1. CASE s \in Live
    BY <2>1 DEF Serial, Live
  <2>2. CASE Cardinality(Live) < MaxLive
    <3>1. ASSUME NEW t \in Live PROVE FALSE
      <4>1. Live = {t}
        BY <3>1 DEF Serial
      <4>2. QED
        BY <2>2, <4>1, FS_Singleton
    <3>2. QED
      BY <3>1 DEF Serial, Live
  <2>3. QED
    BY <2>1, <2>2, StepOfOne
<1>2. QED
  BY <1>1, StepOfOne

\* Served one at a time, a session has the ground to itself.
LEMMA NextSerial ==
  ASSUME Typed, MaxLive = 1, Serial, [Next]_vars
  PROVE  Serial'
<1>1. CASE UNCHANGED vars
  BY <1>1 DEF vars, Serial, Live, Alone, Keyed, Unfallen, Spent, Hand, At, OneItemPerDrop,
              StandingIsNotCarried
<1>2. ASSUME NEW s \in Sessions, Step(s) PROVE Serial'
  <2>1. Alone(s)'
    BY <1>2, StepAlone DEF Serial
  <2>3. \A t \in Sessions \ {s} : session'[t] = Out
    BY <1>2, OthersAreOut
  <2>4. \A t \in Sessions : Alone(t)'
    BY <2>1, <2>3, NoneIsNothing
       DEF Alone, Keyed, Unfallen, Spent, Hand, At, Out, Absent
  <2>5. OneItemPerDrop' /\ StandingIsNotCarried'
    <3>1. \A d \in Drops : carried'[d] # 0 =>
             carried'[d] = 1 /\ \A k \in Keys : floor'[k].drop # d
      BY <2>1 DEF Alone, Spent
    <3>2. \A k \in Keys : floor'[k].drop \in Drops \cup {None}
      BY NextTyped DEF Typed, TypeOK, Row
    <3>3. QED
      BY <3>1, <3>2 DEF OneItemPerDrop, StandingIsNotCarried
  <2>6. Live' \subseteq {s}
    BY <2>3 DEF Live, Out
  <2>7. \A t \in Sessions : session'[t].at = "out" => session'[t] = Out
    BY <1>2, <2>3, StepOfOne
  <2>8. QED
    BY <2>4, <2>5, <2>6, <2>7 DEF Serial
<1>3. CASE Tick
  <2>1. \A t \in Sessions : Alone(t)'
    BY <1>3, TickAlone DEF Serial
  <2>2. OneItemPerDrop' /\ StandingIsNotCarried'
    BY <1>3 DEF Serial, Tick, OneItemPerDrop, StandingIsNotCarried, Aged, Typed, TypeOK, Row
  <2>3. \A t \in Sessions : session'[t] = [session[t] EXCEPT !.rows = Aged(@)]
    BY <1>3 DEF Tick
  <2>4. Aged(Out.rows) = Out.rows
    BY DEF Aged, Less, Out, Absent
  <2>5. \A t \in Sessions : session'[t].at = session[t].at
    <3> SUFFICES ASSUME NEW t \in Sessions PROVE session'[t].at = session[t].at
      OBVIOUS
    <3>1. session[t] \in Session /\ session'[t] = [session[t] EXCEPT !.rows = Aged(@)]
      BY <2>3 DEF Typed, TypeOK
    <3>2. QED
      BY <3>1 DEF Session
  <2>6. [Out EXCEPT !.rows = Aged(@)] = Out
    BY <2>4 DEF Out
  <2>7. \A t \in Sessions : session'[t].at = "out" => session'[t] = Out
    BY <2>3, <2>5, <2>6 DEF Serial
  <2>8. Live' = Live
    BY <2>5 DEF Live
  <2>9. QED
    BY <2>1, <2>2, <2>7, <2>8 DEF Serial
<1>4. QED
  BY <1>1, <1>2, <1>3 DEF Next, Step

\* At first there is nothing.
LEMMA InitSerial == Init => Serial
<1> SUFFICES ASSUME Init PROVE Serial
  OBVIOUS
<1>1. Live = {}
  BY DEF Init, Live, Out
<1>2. \A s \in Sessions : Alone(s)
  BY NoneIsNothing
     DEF Init, Alone, Keyed, Unfallen, Spent, Hand, At, Out, Absent, Untaken
<1>3. OneItemPerDrop /\ StandingIsNotCarried
  BY DEF Init, OneItemPerDrop, StandingIsNotCarried, Absent
<1>4. QED
  BY <1>1, <1>2, <1>3 DEF Serial, Init

\* The invariant of sessions that follow one another.
THEOREM SerialStays == Spec => [](MaxLive = 1 => Serial)
<1>1. Init => Typed /\ (MaxLive = 1 => Serial)
  BY InitTyped, InitSerial
<1>2. Typed /\ (MaxLive = 1 => Serial) /\ [Next]_vars
        => Typed' /\ (MaxLive = 1 => Serial)'
  BY NextTyped, NextSerial
<1>3. QED
  BY <1>1, <1>2, PTL DEF Spec

\* One drop becomes at most one row of a bag as long as the accept loop serves one
\* session after another, though a key may stand for two drops.
THEOREM OneItemIsMade == Spec => [](MaxLive = 1 => OneItemPerDrop)
<1>1. Serial => OneItemPerDrop
  BY DEF Serial
<1>2. (MaxLive = 1 => Serial) => (MaxLive = 1 => OneItemPerDrop)
  BY <1>1
<1>3. QED
  BY <1>2, SerialStays, PTL

\* Then what was put in a bag does not stand on the floor either.
THEOREM TheStandingIsNotCarried == Spec => [](MaxLive = 1 => StandingIsNotCarried)
<1>1. (MaxLive = 1 => Serial) => (MaxLive = 1 => StandingIsNotCarried)
  BY DEF Serial
<1>2. QED
  BY <1>1, SerialStays, PTL

-----------------------------------------------------------------------------
(* The ground implements DropOwnership *)

\* Where a drop can be reached when s is the only session.
ReachedBy(s, d) ==
    \/ \E k \in Keys : floor[k].drop = d
    \/ session[s].claim = d
    \/ \E k \in Keys : session[s].rows[k].drop = d \/ session[s].standing[k] = d

Held(d) == \E s \in Sessions : InHand(s, d)

\* Who holds a drop is the one who killed for it.
HandsAreKillers ==
    \A s \in Sessions :
        session[s].at = "commits" => killer[session[s].item] = session[s].character

\* A step of s that neither drops nor takes nor commits: nothing comes to a place
\* from which it could be reached, if it could not be before.
Quiet(s) ==
    /\ killer' = killer /\ carried' = carried
    /\ session[s].at # "commits" /\ session'[s].at # "commits"
    /\ \A d \in Drops : ReachedBy(s, d)' => ReachedBy(s, d)

\* Connecting and disconnecting are quiet.
LEMMA ComingAndGoing ==
  ASSUME Typed, NEW s \in Sessions, Logout(s) \/ \E c \in Characters : Login(s, c)
  PROVE  Quiet(s)
<1>1. session[s].at # "commits" /\ UNCHANGED <<floor, killer, carried>>
  BY DEF Login, Logout
<1>2. session'[s] = Out \/ \E c \in Characters : session'[s] = [Out EXCEPT !.at = "in",
                                                                       !.character = c]
  BY DEF Login, Logout, Typed, TypeOK
<1>3. /\ \A k \in Keys : session'[s].rows[k].drop = None /\ session'[s].standing[k] = None
      /\ session'[s].claim = None /\ session'[s].at \in {"in", "out"}
  <2>1. CASE session'[s] = Out
    BY <2>1 DEF Out, Absent
  <2>2. ASSUME NEW c \in Characters, session'[s] = [Out EXCEPT !.at = "in", !.character = c]
        PROVE  /\ \A k \in Keys : session'[s].rows[k].drop = None
                                  /\ session'[s].standing[k] = None
               /\ session'[s].claim = None /\ session'[s].at = "in"
    BY <2>2 DEF Out, Absent
  <2>3. QED
    BY <1>2, <2>1, <2>2
<1>4. QED
  BY <1>1, <1>3, NoneIsNothing DEF Quiet, ReachedBy

\* Remembering puts on the floor what is in the cell.
LEMMA RememberIsQuiet ==
  ASSUME Typed, NEW s \in Sessions, Remember(s)
  PROVE  Quiet(s)
<1> DEFINE i == session[s].key
<1>1. session[s] \in Session /\ i \in Keys /\ Swept(floor) \in [Keys -> Row]
  BY SweptFloorType DEF Remember, Typed, TypeOK, KeyIsKnown
<1>2. session'[s] = [session[s] EXCEPT !.at = "in", !.key = None]
  BY DEF Remember, Typed, TypeOK
<1>3. /\ session[s].at = "remember" /\ session'[s].at = "in"
      /\ session'[s].claim = session[s].claim
      /\ session'[s].rows = session[s].rows /\ session'[s].standing = session[s].standing
      /\ killer' = killer /\ carried' = carried
  <2>1. session[s].at = "remember" /\ killer' = killer /\ carried' = carried
    BY DEF Remember
  <2>2. QED
    BY <1>1, <1>2, <2>1 DEF Session
<1>4. \A k \in Keys : floor'[k].drop \in {None, floor[k].drop}
                        \/ floor'[k].drop = session[s].rows[i].drop
  BY <1>1, SweepMovesNothing DEF Remember
<1>5. QED
  BY <1>1, <1>3, <1>4, NoneIsNothing DEF Quiet, ReachedBy

\* Reading the floor shows what is on it.
LEMMA ReadStandingIsQuiet ==
  ASSUME Typed, NEW s \in Sessions, ReadStanding(s)
  PROVE  Quiet(s)
<1>1. session[s] \in Session
  BY DEF Typed, TypeOK
<1>2. session'[s] = [session[s] EXCEPT !.at = "admit",
                                       !.standing = [k \in Keys |-> Swept(floor)[k].drop]]
  BY DEF ReadStanding, Typed, TypeOK
<1>3. /\ session[s].at = "in" /\ killer' = killer /\ carried' = carried
      /\ floor' = Swept(floor)
  BY DEF ReadStanding
<1>4. \A k \in Keys : Swept(floor)[k].drop \in {None, floor[k].drop}
  BY SweepMovesNothing
<1>5. /\ session'[s].at = "admit" /\ session'[s].claim = session[s].claim
      /\ session'[s].rows = session[s].rows
      /\ session'[s].standing = [k \in Keys |-> Swept(floor)[k].drop]
  BY <1>1, <1>2 DEF Session
<1>6. QED
  BY <1>3, <1>4, <1>5, NoneIsNothing DEF Quiet, ReachedBy

\* Admitting brings to the cell what was read.
LEMMA AdmitIsQuiet ==
  ASSUME Typed, NEW s \in Sessions, Admit(s)
  PROVE  Quiet(s)
<1> DEFINE cell  == SweptCell(s)
           fresh == {k \in Keys : session[s].standing[k] # None /\ cell.rows[k].drop = None}
           rows  == [k \in Keys |->
                       IF k \in fresh
                         THEN [drop |-> session[s].standing[k], left |-> Lifetime]
                         ELSE cell.rows[k]]
<1>1. cell \in Session /\ cell.claim = session[s].claim
  BY SweptCellType
<1>2. PICK i : session' = [session EXCEPT ![s] =
                  [cell EXCEPT !.at = "in", !.issued = i,
                               !.standing = [k \in Keys |-> None], !.rows = rows]]
  BY DEF Admit
<1>3. \A k \in Keys : rows[k].drop \in {None, session[s].rows[k].drop, session[s].standing[k]}
  BY CellSweeps
<1>4. session[s].at = "admit" /\ floor' = floor /\ killer' = killer /\ carried' = carried
  BY DEF Admit
<1> HIDE DEF cell, rows
<1>5. /\ session'[s].at = "in" /\ session'[s].claim = cell.claim
      /\ session'[s].rows = rows /\ session'[s].standing = [k \in Keys |-> None]
  BY <1>1, <1>2 DEF Session, Typed, TypeOK
<1>6. QED
  BY <1>1, <1>3, <1>4, <1>5, NoneIsNothing DEF Quiet, ReachedBy

\* The floor hands over what is on it.
LEMMA AskFloorIsQuiet ==
  ASSUME Typed, NEW s \in Sessions, NEW k \in Keys, AskFloor(s, k)
  PROVE  Quiet(s)
<1>1. session[s] \in Session /\ Swept(floor) \in [Keys -> Row]
  BY SweptFloorType DEF Typed, TypeOK
<1>2. \A j \in Keys : Swept(floor)[j].drop \in {None, floor[j].drop}
  BY SweepMovesNothing
<1>3. session[s].at = "in" /\ killer' = killer /\ carried' = carried
  BY DEF AskFloor
<1>4. CASE Claims(s, k)
  <2> DEFINE e == Swept(floor)[k].drop
  <2>1. /\ session'[s].at = "picks" /\ session'[s].claim = e
        /\ session'[s].rows = session[s].rows /\ session'[s].standing = session[s].standing
    BY <1>1, <1>4 DEF Claims, Session, Typed, TypeOK
  <2>2. /\ \A j \in Keys : floor'[j].drop \in {None, floor[j].drop}
        /\ e = floor[k].drop /\ e # None
    BY <1>1, <1>2, <1>4 DEF Claims, Absent
  <2> HIDE DEF e
  <2>3. QED
    BY <1>3, <2>1, <2>2, NoneIsNothing DEF Quiet, ReachedBy
<1>5. CASE /\ floor' = Swept(floor)
           /\ session' = [session EXCEPT ![s].at = "asks", ![s].key = k]
  <2>1. /\ session'[s].at = "asks" /\ session'[s].claim = session[s].claim
        /\ session'[s].rows = session[s].rows /\ session'[s].standing = session[s].standing
    BY <1>1, <1>5 DEF Session, Typed, TypeOK
  <2>2. QED
    BY <1>2, <1>3, <1>5, <2>1, NoneIsNothing DEF Quiet, ReachedBy
<1>6. QED
  BY <1>4, <1>5 DEF AskFloor

\* The memory of claims shows nothing new.
LEMMA AskTakenIsQuiet ==
  ASSUME Typed, NEW s \in Sessions, AskTaken(s)
  PROVE  Quiet(s)
<1> DEFINE gone == IF taken[session[s].key].left = 0 THEN None
                   ELSE taken[session[s].key].drop
           cell == IF gone = None THEN session[s] ELSE SweptCell(s)
<1>1. /\ session[s].at = "asks" /\ session[s] \in Session
      /\ floor' = floor /\ killer' = killer /\ carried' = carried
  BY DEF AskTaken, Typed, TypeOK
<1>2. /\ cell \in Session /\ cell.claim = session[s].claim
      /\ cell.standing = session[s].standing
      /\ \A j \in Keys : cell.rows[j].drop \in {None, session[s].rows[j].drop}
  BY <1>1, SweptCellType, CellSweeps
<1>3. \/ session' = [session EXCEPT ![s] = [cell EXCEPT !.at = "in", !.key = None]]
      \/ session' = [session EXCEPT ![s] = [cell EXCEPT !.at = "picks"]]
  BY DEF AskTaken
<1> HIDE DEF cell
<1>4. /\ session'[s].rows = cell.rows /\ session'[s].standing = cell.standing
      /\ session'[s].claim = cell.claim /\ session'[s].at \in {"in", "picks"}
  <2>1. CASE session' = [session EXCEPT ![s] = [cell EXCEPT !.at = "in", !.key = None]]
    BY <1>2, <2>1 DEF Session, Typed, TypeOK
  <2>2. CASE session' = [session EXCEPT ![s] = [cell EXCEPT !.at = "picks"]]
    BY <1>2, <2>2 DEF Session, Typed, TypeOK
  <2>3. QED
    BY <1>3, <2>1, <2>2
<1>5. QED
  BY <1>1, <1>2, <1>4, NoneIsNothing DEF Quiet, ReachedBy

\* A refused pickup gives back what it had claimed.
LEMMA RefuseIsQuiet ==
  ASSUME Typed, NEW s \in Sessions, Refuse(s)
  PROVE  Quiet(s)
<1> DEFINE cell == SweptCell(s)
           d    == session[s].claim
<1>1. /\ cell \in Session /\ cell.standing = session[s].standing
      /\ session[s].at = "picks" /\ killer' = killer /\ carried' = carried
      /\ Returned(d) \/ UNCHANGED <<floor, taken>>
  BY SweptCellType, CellSweeps DEF Refuse
<1>2. \A j \in Keys : cell.rows[j].drop \in {None, session[s].rows[j].drop}
  BY CellSweeps
<1>3. session' = [session EXCEPT ![s] = [cell EXCEPT !.at = "in", !.key = None, !.claim = None]]
  BY DEF Refuse
<1> HIDE DEF cell, d
<1>4. /\ session'[s].at = "in" /\ session'[s].claim = None
      /\ session'[s].rows = cell.rows /\ session'[s].standing = cell.standing
  BY <1>1, <1>3 DEF Session, Typed, TypeOK
<1>5. \A k \in Keys : floor'[k].drop = floor[k].drop \/ floor'[k].drop = d
  <2>1. CASE UNCHANGED <<floor, taken>>
    BY <2>1
  <2>2. CASE \E k \in Keys :
               floor' = IF taken[k].floor > 0 /\ floor[k].drop = None
                          THEN [floor EXCEPT ![k] = [drop |-> d, left |-> taken[k].floor]]
                          ELSE floor
    BY <2>2 DEF Typed, TypeOK
  <2>3. QED
    BY <1>1, <2>1, <2>2 DEF Returned
<1>6. QED
  BY <1>1, <1>2, <1>4, <1>5, NoneIsNothing DEF Quiet, ReachedBy, d

\* The steps of a session by what they do to its drops.
LEMMA StepsByDrop ==
  ASSUME Typed, NEW s \in Sessions, Step(s)
  PROVE  Quiet(s) \/ (\E d \in Drops : Kill(s, d)) \/ Take(s) \/ Commit(s)
  BY ComingAndGoing, RememberIsQuiet, ReadStandingIsQuiet, AdmitIsQuiet, AskFloorIsQuiet,
     AskTakenIsQuiet, RefuseIsQuiet DEF Step

\* What a kill leaves behind.
LEMMA KillFacts ==
  ASSUME Typed, NEW s \in Sessions, NEW d \in Drops, Kill(s, d)
  PROVE  /\ session[s].at = "in" /\ session'[s].at = "remember"
         /\ killer[d] = None /\ killer' = [killer EXCEPT ![d] = session[s].character]
         /\ session[s].character \in Characters
         /\ carried' = carried
         /\ \E k \in Keys : session'[s].rows[k].drop = d
         /\ \A x \in Drops \ {d} : ReachedBy(s, x)' => ReachedBy(s, x)
<1> DEFINE cell == SweptCell(s)
           i    == cell.issued
           row  == [drop |-> d, left |-> Lifetime]
           new  == [cell EXCEPT !.at = "remember", !.key = i, !.issued = i + 1, !.rows[i] = row]
<1>1. cell \in Session /\ i \in Keys /\ cell.rows \in [Keys -> Row]
  <2>1. i \in 1..(LastKey + 1) /\ i <= LastKey
    BY SweptCellType DEF Kill, HasKey, Typed, TypeOK, Session
  <2>2. i \in Keys
    BY <2>1, KeysAreNumbers DEF Keys
  <2>3. QED
    BY <2>2, SweptCellType
<1>2. session'[s] = new
  BY DEF Kill, Typed, TypeOK
<1>3. cell.claim = session[s].claim /\ cell.standing = session[s].standing
        /\ \A k \in Keys : cell.rows[k].drop \in {None, session[s].rows[k].drop}
  BY SweptCellType, CellSweeps
<1>4. /\ session[s].at = "in" /\ killer[d] = None /\ floor' = floor /\ carried' = carried
      /\ killer' = [killer EXCEPT ![d] = session[s].character]
      /\ session[s].character \in Characters
  BY DEF Kill, Typed, KeyIsKnown
<1> HIDE DEF cell, i
<1>5. /\ session'[s].at = "remember" /\ session'[s].claim = cell.claim
      /\ session'[s].standing = cell.standing
      /\ \A k \in Keys : session'[s].rows[k] = IF k = i THEN row ELSE cell.rows[k]
  BY <1>1, <1>2 DEF Session
<1>6. session'[s].rows[i].drop = d
  BY <1>1, <1>5
<1>7. \A k \in Keys : session'[s].rows[k].drop \in {None, d, session[s].rows[k].drop}
  BY <1>3, <1>5
<1>8. \A x \in Drops \ {d} : ReachedBy(s, x)' => ReachedBy(s, x)
  BY <1>3, <1>4, <1>5, <1>7, NoneIsNothing DEF ReachedBy
<1>9. QED
  BY <1>1, <1>4, <1>5, <1>6, <1>8

\* What a take takes.
LEMMA TakeFacts ==
  ASSUME Typed, NEW s \in Sessions, Take(s)
  PROVE  \E d \in Drops :
           /\ session[s].at = "picks" /\ session'[s].at = "commits"
           /\ session'[s].item = d /\ session'[s].character = session[s].character
           /\ killer[d] = session[s].character
           /\ killer' = killer /\ carried' = carried
           /\ \E k \in Keys : session[s].rows[k].drop = d
           /\ \A x \in Drops : ReachedBy(s, x)' => ReachedBy(s, x)
<1> DEFINE cell == SweptCell(s)
           k    == session[s].key
           d    == cell.rows[k].drop
<1>1. /\ cell \in Session /\ cell.rows \in [Keys -> Row]
      /\ cell.key = k /\ cell.claim = session[s].claim /\ cell.standing = session[s].standing
      /\ cell.character = session[s].character
      /\ session[s].at = "picks" /\ k \in Keys
  BY SweptCellType, CellSweeps DEF Take, Typed, TypeOK, KeyIsKnown
<1>2. \A j \in Keys : cell.rows[j].drop \in {None, session[s].rows[j].drop}
  BY CellSweeps
<1>3. /\ d # None /\ MayTake(s, d) /\ UNCHANGED <<floor, killer, carried>>
      /\ session' = [session EXCEPT ![s] =
           [cell EXCEPT !.at = "commits", !.rows[k] = Absent, !.item = d]]
  BY <1>1 DEF Take
<1>4. d \in Drops /\ d = session[s].rows[k].drop
  BY <1>1, <1>2, <1>3 DEF Row
<1> HIDE DEF cell, k, d
<1>5. /\ session'[s].at = "commits" /\ session'[s].item = d
      /\ session'[s].character = cell.character
      /\ session'[s].claim = cell.claim /\ session'[s].standing = cell.standing
      /\ \A j \in Keys : session'[s].rows[j] = IF j = k THEN Absent ELSE cell.rows[j]
  BY <1>1, <1>3 DEF Session, Typed, TypeOK
<1>6. \A j \in Keys : session'[s].rows[j].drop \in {None, session[s].rows[j].drop}
  BY <1>2, <1>5 DEF Absent
<1>7. \A x \in Drops : ReachedBy(s, x)' => ReachedBy(s, x)
  BY <1>1, <1>3, <1>5, <1>6, NoneIsNothing DEF ReachedBy
<1>8. QED
  BY <1>1, <1>3, <1>4, <1>5, <1>7 DEF MayTake

\* What a commit settles.
LEMMA CommitFacts ==
  ASSUME Typed, NEW s \in Sessions, Alone(s), Commit(s)
  PROVE  \E d \in Drops :
           /\ session[s].at = "commits" /\ session'[s].at = "in" /\ killer' = killer
           /\ session[s].item = d /\ carried[d] = 0 /\ killer[d] # None
           /\ ~ReachedBy(s, d)'
           /\ \A x \in Drops : ReachedBy(s, x)' => ReachedBy(s, x)
           /\ carried' = carried \/ carried' = [carried EXCEPT ![d] = 1]
<1>1. session[s] \in Session /\ session[s].item \in Drops /\ session[s].at = "commits"
  BY DEF Commit, Typed, TypeOK, KeyIsKnown
<1>2. PICK d \in Drops : session[s].item = d
  BY <1>1
<1>3. carried[d] = 0 /\ killer[d] # None
  BY <1>1, <1>2 DEF Alone, Spent, Hand
<1>4. /\ floor' = floor /\ killer' = killer
      /\ session'[s] = [session[s] EXCEPT !.at = "in", !.key = None, !.claim = None,
                                          !.item = None]
      /\ carried' = carried \/ carried' = [carried EXCEPT ![d] = Counted(@ + 1)]
  BY <1>2 DEF Commit, Typed, TypeOK
<1>5. carried' = carried \/ carried' = [carried EXCEPT ![d] = 1]
  <2>1. Counted(carried[d] + 1) = 1
    BY <1>3 DEF Counted
  <2>2. QED
    BY <1>4, <2>1
<1>6. /\ session'[s].at = "in" /\ session'[s].claim = None
      /\ session'[s].rows = session[s].rows /\ session'[s].standing = session[s].standing
  BY <1>1, <1>4 DEF Session
<1>7. \A k \in Keys : /\ floor[k].drop # d /\ session[s].rows[k].drop # d
                      /\ session[s].standing[k] # d
  BY <1>1, <1>2, NoneIsNothing DEF Alone, Hand
<1>8. ~ReachedBy(s, d)'
  BY <1>4, <1>6, <1>7, NoneIsNothing DEF ReachedBy
<1>9. \A x \in Drops : ReachedBy(s, x)' => ReachedBy(s, x)
  BY <1>4, <1>6, NoneIsNothing DEF ReachedBy
<1>10. QED
  BY <1>1, <1>2, <1>3, <1>4, <1>5, <1>6, <1>8, <1>9

\* Time changes no place.
LEMMA TickFacts ==
  ASSUME Typed, Tick
  PROVE  /\ killer' = killer /\ carried' = carried
         /\ \A s \in Sessions : /\ session'[s].at = session[s].at
                                /\ session'[s].item = session[s].item
                                /\ session'[s].character = session[s].character
         /\ \A d \in Drops : Reachable(d)' => Reachable(d)
<1>1. \A rows \in [Keys -> Row] : \A k \in Keys : Aged(rows)[k].drop = rows[k].drop
  BY DEF Aged, Row
<1>2. killer' = killer /\ carried' = carried /\ \A k \in Keys : floor'[k].drop = floor[k].drop
  BY <1>1 DEF Tick, Typed, TypeOK
<1>3. ASSUME NEW s \in Sessions
      PROVE  /\ session'[s].at = session[s].at /\ session'[s].item = session[s].item
             /\ session'[s].character = session[s].character
             /\ session'[s].claim = session[s].claim
             /\ session'[s].standing = session[s].standing
             /\ \A k \in Keys : session'[s].rows[k].drop = session[s].rows[k].drop
  <2>1. session[s] \in Session /\ session[s].rows \in [Keys -> Row]
    BY DEF Typed, TypeOK, Session
  <2>2. session'[s] = [session[s] EXCEPT !.rows = Aged(@)]
    BY DEF Tick
  <2>3. QED
    BY <1>1, <2>1, <2>2 DEF Session
<1>4. QED
  BY <1>2, <1>3 DEF Reachable

\* When s is the only session, what holds of a drop holds of it at s.
OthersOut(s) == \A t \in Sessions \ {s} : session[t] = Out

Focus(s) ==
    \A d \in Drops : /\ Held(d) <=> InHand(s, d)
                     /\ Reachable(d) <=> ReachedBy(s, d)

LEMMA Focused == \A s \in Sessions : OthersOut(s) => Focus(s)
<1> SUFFICES ASSUME NEW s \in Sessions, OthersOut(s), NEW d \in Drops
             PROVE  /\ Held(d) <=> InHand(s, d)
                    /\ Reachable(d) <=> ReachedBy(s, d)
  BY DEF Focus
<1>1. ASSUME NEW t \in Sessions \ {s}
      PROVE  /\ session[t].at # "commits" /\ session[t].claim # d
             /\ \A k \in Keys : session[t].rows[k].drop # d /\ session[t].standing[k] # d
  BY NoneIsNothing DEF OthersOut, Out, Absent
<1>2. Held(d) <=> InHand(s, d)
  BY <1>1 DEF Held, InHand
<1>3. Reachable(d) <=> ReachedBy(s, d)
  BY <1>1 DEF Reachable, ReachedBy
<1>4. QED
  BY <1>2, <1>3

\* The hand of a drop that is held is its killer's.
HandsAreRight == \A d \in Drops : HandOf(d) = IF Held(d) THEN killer[d] ELSE None

LEMMA HandIs == HandsAreKillers => HandsAreRight
<1> SUFFICES ASSUME HandsAreKillers, NEW d \in Drops
             PROVE  HandOf(d) = IF Held(d) THEN killer[d] ELSE None
  BY DEF HandsAreRight
<1>1. CASE Held(d)
  <2> DEFINE s == CHOOSE s \in Sessions : InHand(s, d)
  <2>1. s \in Sessions /\ InHand(s, d)
    BY <1>1 DEF Held
  <2>2. HandOf(d) = session[s].character
    BY <1>1 DEF HandOf, Held
  <2> HIDE DEF s
  <2>3. QED
    BY <1>1, <2>1, <2>2 DEF HandsAreKillers, InHand
<1>2. CASE ~Held(d)
  BY <1>2 DEF HandOf, Held
<1>3. QED
  BY <1>1, <1>2

\* A take is the killer's, and a kill takes no drop from its killer.
LEMMA NextHands ==
  ASSUME Typed, HandsAreKillers, \A s \in Sessions : Alone(s), [Next]_vars
  PROVE  HandsAreKillers'
<1>1. CASE UNCHANGED vars
  BY <1>1 DEF vars, HandsAreKillers
<1>2. CASE Tick
  BY <1>2, TickFacts DEF HandsAreKillers
<1>3. ASSUME NEW s \in Sessions, Step(s) PROVE HandsAreKillers'
  <2>1. \A t \in Sessions \ {s} : session'[t] = session[t]
    BY <1>3, StepOfOne
  <2>2. \A t \in Sessions : session[t].at = "commits" =>
          session[t].item \in Drops /\ killer[session[t].item] \in Characters
    BY DEF HandsAreKillers, Typed, KeyIsKnown
  <2>3. CASE Quiet(s)
    BY <2>1, <2>3 DEF Quiet, HandsAreKillers
  <2>4. ASSUME NEW d \in Drops, Kill(s, d) PROVE HandsAreKillers'
    <3>1. /\ killer[d] = None /\ killer' = [killer EXCEPT ![d] = session[s].character]
          /\ session'[s].at = "remember"
      BY <2>4, KillFacts
    <3>2. \A t \in Sessions : session[t].at = "commits" => session[t].item # d
      BY <2>2, <3>1, NoneIsNothing
    <3>3. QED
      BY <2>1, <2>2, <3>1, <3>2 DEF HandsAreKillers, Typed, TypeOK
  <2>5. CASE Take(s)
    BY <2>1, <2>5, TakeFacts DEF HandsAreKillers
  <2>6. CASE Commit(s)
    BY <2>1, <2>6, CommitFacts DEF HandsAreKillers
  <2>7. QED
    BY <1>3, <2>3, <2>4, <2>5, <2>6, StepsByDrop
<1>4. QED
  BY <1>1, <1>2, <1>3 DEF Next, Step

\* Where nothing new is reached, a drop stays where it is or is lost.
LEMMA PlaceStays ==
  ASSUME NEW d \in Drops, killer'[d] = killer[d], carried'[d] = carried[d],
         Held(d)' <=> Held(d), Reachable(d)' => Reachable(d)
  PROVE  PlaceOf(d)' = PlaceOf(d) \/ (PlaceOf(d) = "fallen" /\ PlaceOf(d)' = "gone")
BY DEF PlaceOf, Held

\* The drops a step loses off the ground.
Lost == {d \in Drops : PlaceOf(d) = "fallen" /\ PlaceOf(d)' = "gone"}

\* What happens to no drop in particular is a loss of some.
LEMMA QuietRefines ==
  ASSUME HandsAreRight, HandsAreRight', killer' = killer, carried' = carried,
         \A d \in Drops : (Held(d)' <=> Held(d)) /\ (Reachable(d)' => Reachable(d))
  PROVE  Ownership!Next
<1>1. \A d \in Drops :
        PlaceOf(d)' = PlaceOf(d) \/ (PlaceOf(d) = "fallen" /\ PlaceOf(d)' = "gone")
  BY PlaceStays
<1>2. \A d \in Drops : PlaceOf(d)' = IF d \in Lost THEN "gone" ELSE PlaceOf(d)
  BY <1>1 DEF Lost
<1>3. \A d \in Drops : HandOf(d)' = HandOf(d)
  BY DEF HandsAreRight
<1>4. \A d \in Lost : HandOf(d) = None
  BY DEF HandsAreRight, Lost, PlaceOf, Held
<1>5. Lost \in SUBSET Ownership!Losable
  BY DEF Lost, Ownership!Losable
<1>6. Ownership!Lose(Lost)
  BY <1>2, <1>3, <1>4 DEF Ownership!Lose
<1>7. QED
  BY <1>5, <1>6 DEF Ownership!Next

\* What a step finds and leaves at the only session, it finds and leaves everywhere.
LEMMA FocusedThen == \A s \in Sessions : OthersOut(s)' => Focus(s)'
<1>1. (\A s \in Sessions : OthersOut(s) => Focus(s))'
  BY Focused, PTL
<1>2. QED
  BY <1>1

\* The drops that d is not among stay where they are or are lost.
LEMMA OthersStay ==
  ASSUME NEW d \in Drops,
         \A x \in Drops \ {d} :
            /\ killer'[x] = killer[x] /\ carried'[x] = carried[x]
            /\ Held(x)' <=> Held(x)
            /\ Reachable(x)' => Reachable(x)
  PROVE  \A x \in Drops \ {d} : PlaceOf(x)' = IF x \in Lost THEN "gone" ELSE PlaceOf(x)
<1>1. \A x \in Drops \ {d} :
        PlaceOf(x)' = PlaceOf(x) \/ (PlaceOf(x) = "fallen" /\ PlaceOf(x)' = "gone")
  BY PlaceStays
<1>2. QED
  BY <1>1 DEF Lost

\* A kill is the fall of one drop.
LEMMA KillRefines ==
  ASSUME Typed, HandsAreRight, HandsAreRight', NEW s \in Sessions, OthersOut(s), OthersOut(s)',
         Alone(s), NEW d \in Drops, Kill(s, d)
  PROVE  Ownership!Next
<1>1. Focus(s) /\ Focus(s)'
  BY Focused, FocusedThen
<1>2. /\ session[s].at = "in" /\ session'[s].at = "remember"
      /\ killer[d] = None /\ killer' = [killer EXCEPT ![d] = session[s].character]
      /\ session[s].character \in Characters /\ carried' = carried
      /\ \E k \in Keys : session'[s].rows[k].drop = d
      /\ \A x \in Drops \ {d} : ReachedBy(s, x)' => ReachedBy(s, x)
  BY KillFacts
<1>3. \A x \in Drops : ~Held(x) /\ ~Held(x)'
  BY <1>1, <1>2 DEF Focus, InHand
<1>4. \A x \in Drops : HandOf(x) = None /\ HandOf(x)' = None
  BY <1>3 DEF HandsAreRight
<1>5. \A x \in Drops \ {d} : PlaceOf(x)' = IF x \in Lost THEN "gone" ELSE PlaceOf(x)
  <2>1. \A x \in Drops \ {d} : killer'[x] = killer[x] /\ carried'[x] = carried[x]
                                 /\ (Reachable(x)' => Reachable(x))
    BY <1>1, <1>2 DEF Focus, Typed, TypeOK
  <2>2. QED
    BY <1>3, <2>1, OthersStay
<1>6. PlaceOf(d) = "unfallen"
  BY <1>2 DEF PlaceOf
<1>7. PlaceOf(d)' = "fallen"
  <2>1. killer'[d] \in Characters /\ carried'[d] = 0
    BY <1>2 DEF Alone, Unfallen, Typed, TypeOK
  <2>2. Reachable(d)'
    BY <1>1, <1>2 DEF Focus, ReachedBy
  <2>3. QED
    BY <1>3, <2>1, <2>2, NoneIsNothing DEF PlaceOf, Held
<1>8. Lost \in SUBSET Ownership!Losable
  BY DEF Lost, Ownership!Losable
<1>9. Ownership!Fall(d, Lost)
  BY <1>2, <1>4, <1>5, <1>6, <1>7 DEF Ownership!Fall, Ownership!Moved
<1>10. QED
  BY <1>8, <1>9 DEF Ownership!Next

\* A take brings one drop from the ground to the hand of its killer.
LEMMA TakeRefines ==
  ASSUME Typed, HandsAreRight, HandsAreRight', NEW s \in Sessions, OthersOut(s), OthersOut(s)',
         Alone(s), Take(s)
  PROVE  Ownership!Next
<1>1. Focus(s) /\ Focus(s)'
  BY Focused, FocusedThen
<1>2. PICK d \in Drops :
        /\ session[s].at = "picks" /\ session'[s].at = "commits"
        /\ session'[s].item = d /\ killer[d] = session[s].character
        /\ killer' = killer /\ carried' = carried
        /\ \E k \in Keys : session[s].rows[k].drop = d
        /\ \A x \in Drops : ReachedBy(s, x)' => ReachedBy(s, x)
  BY TakeFacts
<1>3. killer[d] \in Characters /\ carried[d] = 0
  BY <1>2 DEF Alone, Spent, Typed, KeyIsKnown
<1>4. /\ \A x \in Drops : ~Held(x)
      /\ \A x \in Drops \ {d} : ~Held(x)'
      /\ Held(d)'
  BY <1>1, <1>2 DEF Focus, InHand
<1>5. /\ \A x \in Drops : HandOf(x) = None
      /\ \A x \in Drops \ {d} : HandOf(x)' = None
      /\ HandOf(d)' = killer[d]
  BY <1>2, <1>4 DEF HandsAreRight
<1>6. \A x \in Drops \ {d} : PlaceOf(x)' = IF x \in Lost THEN "gone" ELSE PlaceOf(x)
  <2>1. \A x \in Drops \ {d} : Reachable(x)' => Reachable(x)
    BY <1>1, <1>2 DEF Focus
  <2>2. QED
    BY <1>2, <1>4, <2>1, OthersStay
<1>7. PlaceOf(d) = "fallen"
  <2>1. Reachable(d)
    BY <1>1, <1>2 DEF Focus, ReachedBy
  <2>2. QED
    BY <1>3, <1>4, <2>1, NoneIsNothing DEF PlaceOf, Held
<1>8. PlaceOf(d)' = "in hand"
  BY <1>2, <1>3, <1>4, NoneIsNothing DEF PlaceOf, Held
<1>9. Lost \in SUBSET Ownership!Losable
  BY DEF Lost, Ownership!Losable
<1>10. Ownership!PickUp(d, Lost)
  BY <1>2, <1>5, <1>6, <1>7, <1>8 DEF Ownership!PickUp, Ownership!Moved
<1>11. QED
  BY <1>9, <1>10 DEF Ownership!Next

\* A commit makes a row of the drop in the hand, or loses it.
LEMMA CommitRefines ==
  ASSUME Typed, HandsAreRight, HandsAreRight', NEW s \in Sessions, OthersOut(s), OthersOut(s)',
         Alone(s), Commit(s)
  PROVE  Ownership!Next
<1>1. Focus(s) /\ Focus(s)'
  BY Focused, FocusedThen
<1>2. PICK d \in Drops :
        /\ session[s].at = "commits" /\ session'[s].at = "in" /\ killer' = killer
        /\ session[s].item = d /\ carried[d] = 0 /\ killer[d] # None
        /\ ~ReachedBy(s, d)'
        /\ \A x \in Drops : ReachedBy(s, x)' => ReachedBy(s, x)
        /\ carried' = carried \/ carried' = [carried EXCEPT ![d] = 1]
  BY CommitFacts
<1>3. /\ \A x \in Drops : ~Held(x)'
      /\ \A x \in Drops \ {d} : ~Held(x)
      /\ Held(d)
  BY <1>1, <1>2 DEF Focus, InHand
<1>4. /\ \A x \in Drops : HandOf(x)' = None
      /\ \A x \in Drops \ {d} : HandOf(x) = None
  BY <1>3 DEF HandsAreRight
<1>5. \A x \in Drops \ {d} : PlaceOf(x)' = IF x \in Lost THEN "gone" ELSE PlaceOf(x)
  <2>1. \A x \in Drops \ {d} : carried'[x] = carried[x] /\ (Reachable(x)' => Reachable(x))
    BY <1>1, <1>2 DEF Focus, Typed, TypeOK
  <2>2. QED
    BY <1>2, <1>3, <2>1, OthersStay
<1>6. PlaceOf(d) = "in hand"
  BY <1>2, <1>3 DEF PlaceOf, Held
<1>7. carried[d] = 0 /\ d \in DOMAIN carried
  BY <1>2 DEF Typed, TypeOK
<1>8. Lost \in SUBSET Ownership!Losable /\ d \in Ownership!Losable
  BY <1>6 DEF Lost, Ownership!Losable
<1>9. CASE carried' = [carried EXCEPT ![d] = 1]
  <2>1. PlaceOf(d)' = "kept"
    BY <1>2, <1>3, <1>7, <1>9 DEF PlaceOf, Held
  <2>2. Ownership!Keep(d, Lost)
    <3>1. carried' = [carried EXCEPT ![d] = @ + 1]
      BY <1>7, <1>9
    <3>2. \A x \in Drops : HandOf(x)' = IF x = d THEN None ELSE HandOf(x)
      BY <1>4
    <3>3. \A x \in Drops :
            PlaceOf(x)' = IF x = d THEN "kept" ELSE IF x \in Lost THEN "gone" ELSE PlaceOf(x)
      BY <1>5, <2>1
    <3>4. QED
      BY <1>2, <1>6, <3>1, <3>2, <3>3 DEF Ownership!Keep, Ownership!Moved
  <2>3. QED
    BY <1>8, <2>2 DEF Ownership!Next
<1>10. CASE carried' = carried
  <2>1. PlaceOf(d)' = "gone"
    <3>1. ~Reachable(d)'
      BY <1>1, <1>2 DEF Focus
    <3>2. QED
      BY <1>2, <1>3, <1>10, <3>1 DEF PlaceOf, Held
  <2>2. \A x \in Drops : PlaceOf(x)' = IF x \in Lost \cup {d} THEN "gone" ELSE PlaceOf(x)
    BY <1>5, <2>1
  <2>3. \A x \in Drops : HandOf(x)' = IF x \in Lost \cup {d} THEN None ELSE HandOf(x)
    BY <1>4
  <2>4. Ownership!Lose(Lost \cup {d})
    BY <1>2, <1>10, <2>2, <2>3 DEF Ownership!Lose
  <2>5. Lost \cup {d} \in SUBSET Ownership!Losable
    BY <1>8
  <2>6. QED
    BY <2>4, <2>5 DEF Ownership!Next
<1>11. QED
  BY <1>2, <1>9, <1>10

\* At first there is no drop.
LEMMA InitRefines == Init => HandsAreKillers /\ Ownership!Init
<1> SUFFICES ASSUME Init PROVE HandsAreKillers /\ Ownership!Init
  OBVIOUS
<1>1. \A s \in Sessions : session[s].at = "out"
  BY DEF Init, Out
<1>2. \A d \in Drops : PlaceOf(d) = "unfallen" /\ HandOf(d) = None
  BY <1>1 DEF Init, PlaceOf, HandOf, InHand
<1>3. HandsAreKillers
  BY <1>1 DEF HandsAreKillers
<1>4. QED
  BY <1>2, <1>3 DEF Init, Ownership!Init

\* Served one at a time, every step is a step of the abstract ground or none.
LEMMA NextRefines ==
  ASSUME Typed, MaxLive = 1, Serial, HandsAreKillers, HandsAreKillers', [Next]_vars
  PROVE  [Ownership!Next]_Ownership!dropVars
<1>1. HandsAreRight /\ HandsAreRight'
  <2>1. (HandsAreKillers => HandsAreRight)'
    BY HandIs, PTL
  <2>2. QED
    BY <2>1, HandIs
<1>2. CASE UNCHANGED vars
  BY <1>2 DEF vars, Ownership!dropVars, PlaceOf, HandOf, InHand, Reachable
<1>3. CASE Tick
  <2>1. \A d \in Drops : Held(d)' <=> Held(d)
    BY <1>3, TickFacts DEF Held, InHand
  <2>2. QED
    BY <1>1, <1>3, <2>1, TickFacts, QuietRefines
<1>4. ASSUME NEW s \in Sessions, Step(s) PROVE Ownership!Next
  <2>1. OthersOut(s) /\ OthersOut(s)' /\ Alone(s)
    BY <1>4, OthersAreOut DEF OthersOut, Serial
  <2>2. CASE Quiet(s)
    <3>1. Focus(s) /\ Focus(s)'
      BY <2>1, Focused, FocusedThen
    <3>2. \A d \in Drops : (Held(d)' <=> Held(d)) /\ (Reachable(d)' => Reachable(d))
      BY <2>2, <3>1 DEF Quiet, Focus, InHand
    <3>3. QED
      BY <1>1, <2>2, <3>2, QuietRefines DEF Quiet
  <2>3. QED
    BY <1>1, <1>4, <2>1, <2>2, KillRefines, TakeRefines, CommitRefines, StepsByDrop
<1>5. QED
  BY <1>2, <1>3, <1>4 DEF Next, Step

\* The floor, the cells and the pickup keep what DropOwnership promises as long as
\* the accept loop serves one session after another: a drop goes to the hand of its
\* killer only, becomes one row or is lost, and never lies on the ground again.
THEOREM OwnershipIsImplemented == ASSUME MaxLive = 1 PROVE Spec => ImplementsOwnership
<1>1. Init => Typed /\ Serial /\ HandsAreKillers /\ Ownership!Init
  BY InitTyped, InitSerial, InitRefines
<1>2. Typed /\ Serial /\ HandsAreKillers /\ [Next]_vars
        => Typed' /\ Serial' /\ HandsAreKillers'
  BY NextTyped, NextSerial, NextHands DEF Serial
<1>3. Typed /\ Serial /\ HandsAreKillers /\ HandsAreKillers' /\ [Next]_vars
        => [Ownership!Next]_Ownership!dropVars
  BY NextRefines
<1>4. QED
  BY <1>1, <1>2, <1>3, PTL DEF Spec, ImplementsOwnership, Ownership!OwnershipSpec
=============================================================================
