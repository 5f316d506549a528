--------------------------- MODULE BackpackProofs ---------------------------
(* Proofs about Backpack, for any connections, slots, requests and bounds. *)
EXTENDS Backpack, FiniteSetTheorems, FunctionTheorems, WellFoundedInduction,
        TLAPS

-----------------------------------------------------------------------------
(* Bags *)

\* What a bag can be whatever the counter says.
Sound(bag) ==
    /\ bag \in SUBSET Item
    /\ \A r, o \in bag : r.identity = o.identity \/ r.slot = o.slot => r = o

\* The new bag has no identity that the old one did not have, and is not empty.
Derived(new, old) ==
    /\ new # {}
    /\ \A r \in new : \E o \in old : o.identity = r.identity

\* The merged birth bag, written out.
LEMMA MergedBagIs ==
    MergedBag = {Row(1, 1, 2, 0), Row(2, 2, 1, 1),
                 Row(4, 3, 1, 3)}
  <1>1. (CHOOSE r \in InitialBag : r.identity = 1) = Row(1, 1, 1, 0)
    BY DEF InitialBag, Row
  <1>2. (CHOOSE r \in InitialBag : r.identity = 3) = Row(3, 1, 1, 2)
    BY DEF InitialBag, Row
  <1>3. [Row(1, 1, 1, 0) EXCEPT !.quantity =
            Row(1, 1, 1, 0).quantity + Row(3, 1, 1, 2).quantity]
          = Row(1, 1, 2, 0)
    BY DEF Row
  <1>4. MergedBag = (InitialBag \ {Row(1, 1, 1, 0), Row(3, 1, 1, 2)})
                      \cup {Row(1, 1, 2, 0)}
    BY <1>1, <1>2, <1>3 DEF MergedBag, Merged
  <1> QED
    BY <1>4 DEF InitialBag, Row

\* The same for the bag of the slot-2 hypothesis.
LEMMA Slot2BagIs ==
    Slot2Bag = {Row(1, 1, 2, 2), Row(2, 2, 1, 1),
                Row(4, 3, 1, 3)}
  BY MergedBagIs DEF Slot2Bag, Row

\* The three fixed bags are sound.
LEMMA FixedBags ==
    /\ Sound(InitialBag) /\ Sound(MergedBag) /\ Sound(Slot2Bag)
    /\ Derived(MergedBag, InitialBag) /\ Derived(Slot2Bag, MergedBag)
    /\ \A r \in InitialBag \cup MergedBag : r.identity \in 1..4
  <1>1. Sound(InitialBag)
    BY SlotsHoldTheBirthBag, QuantitiesAreNumbers
       DEF Sound, InitialBag, Item, Row, Slots
  <1>2. Sound(MergedBag)
    BY MergedBagIs, SlotsHoldTheBirthBag, QuantitiesAreNumbers
       DEF Sound, Item, Row, Slots
  <1>3. Sound(Slot2Bag)
    BY Slot2BagIs, SlotsHoldTheBirthBag, QuantitiesAreNumbers
       DEF Sound, Item, Row, Slots
  <1>4. Derived(MergedBag, InitialBag)
    BY MergedBagIs DEF Derived, InitialBag, Row
  <1>5. Derived(Slot2Bag, MergedBag)
    BY MergedBagIs, Slot2BagIs DEF Derived, Row
  <1>6. \A r \in InitialBag \cup MergedBag : r.identity \in 1..4
    BY MergedBagIs DEF InitialBag, Row
  <1> QED
    BY <1>1, <1>2, <1>3, <1>4, <1>5, <1>6

\* A move to a free slot.
LEMMA MovedIsSound ==
    ASSUME NEW bag, Sound(bag), NEW i, NEW s, CanMove(bag, i, s)
    PROVE  Sound(Moved(bag, i, s)) /\ Derived(Moved(bag, i, s), bag)
  <1>1. s \in Slots /\ \A r \in bag : r.slot # s
    BY DEF CanMove, IsFree
  <1> DEFINE f(x) == IF x.identity = i THEN [x EXCEPT !.slot = s] ELSE x
  <1>2. Moved(bag, i, s) = {f(x) : x \in bag}
    BY DEF Moved
  <1>3. \A x \in bag : /\ f(x) \in Item
                       /\ f(x).identity = x.identity
                       /\ f(x).slot = IF x.identity = i THEN s ELSE x.slot
    BY <1>1 DEF Sound, Item
  <1>4. \A x, y \in bag : f(x).slot = f(y).slot => x = y
    BY <1>1, <1>3 DEF Sound
  <1> HIDE DEF f
  <1>5. Sound(Moved(bag, i, s))
    BY <1>2, <1>3, <1>4 DEF Sound
  <1>6. Derived(Moved(bag, i, s), bag)
    BY <1>2, <1>3 DEF Derived, CanMove
  <1> QED
    BY <1>5, <1>6

\* A swap with the row of an occupied slot.
LEMMA SwappedIsSound ==
    ASSUME NEW bag, Sound(bag), NEW i, NEW s, CanSwap(bag, i, s)
    PROVE  Sound(Swapped(bag, i, s)) /\ Derived(Swapped(bag, i, s), bag)
  <1>1. PICK r \in bag, o \in bag : r.identity = i /\ o.slot = s /\ r # o
    BY DEF CanSwap
  <1>2. (CHOOSE x \in bag : x.identity = i) = r
    BY <1>1 DEF Sound
  <1> DEFINE f(x) == IF x.identity = i THEN [x EXCEPT !.slot = s]
                     ELSE IF x.slot = s THEN [x EXCEPT !.slot = r.slot] ELSE x
  <1>3. Swapped(bag, i, s) = {f(x) : x \in bag}
    BY <1>2 DEF Swapped
  <1>4. r.slot \in Slots /\ s \in Slots
    BY <1>1 DEF Sound, Item
  <1>5. \A x \in bag : /\ f(x) \in Item
                       /\ f(x).identity = x.identity
                       /\ f(x).slot = IF x.identity = i THEN s
                                      ELSE IF x.slot = s THEN r.slot ELSE x.slot
    BY <1>4 DEF Sound, Item
  <1>6. \A x, y \in bag : f(x).identity = f(y).identity => x = y
    BY <1>5 DEF Sound
  <1>7. \A x, y \in bag : f(x).slot = f(y).slot => x = y
    BY <1>1, <1>5 DEF Sound
  <1> HIDE DEF f
  <1>8. Sound(Swapped(bag, i, s))
    BY <1>3, <1>5, <1>6, <1>7 DEF Sound
  <1>9. Derived(Swapped(bag, i, s), bag)
    BY <1>1, <1>3, <1>5 DEF Derived
  <1> QED
    BY <1>8, <1>9

\* A merge into the row of an occupied slot: the sum fits.
LEMMA MergedIntoIsSound ==
    ASSUME NEW bag, Sound(bag), NEW i, NEW s, CanMergeInto(bag, i, s)
    PROVE  Sound(MergedInto(bag, i, s)) /\ Derived(MergedInto(bag, i, s), bag)
  <1>1. PICK r \in bag, o \in bag :
          /\ r.identity = i /\ o.slot = s /\ r # o
          /\ r.quantity + o.quantity <= MaxQuantity
    BY DEF CanMergeInto
  <1>2. (CHOOSE x \in bag : x.identity = i) = r
    BY <1>1 DEF Sound
  <1> DEFINE f(x) == IF x.slot = s THEN [x EXCEPT !.quantity = @ + r.quantity]
                     ELSE x
  <1>3. MergedInto(bag, i, s) = {f(x) : x \in bag \ {r}}
    BY <1>2 DEF MergedInto
  <1>4. r.quantity \in 1..MaxQuantity /\ MaxQuantity \in Nat
    BY <1>1, QuantitiesAreNumbers DEF Sound, Item
  <1>5. \A x \in bag : x.slot = s => x = o
    BY <1>1 DEF Sound
  <1>6. o.quantity + r.quantity \in 1..MaxQuantity
    BY <1>1, <1>4 DEF Sound, Item
  <1>7. \A x \in bag \ {r} : /\ f(x) \in Item
                             /\ f(x).identity = x.identity
                             /\ f(x).slot = x.slot
    BY <1>5, <1>6 DEF Sound, Item
  <1> HIDE DEF f
  <1>8. Sound(MergedInto(bag, i, s))
    BY <1>3, <1>7 DEF Sound
  <1>9. Derived(MergedInto(bag, i, s), bag)
    BY <1>1, <1>3, <1>7 DEF Derived
  <1> QED
    BY <1>8, <1>9
-----------------------------------------------------------------------------
(* The inductive invariant *)

\* The counter is past the birth bag, and no bag is empty.
CounterIsPastBirth == next >= 5 /\ items # {}

\* A connection that holds the lease past its precheck allocates from the rows.
CellsAreCurrent ==
    \A c \in Connections :
        conn[c].at = "checked" /\ HoldsLease(c)
            => conn[c].cell = items /\ IsNextIdentity(conn[c].cell, next)

\* A mint or a pickup that is about to commit has composed its row.
Composed == [identity : Nat, template : Nat \ {0}, quantity : Nat, slot : Slots]

ItemsAreComposed ==
    \A c \in Connections : conn[c].at \in {"minting", "taken"}
                             => conn[c].item \in Composed

RowsAreSound == TypeOK /\ BagIsSound /\ CounterIsPastBirth /\ ItemsAreComposed

Inv ==
    /\ RowsAreSound
    /\ MemoryIsCurrent /\ CommitsAreExpected
    /\ CellsAreCurrent /\ TakenRowsCommit /\ OneCell

\* A rearrangement replaces the rows the lease holder has in memory by a sound
\* bag of the same items, and the answer had been composed for that bag if
\* memory was current.
LEMMA RearrangedRows ==
    ASSUME RowsAreSound, NEW c \in Connections, Rearrange(c)
    PROVE  \E bag, expected :
             /\ Sound(bag) /\ Derived(bag, items)
             /\ conn[c].at = "in" /\ HoldsLease(c)
             /\ Rearranged(c, bag, expected)
             /\ conn[c].bag = items => bag = expected
             /\ IsKnown(items)
             /\ profile = "none" => items = InitialBag /\ bag = MergedBag
  <1>1. Sound(items)
    BY DEF RowsAreSound, TypeOK, BagIsSound, Sound
  <1>2. IsKnown(InitialBag) /\ IsKnown(MergedBag)
    BY DEF IsKnown
  <1>3. CASE MergeV111(c)
    BY <1>2, <1>3, FixedBags DEF MergeV111, MergedBag
  <1>4. CASE MoveToSlot2(c)
    BY <1>2, <1>4, FixedBags DEF MoveToSlot2, MayMove
  <1>5. ASSUME NEW i, NEW s, MoveItem(c, i, s)
        PROVE  /\ Sound(Moved(items, i, s)) /\ Derived(Moved(items, i, s), items)
               /\ conn[c].at = "in" /\ HoldsLease(c)
               /\ Rearranged(c, Moved(items, i, s), Moved(conn[c].bag, i, s))
               /\ IsKnown(items) /\ profile # "none"
    BY <1>1, <1>5, MovedIsSound DEF MoveItem, CanMove, MayMove
  <1>6. ASSUME NEW i, NEW s, SwapItem(c, i, s)
        PROVE  /\ Sound(Swapped(items, i, s))
               /\ Derived(Swapped(items, i, s), items)
               /\ conn[c].at = "in" /\ HoldsLease(c)
               /\ Rearranged(c, Swapped(items, i, s), Swapped(conn[c].bag, i, s))
               /\ IsKnown(items) /\ profile # "none"
    BY <1>1, <1>6, SwappedIsSound DEF SwapItem, CanSwap
  <1>7. ASSUME NEW i, NEW s, MergeItem(c, i, s)
        PROVE  /\ Sound(MergedInto(items, i, s))
               /\ Derived(MergedInto(items, i, s), items)
               /\ conn[c].at = "in" /\ HoldsLease(c)
               /\ Rearranged(c, MergedInto(items, i, s),
                                MergedInto(conn[c].bag, i, s))
               /\ IsKnown(items) /\ profile # "none"
    BY <1>1, <1>7, MergedIntoIsSound DEF MergeItem, CanMergeInto
  <1>8. CASE \E r \in Requests : \/ MoveItem(c, r[1], r[2])
                                 \/ SwapItem(c, r[1], r[2])
                                 \/ MergeItem(c, r[1], r[2])
    BY <1>5, <1>6, <1>7, <1>8
  <1> QED
    BY <1>3, <1>4, <1>8 DEF Rearrange

\* What a step does to the rows: nothing, a rearrangement, or one new row.
LEMMA RowSteps ==
    ASSUME RowsAreSound, [Next]_vars
    PROVE  \/ UNCHANGED <<items, next>>
           \/ \E c \in Connections : Rearrange(c)
           \/ \E c \in Connections : Committed(c, conn[c].item)
                                       /\ conn[c].at \in {"minting", "taken"}
  <1>1. ASSUME NEW c \in Connections,
               \/ Select(c) \/ ReadBag(c) \/ EnterWorld(c) \/ ClaimCell(c)
               \/ Leave(c)
        PROVE  UNCHANGED <<items, next>>
    BY <1>1 DEF Select, ReadBag, EnterWorld, ClaimCell, Leave
  <1>2. ASSUME NEW c \in Connections, NEW t \in Templates, NEW q \in Quantities,
               MintReads(c, t, q) \/ PickupTakes(c, t, q)
        PROVE  UNCHANGED <<items, next>>
    BY <1>2 DEF MintReads, PickupTakes
  <1>3. ASSUME NEW c \in Connections, PickupChecks(c)
        PROVE  UNCHANGED <<items, next>>
    BY <1>3 DEF PickupChecks
  <1>4. ASSUME NEW c \in Connections, MintCommits(c) \/ PickupCommits(c)
        PROVE  \/ UNCHANGED <<items, next>>
               \/ Committed(c, conn[c].item) /\ conn[c].at \in {"minting", "taken"}
    BY <1>4 DEF MintCommits, PickupCommits
  <1>5. CASE LeaseGoes \/ Restart \/ UNCHANGED vars
    BY <1>5 DEF LeaseGoes, Restart, vars
  <1> QED
    BY <1>1, <1>2, <1>3, <1>4, <1>5 DEF Next, Acquire
-----------------------------------------------------------------------------
(* Rows and types *)

\* Initially the invariant holds.
LEMMA InitInv == Init => Inv
  <1> SUFFICES ASSUME Init PROVE Inv
    OBVIOUS
  <1>1. TypeOK
    BY FixedBags DEF Init, TypeOK, Sound, Connection, Outside
  <1>2. BagIsSound /\ CounterIsPastBirth /\ ItemsAreComposed
    BY FixedBags DEF Init, BagIsSound, CounterIsPastBirth, Sound, InitialBag,
                     ItemsAreComposed, Outside, Item
  <1>3. MemoryIsCurrent /\ CommitsAreExpected /\ CellsAreCurrent
          /\ TakenRowsCommit /\ OneCell
    BY DEF Init, MemoryIsCurrent, CommitsAreExpected, CellsAreCurrent,
           TakenRowsCommit, OneCell, Outside
  <1> QED
    BY <1>1, <1>2, <1>3 DEF Inv, RowsAreSound

\* The row a commit inserts.
LEMMA CommittedRow ==
    ASSUME RowsAreSound, NEW c \in Connections, NEW item \in Composed,
           Committed(c, item)
    PROVE  /\ items' = items \cup {item} /\ next' = next + 1
           /\ item \in Item /\ item.identity = next
           /\ \A r \in items : r.identity < next /\ r.slot # item.slot
           /\ next \in Nat
  BY QuantitiesAreNumbers
     DEF RowsAreSound, TypeOK, BagIsSound, Committed, CanCommit, IsFree, Item,
         Composed

\* Every step keeps the rows and the counter sound.
LEMMA NextRows ==
    ASSUME Inv, [Next]_vars
    PROVE  items' \in SUBSET Item /\ next' \in Nat /\ BagIsSound'
             /\ CounterIsPastBirth'
  <1>1. RowsAreSound /\ TypeOK /\ BagIsSound /\ CounterIsPastBirth
    BY DEF Inv, RowsAreSound
  <1>2. CASE UNCHANGED <<items, next>>
    BY <1>1, <1>2 DEF TypeOK, BagIsSound, CounterIsPastBirth
  <1>3. ASSUME NEW c \in Connections, Rearrange(c)
        PROVE  items' \in SUBSET Item /\ next' \in Nat /\ BagIsSound'
                 /\ CounterIsPastBirth'
    <2>1. Sound(items') /\ Derived(items', items) /\ next' = next
      BY <1>1, <1>3, RearrangedRows DEF Rearranged
    <2>2. \A r \in items' : r.identity < next'
      BY <1>1, <2>1 DEF Derived, BagIsSound
    <2>3. \A r \in items' : r.quantity \in 1..MaxQuantity
      BY <2>1 DEF Sound, Item
    <2> QED
      BY <1>1, <2>1, <2>2, <2>3
         DEF Sound, Derived, BagIsSound, CounterIsPastBirth, TypeOK
  <1>4. ASSUME NEW c \in Connections, Committed(c, conn[c].item),
               conn[c].at \in {"minting", "taken"}
        PROVE  items' \in SUBSET Item /\ next' \in Nat /\ BagIsSound'
                 /\ CounterIsPastBirth'
    <2> DEFINE item == conn[c].item
    <2>1. item \in Composed
      BY <1>1, <1>4 DEF RowsAreSound, ItemsAreComposed
    <2>2. /\ items' = items \cup {item} /\ next' = next + 1
          /\ item \in Item /\ item.identity = next
          /\ \A r \in items : r.identity < next /\ r.slot # item.slot
          /\ next \in Nat
      BY <1>1, <1>4, <2>1, CommittedRow
    <2> HIDE DEF item
    <2>3. \A r \in items : r.identity \in Nat
      BY <1>1 DEF TypeOK, Item
    <2>4. \A r \in items' : r.quantity \in 1..MaxQuantity
      BY <1>1, <2>2 DEF TypeOK, Item
    <2> QED
      BY <1>1, <2>2, <2>3, <2>4 DEF TypeOK, BagIsSound, CounterIsPastBirth
  <1> QED
    BY <1>1, <1>2, <1>3, <1>4, RowSteps
-----------------------------------------------------------------------------
(* Connections *)

\* A connection outside the world is one.
LEMMA OutsideType == Outside \in Connection
  BY DEF Outside, Connection

\* Every step keeps the connections well typed, their composed rows with them.
LEMMA NextTypes ==
    ASSUME Inv, [Next]_vars
    PROVE  TypeOK' /\ ItemsAreComposed'
  <1>1. TypeOK /\ ItemsAreComposed /\ RowsAreSound
    BY DEF Inv, RowsAreSound
  <1>2. items' \in SUBSET Item /\ next' \in Nat
    BY NextRows
  <1>3. ASSUME NEW c \in Connections,
               Select(c) \/ ReadBag(c) \/ EnterWorld(c) \/ ClaimCell(c)
                 \/ Leave(c)
        PROVE  TypeOK' /\ ItemsAreComposed'
    <2>1. PICK new \in Connection : conn' = [conn EXCEPT ![c] = new]
                                     /\ new.at \notin {"minting", "taken"}
      <3>1. conn[c] \in Connection /\ items \in SUBSET Item
        BY <1>1 DEF TypeOK
      <3>2. CASE Select(c)
        <4>1. conn' = [conn EXCEPT ![c] = [conn[c] EXCEPT !.at = "selected"]]
          BY <1>1, <3>2 DEF TypeOK, Select
        <4>2. /\ [conn[c] EXCEPT !.at = "selected"] \in Connection
              /\ [conn[c] EXCEPT !.at = "selected"].at = "selected"
          BY <3>1 DEF Connection
        <4> QED
          BY <4>1, <4>2
      <3>3. CASE ReadBag(c)
        <4>1. [Outside EXCEPT !.at = "read", !.bag = items] \in Connection
          BY <3>1 DEF Outside, Connection
        <4> QED
          BY <3>3, <4>1, OutsideType DEF ReadBag, Outside
      <3>4. CASE EnterWorld(c)
        <4>1. [conn EXCEPT ![c].at = "entering"]
                = [conn EXCEPT ![c] = [conn[c] EXCEPT !.at = "entering"]]
          BY <1>1 DEF TypeOK
        <4>2. [conn[c] EXCEPT !.at = "entering"] \in Connection
          BY <3>1 DEF Connection
        <4>3. [conn[c] EXCEPT !.at = "entering"].at = "entering"
          BY <3>1 DEF Connection
        <4> QED
          BY <3>4, <4>1, <4>2, <4>3, OutsideType DEF EnterWorld, Outside
      <3>5. CASE ClaimCell(c)
        <4>1. [conn[c] EXCEPT !.at = "in", !.claimed = TRUE,
                              !.cell = conn[c].bag] \in Connection
              /\ [conn[c] EXCEPT !.at = "in"] \in Connection
          BY <3>1 DEF Connection
        <4> QED
          BY <3>1, <3>5, <4>1 DEF ClaimCell, Connection
      <3>6. CASE Leave(c)
        BY <3>6, OutsideType DEF Leave, Outside
      <3> QED
        BY <1>3, <3>2, <3>3, <3>4, <3>5, <3>6
    <2>2. holder' \in Connections \cup {None} /\ profile' \in Profiles
      BY <1>1, <1>3
         DEF TypeOK, Select, ReadBag, EnterWorld, ClaimCell, Leave
    <2> QED
      BY <1>1, <1>2, <2>1, <2>2 DEF TypeOK, ItemsAreComposed
  <1>4. ASSUME NEW c \in Connections, Rearrange(c)
        PROVE  TypeOK' /\ ItemsAreComposed'
    <2>1. PICK bag, expected : Sound(bag) /\ Rearranged(c, bag, expected)
      BY <1>1, <1>4, RearrangedRows
    <2>2. conn' = [conn EXCEPT ![c] =
                     [conn[c] EXCEPT !.bag = bag,
                        !.at = IF bag = expected THEN "in" ELSE "mismatch"]]
      BY <1>1, <2>1 DEF Rearranged, TypeOK, Connection
    <2>3. [conn[c] EXCEPT !.bag = bag,
             !.at = IF bag = expected THEN "in" ELSE "mismatch"] \in Connection
      BY <1>1, <2>1 DEF TypeOK, Connection, Sound
    <2> QED
      BY <1>1, <1>2, <2>1, <2>2, <2>3
         DEF TypeOK, ItemsAreComposed, Rearranged, Connection
  <1>5. ASSUME NEW c \in Connections, NEW t \in Templates, NEW q \in Quantities,
               MintReads(c, t, q)
        PROVE  TypeOK' /\ ItemsAreComposed'
    <2>1. PICK s \in Slots :
            conn' = [conn EXCEPT ![c].at = "minting",
                                 ![c].item = Row(next, t, q, s)]
      BY <1>5 DEF MintReads
    <2>2. Row(next, t, q, s) \in Composed
      BY <1>1, TemplatesAreNumbers, QuantitiesAreNumbers
         DEF TypeOK, Row, Composed
    <2>3. Composed \subseteq [identity : Nat, template : Nat, quantity : Nat,
                              slot : Slots]
      BY DEF Composed
    <2>4. conn' = [conn EXCEPT ![c] = [conn[c] EXCEPT !.at = "minting",
                                         !.item = Row(next, t, q, s)]]
      BY <1>1, <2>1 DEF TypeOK, Connection
    <2> DEFINE new == [conn[c] EXCEPT !.at = "minting",
                                      !.item = Row(next, t, q, s)]
    <2>5. new \in Connection /\ new.item = Row(next, t, q, s)
      BY <1>1, <2>2, <2>3 DEF TypeOK, Connection
    <2>6. /\ items' = items /\ next' = next
          /\ holder' = holder /\ profile' = profile
      BY <1>5 DEF MintReads
    <2> HIDE DEF new
    <2>7. /\ conn'[c] = new
          /\ \A d \in Connections \ {c} : conn'[d] = conn[d]
          /\ conn' \in [Connections -> Connection]
      BY <1>1, <2>4, <2>5 DEF TypeOK, new
    <2>8. TypeOK'
      BY <1>1, <2>6, <2>7 DEF TypeOK
    <2>9. ItemsAreComposed'
      BY <1>1, <2>2, <2>5, <2>7 DEF ItemsAreComposed
    <2> QED
      BY <2>8, <2>9
  <1>6. ASSUME NEW c \in Connections,
               MintCommits(c) \/ PickupChecks(c) \/ PickupCommits(c)
        PROVE  TypeOK' /\ ItemsAreComposed'
    BY <1>1, <1>2, <1>6
       DEF TypeOK, ItemsAreComposed, MintCommits, PickupChecks, PickupCommits,
           Connection
  <1>7. ASSUME NEW c \in Connections, NEW t \in Templates, NEW q \in Quantities,
               PickupTakes(c, t, q)
        PROVE  TypeOK' /\ ItemsAreComposed'
    <2>1. CASE conn' = [conn EXCEPT ![c].at = "in"]
      BY <1>1, <1>2, <1>7, <2>1
         DEF TypeOK, ItemsAreComposed, PickupTakes, Connection
    <2>2. CASE conn' # [conn EXCEPT ![c].at = "in"]
      <3>1. PICK s \in Slots, i \in 1..(LastIdentity + 1) :
              /\ q \in 1..MaxQuantity
              /\ IsNextIdentity(conn[c].cell, i)
              /\ conn' = [conn EXCEPT ![c].at = "taken",
                              ![c].item = Row(i, t, q, s),
                              ![c].cell = @ \cup {Row(i, t, q, s)}]
        BY <1>7, <2>2 DEF PickupTakes
      <3>2. Row(i, t, q, s) \in Composed /\ Row(i, t, q, s) \in Item
        BY <3>1, TemplatesAreNumbers, QuantitiesAreNumbers
           DEF Row, Composed, Item
      <3>3. Composed \subseteq [identity : Nat, template : Nat, quantity : Nat,
                                slot : Slots]
        BY DEF Composed
      <3>4. conn' = [conn EXCEPT ![c] =
                       [conn[c] EXCEPT !.at = "taken",
                          !.item = Row(i, t, q, s),
                          !.cell = conn[c].cell \cup {Row(i, t, q, s)}]]
        BY <1>1, <3>1 DEF TypeOK, Connection
      <3> DEFINE new == [conn[c] EXCEPT !.at = "taken",
                           !.item = Row(i, t, q, s),
                           !.cell = conn[c].cell \cup {Row(i, t, q, s)}]
      <3>5. new \in Connection /\ new.item = Row(i, t, q, s)
        BY <1>1, <3>2, <3>3 DEF TypeOK, Connection
      <3>6. /\ items' = items /\ next' = next
            /\ holder' = holder /\ profile' = profile
        BY <1>7 DEF PickupTakes
      <3> HIDE DEF new
      <3>7. /\ conn'[c] = new
            /\ \A d \in Connections \ {c} : conn'[d] = conn[d]
            /\ conn' \in [Connections -> Connection]
        BY <1>1, <3>4, <3>5 DEF TypeOK, new
      <3>8. TypeOK'
        BY <1>1, <3>6, <3>7 DEF TypeOK
      <3>9. ItemsAreComposed'
        BY <1>1, <3>2, <3>5, <3>7 DEF ItemsAreComposed
      <3> QED
        BY <3>8, <3>9
    <2> QED
      BY <2>1, <2>2
  <1>8. CASE LeaseGoes
    BY <1>1, <1>2, <1>8 DEF TypeOK, ItemsAreComposed, LeaseGoes
  <1>9. CASE Restart
    <2>1. \A c \in Connections : conn'[c] = Outside
      BY <1>9 DEF Restart
    <2>2. conn' \in [Connections -> Connection]
      BY <1>9, OutsideType DEF Restart
    <2> QED
      BY <1>2, <1>9, <2>1, <2>2
         DEF TypeOK, ItemsAreComposed, Restart, Outside
  <1>10. CASE UNCHANGED vars
    BY <1>1, <1>10 DEF TypeOK, ItemsAreComposed, vars
  <1> QED
    BY <1>3, <1>4, <1>5, <1>6, <1>7, <1>8, <1>9, <1>10 DEF Next, Acquire
-----------------------------------------------------------------------------
(* Memory *)

\* A bag that passes the content gate has birth identities only.
LEMMA KnownIdentities ==
    ASSUME NEW bag, IsKnown(bag), NEW r \in bag
    PROVE  r.identity \in 1..4
  <1>1. PICK golden \in {InitialBag, MergedBag} : Content(bag) = Content(golden)
    BY DEF IsKnown
  <1>2. <<r.identity, r.template, r.quantity>> \in Content(golden)
    BY <1>1 DEF Content
  <1>3. PICK g \in golden : <<r.identity, r.template, r.quantity>>
                              = <<g.identity, g.template, g.quantity>>
    BY <1>2 DEF Content
  <1> QED
    BY <1>3, FixedBags

\* After a commit the rows pass the content gate no more.
LEMMA CommitEndsKnown ==
    ASSUME RowsAreSound, NEW c \in Connections, Committed(c, conn[c].item),
           conn[c].at \in {"minting", "taken"}
    PROVE  ~IsKnown(items')
  <1>1. conn[c].item \in items' /\ conn[c].item.identity = next
    BY CommittedRow DEF RowsAreSound, ItemsAreComposed
  <1>2. next >= 5 /\ next \in Nat
    BY DEF RowsAreSound, CounterIsPastBirth, TypeOK
  <1> QED
    BY <1>1, <1>2, KnownIdentities

\* Every step keeps memory current and every commit as expected.
LEMMA NextMemory ==
    ASSUME Inv, [Next]_vars
    PROVE  MemoryIsCurrent' /\ CommitsAreExpected'
  <1>1. /\ TypeOK /\ RowsAreSound /\ MemoryIsCurrent /\ CommitsAreExpected
        /\ conn \in [Connections -> Connection]
    BY DEF Inv, RowsAreSound, TypeOK
  <1>2. ASSUME NEW c \in Connections,
               Select(c) \/ ReadBag(c) \/ EnterWorld(c) \/ ClaimCell(c)
                 \/ Leave(c)
        PROVE  MemoryIsCurrent' /\ CommitsAreExpected'
    <2>1. UNCHANGED items /\ \A d \in Connections \ {c} :
            conn'[d] = conn[d] /\ (holder' = d => holder = d)
      BY <1>1, <1>2, NoneIsNoConnection
         DEF Select, ReadBag, EnterWorld, ClaimCell, Leave
    <2>2. /\ conn'[c].at # "mismatch"
          /\ \/ conn'[c].at \in {"out", "selected"}
             \/ conn'[c].bag = items /\ holder = c
             \/ /\ conn[c].at \notin {"out", "selected"}
                /\ conn'[c].bag = conn[c].bag /\ UNCHANGED holder
      <3>1. CASE Select(c)
        BY <1>1, <3>1 DEF Select, Connection
      <3>2. CASE ReadBag(c)
        BY <1>1, <3>2 DEF ReadBag, Outside, HoldsLease
      <3>3. CASE EnterWorld(c)
        BY <1>1, <3>3 DEF EnterWorld, Outside, Connection
      <3>4. CASE ClaimCell(c)
        BY <1>1, <3>4 DEF ClaimCell, Connection
      <3>5. CASE Leave(c)
        BY <1>1, <3>5 DEF Leave, Outside
      <3> QED
        BY <1>2, <3>1, <3>2, <3>3, <3>4, <3>5
    <2> QED
      BY <1>1, <2>1, <2>2
         DEF MemoryIsCurrent, CommitsAreExpected, HoldsLease, IsKnown
  <1>3. ASSUME NEW c \in Connections, Rearrange(c)
        PROVE  MemoryIsCurrent' /\ CommitsAreExpected'
    <2>1. PICK bag, expected :
            /\ conn[c].at = "in" /\ HoldsLease(c)
            /\ Rearranged(c, bag, expected)
            /\ conn[c].bag = items => bag = expected
            /\ IsKnown(items)
      BY <1>1, <1>3, RearrangedRows
    <2>2. conn[c].bag = items
      BY <1>1, <2>1 DEF MemoryIsCurrent
    <2>3. /\ conn'[c].bag = items' /\ conn'[c].at = "in" /\ holder' = c
          /\ \A d \in Connections \ {c} : conn'[d] = conn[d]
      BY <1>1, <2>1, <2>2 DEF Rearranged, Connection, HoldsLease
    <2> QED
      BY <1>1, <2>3 DEF MemoryIsCurrent, CommitsAreExpected, HoldsLease
  <1>4. ASSUME NEW c \in Connections, NEW t \in Templates, NEW q \in Quantities,
               MintReads(c, t, q) \/ PickupTakes(c, t, q)
        PROVE  MemoryIsCurrent' /\ CommitsAreExpected'
    <2>1. /\ UNCHANGED <<items, holder>>
          /\ conn[c].at \in {"in", "checked"}
          /\ conn'[c].bag = conn[c].bag /\ conn'[c].at # "mismatch"
          /\ \A d \in Connections \ {c} : conn'[d] = conn[d]
      <3>1. CASE MintReads(c, t, q)
        <4>1. PICK row : conn' = [conn EXCEPT ![c].at = "minting",
                                              ![c].item = row]
          BY <3>1 DEF MintReads
        <4> QED
          BY <1>1, <3>1, <4>1 DEF MintReads, Connection
      <3>2. CASE PickupTakes(c, t, q)
        <4>1. CASE conn' = [conn EXCEPT ![c].at = "in"]
          BY <1>1, <3>2, <4>1 DEF PickupTakes, Connection
        <4>2. CASE conn' # [conn EXCEPT ![c].at = "in"]
          <5>1. PICK row, cell :
                  conn' = [conn EXCEPT ![c].at = "taken", ![c].item = row,
                                       ![c].cell = cell]
            BY <3>2, <4>2 DEF PickupTakes
          <5>2. conn[c].at = "checked" /\ UNCHANGED <<items, holder>>
            BY <3>2 DEF PickupTakes
          <5> QED
            BY <1>1, <5>1, <5>2 DEF Connection
        <4> QED
          BY <4>1, <4>2
      <3> QED
        BY <1>4, <3>1, <3>2
    <2> QED
      BY <1>1, <2>1 DEF MemoryIsCurrent, CommitsAreExpected, HoldsLease, IsKnown
  <1>5. ASSUME NEW c \in Connections,
               MintCommits(c) \/ PickupChecks(c) \/ PickupCommits(c)
        PROVE  MemoryIsCurrent' /\ CommitsAreExpected'
    <2>1. /\ UNCHANGED holder
          /\ conn[c].at \in {"minting", "in", "taken"}
          /\ conn'[c].bag = conn[c].bag /\ conn'[c].at # "mismatch"
          /\ \A d \in Connections \ {c} : conn'[d] = conn[d]
      BY <1>1, <1>5 DEF MintCommits, PickupChecks, PickupCommits, Connection
    <2>2. UNCHANGED items \/ ~IsKnown(items')
      BY <1>1, <1>5, CommitEndsKnown
         DEF MintCommits, PickupChecks, PickupCommits
    <2> QED
      BY <1>1, <2>1, <2>2
         DEF MemoryIsCurrent, CommitsAreExpected, HoldsLease, IsKnown
  <1>6. CASE LeaseGoes \/ Restart
    BY <1>1, <1>6, NoneIsNoConnection
       DEF MemoryIsCurrent, CommitsAreExpected, HoldsLease, LeaseGoes, Restart,
           Outside
  <1>7. CASE UNCHANGED vars
    BY <1>1, <1>7
       DEF MemoryIsCurrent, CommitsAreExpected, HoldsLease, IsKnown, vars
  <1> QED
    BY <1>2, <1>3, <1>4, <1>5, <1>6, <1>7 DEF Next, Acquire

-----------------------------------------------------------------------------
(* Cells and pickups *)

\* The next identity is one number.
LEMMA OneNextIdentity ==
    ASSUME NEW bag, NEW i \in Nat, NEW j \in Nat,
           \A r \in bag : r.identity \in Nat,
           IsNextIdentity(bag, i), IsNextIdentity(bag, j)
    PROVE  i = j
  BY DEF IsNextIdentity

\* Every step keeps the cells of prechecked pickups current, the rows of taken
\* drops committable and the cell claimed once.
LEMMA NextCells ==
    ASSUME Inv, [Next]_vars
    PROVE  CellsAreCurrent' /\ TakenRowsCommit' /\ OneCell'
  <1>1. /\ TypeOK /\ CellsAreCurrent /\ TakenRowsCommit /\ OneCell
        /\ conn \in [Connections -> Connection]
    BY DEF Inv, RowsAreSound, TypeOK
  <1>2. ASSUME NEW c \in Connections,
               Select(c) \/ ReadBag(c) \/ EnterWorld(c) \/ ClaimCell(c)
                 \/ Leave(c)
        PROVE  CellsAreCurrent' /\ TakenRowsCommit' /\ OneCell'
    <2>1. UNCHANGED <<items, next>> /\ \A d \in Connections \ {c} :
            conn'[d] = conn[d] /\ (holder' = d => holder = d)
      BY <1>1, <1>2, NoneIsNoConnection
         DEF Select, ReadBag, EnterWorld, ClaimCell, Leave
    <2>2. /\ conn'[c].at \notin {"checked", "taken"}
          /\ conn'[c].claimed => conn[c].claimed \/ MayClaim(c)
      <3>1. CASE Select(c)
        BY <1>1, <3>1 DEF Select, Connection
      <3>2. CASE ReadBag(c)
        BY <1>1, <3>2 DEF ReadBag, Outside
      <3>3. CASE EnterWorld(c)
        BY <1>1, <3>3 DEF EnterWorld, Outside, Connection
      <3>4. CASE ClaimCell(c)
        BY <1>1, <3>4 DEF ClaimCell, Connection
      <3>5. CASE Leave(c)
        BY <1>1, <3>5 DEF Leave, Outside
      <3> QED
        BY <1>2, <3>1, <3>2, <3>3, <3>4, <3>5
    <2> QED
      BY <1>1, <2>1, <2>2
         DEF CellsAreCurrent, TakenRowsCommit, OneCell, HoldsLease, MayClaim,
             CanCommit, IsFree, IsNextIdentity
  <1>3. ASSUME NEW c \in Connections, holder = c, holder' = c,
               \A d \in Connections \ {c} : conn'[d] = conn[d],
               conn'[c].at \notin {"checked", "taken"},
               conn'[c].claimed = conn[c].claimed
        PROVE  CellsAreCurrent' /\ TakenRowsCommit' /\ OneCell'
    BY <1>1, <1>3 DEF CellsAreCurrent, TakenRowsCommit, OneCell, HoldsLease
  <1>4. ASSUME NEW c \in Connections, UNCHANGED <<items, next, holder>>,
               \A d \in Connections \ {c} : conn'[d] = conn[d],
               conn'[c].at \notin {"checked", "taken"},
               conn'[c].claimed = conn[c].claimed
        PROVE  CellsAreCurrent' /\ TakenRowsCommit' /\ OneCell'
    BY <1>1, <1>4
       DEF CellsAreCurrent, TakenRowsCommit, OneCell, HoldsLease, CanCommit,
           IsFree, IsNextIdentity
  <1>5. ASSUME NEW c \in Connections, Rearrange(c)
        PROVE  CellsAreCurrent' /\ TakenRowsCommit' /\ OneCell'
    <2>1. PICK bag, expected : HoldsLease(c) /\ Rearranged(c, bag, expected)
      BY <1>5, RearrangedRows DEF Inv
    <2> QED
      BY <1>1, <1>3, <2>1 DEF Rearranged, HoldsLease, Connection
  <1>6. ASSUME NEW c \in Connections, NEW t \in Templates, NEW q \in Quantities,
               MintReads(c, t, q)
        PROVE  CellsAreCurrent' /\ TakenRowsCommit' /\ OneCell'
    BY <1>1, <1>3, <1>6 DEF MintReads, HoldsLease, Connection
  <1>7. ASSUME NEW c \in Connections, MintCommits(c) \/ PickupCommits(c)
        PROVE  CellsAreCurrent' /\ TakenRowsCommit' /\ OneCell'
    <2>1. /\ UNCHANGED holder
          /\ \A d \in Connections \ {c} : conn'[d] = conn[d]
          /\ conn'[c].at = "in" /\ conn'[c].claimed = conn[c].claimed
          /\ UNCHANGED <<items, next>> \/ holder = c
      BY <1>1, <1>7
         DEF MintCommits, PickupCommits, Committed, CanCommit, HoldsLease,
             Connection
    <2> QED
      BY <1>3, <1>4, <2>1
  <1>8. ASSUME NEW c \in Connections, PickupChecks(c)
        PROVE  CellsAreCurrent' /\ TakenRowsCommit' /\ OneCell'
    BY <1>1, <1>8
       DEF PickupChecks, Prechecks, CellsAreCurrent, TakenRowsCommit, OneCell,
           HoldsLease, Connection, CanCommit, IsFree, IsNextIdentity
  <1>9. ASSUME NEW c \in Connections, NEW t \in Templates, NEW q \in Quantities,
               PickupTakes(c, t, q)
        PROVE  CellsAreCurrent' /\ TakenRowsCommit' /\ OneCell'
    <2>1. CASE conn' = [conn EXCEPT ![c].at = "in"]
      BY <1>1, <1>4, <1>9, <2>1 DEF PickupTakes, Connection
    <2>2. CASE conn' # [conn EXCEPT ![c].at = "in"]
      <3>1. PICK s \in Slots, i \in 1..(LastIdentity + 1) :
              /\ q \in 1..MaxQuantity
              /\ IsFirstFree(conn[c].cell, s)
              /\ IsNextIdentity(conn[c].cell, i)
              /\ conn' = [conn EXCEPT ![c].at = "taken",
                              ![c].item = Row(i, t, q, s),
                              ![c].cell = @ \cup {Row(i, t, q, s)}]
        BY <1>9, <2>2 DEF PickupTakes
      <3>2. /\ conn[c].at = "checked" /\ UNCHANGED <<items, next, holder>>
            /\ conn'[c].at = "taken" /\ conn'[c].item = Row(i, t, q, s)
            /\ conn'[c].claimed = conn[c].claimed
            /\ \A d \in Connections \ {c} : conn'[d] = conn[d]
        BY <1>1, <1>9, <3>1 DEF PickupTakes, Connection
      <3>3. ASSUME HoldsLease(c) PROVE CanCommit(c, Row(i, t, q, s))
        <4>1. conn[c].cell = items /\ IsNextIdentity(items, next)
          BY <1>1, <3>2, <3>3 DEF CellsAreCurrent
        <4>2. i = next
          BY <1>1, <3>1, <4>1, OneNextIdentity DEF TypeOK, Item
        <4> QED
          BY <3>1, <3>3, <4>1, <4>2, TemplatesAreNumbers
             DEF CanCommit, Row, IsFirstFree
      <3> QED
        BY <1>1, <3>2, <3>3
           DEF CellsAreCurrent, TakenRowsCommit, OneCell, HoldsLease, CanCommit,
               IsFree, IsNextIdentity
    <2> QED
      BY <2>1, <2>2
  <1>10. CASE LeaseGoes \/ Restart
    BY <1>1, <1>10, NoneIsNoConnection
       DEF CellsAreCurrent, TakenRowsCommit, OneCell, HoldsLease, LeaseGoes,
           Restart, Outside
  <1>11. CASE UNCHANGED vars
    BY <1>1, <1>11
       DEF CellsAreCurrent, TakenRowsCommit, OneCell, HoldsLease, CanCommit,
           IsFree, IsNextIdentity, vars
  <1> QED
    BY <1>2, <1>5, <1>6, <1>7, <1>8, <1>9, <1>10, <1>11 DEF Next, Acquire
-----------------------------------------------------------------------------
(* Theorems *)

\* Every step keeps the invariant.
LEMMA NextInv == Inv /\ [Next]_vars => Inv'
  BY NextRows, NextTypes, NextMemory, NextCells DEF Inv, RowsAreSound

\* The invariant holds in every reachable state.
THEOREM InvariantHolds == Spec => []Inv
  BY InitInv, NextInv, PTL DEF Spec

\* Rows, counter and connections have their types: in particular no quantity
\* leaves 1..MaxQuantity and no slot leaves the bag.
THEOREM BagTypes == Spec => []TypeOK
  <1>1. Inv => TypeOK
    BY DEF Inv, RowsAreSound
  <1> QED
    BY <1>1, InvariantHolds, PTL

\* A slot and an identity hold one item each, whatever is acquired, moved,
\* swapped or merged by whichever connections.
THEOREM BagsAreSound == Spec => []BagIsSound
  <1>1. Inv => BagIsSound
    BY DEF Inv, RowsAreSound
  <1> QED
    BY <1>1, InvariantHolds, PTL

\* What the lease holder has in memory is what the store has, while the rows can
\* still be rearranged.
THEOREM MemoryStaysCurrent == Spec => []MemoryIsCurrent
  <1>1. Inv => MemoryIsCurrent
    BY DEF Inv
  <1> QED
    BY <1>1, InvariantHolds, PTL

\* The RuntimeError of the rearranging handlers is unreachable.
THEOREM CommitsStayExpected == Spec => []CommitsAreExpected
  <1>1. Inv => CommitsAreExpected
    BY DEF Inv
  <1> QED
    BY <1>1, InvariantHolds, PTL

\* After the precheck only a takeover can lose the row of a drop that was taken.
THEOREM TakenRowsStayCommittable == Spec => []TakenRowsCommit
  <1>1. Inv => TakenRowsCommit
    BY DEF Inv
  <1> QED
    BY <1>1, InvariantHolds, PTL

\* One connection at a time allocates pickups for the character.
THEOREM OneCellAtATime == Spec => []OneCell
  <1>1. Inv => OneCell
    BY DEF Inv
  <1> QED
    BY <1>1, InvariantHolds, PTL

\* No identity is issued twice.
THEOREM FreshIdentities == Spec => IdentitiesAreFresh
  <1>1. Inv /\ [Next]_vars =>
          [/\ next <= next'
           /\ \A r \in items' :
                (\A o \in items : o.identity # r.identity)
                  => next <= r.identity /\ r.identity < next']_vars
    <2> SUFFICES ASSUME Inv, [Next]_vars
                 PROVE  /\ next <= next'
                        /\ \A r \in items' :
                             (\A o \in items : o.identity # r.identity)
                               => next <= r.identity /\ r.identity < next'
      OBVIOUS
    <2>1. RowsAreSound /\ next \in Nat
      BY DEF Inv, RowsAreSound, TypeOK
    <2>2. ASSUME NEW c \in Connections, Rearrange(c)
          PROVE  next' = next /\ Derived(items', items)
      BY <2>1, <2>2, RearrangedRows DEF Rearranged
    <2>3. ASSUME NEW c \in Connections, Committed(c, conn[c].item),
                 conn[c].at \in {"minting", "taken"}
          PROVE  /\ next' = next + 1
                 /\ \E i : items' = items \cup {i} /\ i.identity = next
      BY <2>1, <2>3, CommittedRow DEF RowsAreSound, ItemsAreComposed
    <2> QED
      BY <2>1, <2>2, <2>3, RowSteps DEF Derived
  <1> QED
    BY <1>1, InvariantHolds, PTL DEF Spec, IdentitiesAreFresh

\* Without an opt-in scenario no step makes a bag that would be refused later.
THEOREM EveryoneMayReturn == Spec => NobodyIsLockedOut
  <1>1. Inv /\ [Next]_vars =>
          [profile = "none" /\ MayEnter(items, next - 1, "none")
             => MayEnter(items', next' - 1, "none")]_vars
    <2> SUFFICES ASSUME Inv, [Next]_vars, profile = "none",
                        MayEnter(items, next - 1, "none")
                 PROVE  MayEnter(items', next' - 1, "none")
      OBVIOUS
    <2>1. /\ RowsAreSound /\ next \in Nat /\ items # {}
          /\ \A r \in items : r.identity \in Nat
      BY DEF Inv, RowsAreSound, TypeOK, CounterIsPastBirth, Item
    <2>2. CASE UNCHANGED <<items, next>>
      BY <2>2
    <2>3. ASSUME NEW c \in Connections, Rearrange(c)
          PROVE  MayEnter(items', next' - 1, "none")
      <3>1. items' = MergedBag
        <4>1. PICK bag, expected : Rearranged(c, bag, expected)
                                     /\ bag = MergedBag
          BY <2>1, <2>3, RearrangedRows
        <4> QED
          BY <4>1 DEF Rearranged
      <3>2. ASSUME NEW bag, NEW issued PROVE IsGoldenPlus(bag, bag, issued)
        BY DEF IsGoldenPlus
      <3>3. IsGoldenPlus(items', MergedBag, next' - 1)
        BY <3>1, <3>2
      <3> QED
        BY <3>3 DEF MayEnter
    <2>4. ASSUME NEW c \in Connections, Committed(c, conn[c].item),
                 conn[c].at \in {"minting", "taken"}
          PROVE  MayEnter(items', next' - 1, "none")
      <3>1. PICK golden \in {InitialBag, MergedBag} :
              IsGoldenPlus(items, golden, next - 1)
        BY <2>1 DEF MayEnter
      <3>2. PICK i \in Composed :
              /\ items' = items \cup {i} /\ next' = next + 1
              /\ i \in Item /\ i.identity = next
        BY <2>1, <2>4, CommittedRow DEF RowsAreSound, ItemsAreComposed
      <3>3. \A g \in golden : g.identity \in Nat /\ g.identity < next
        BY <2>1, <3>1
           DEF IsGoldenPlus, RowsAreSound, BagIsSound
      <3>4. i.quantity >= 1 /\ i.template >= 1
        BY <3>2, QuantitiesAreNumbers DEF Composed, Item
      <3>5. \A r \in items' \ golden :
              /\ \A g \in golden : g.identity < r.identity
              /\ r.identity <= next' - 1
              /\ r.quantity >= 1 /\ r.template >= 1
        <4>1. \A r \in items' \ golden : r = i \/ r \in items \ golden
          BY <3>2
        <4>2. \A r \in items \ golden :
                /\ \A g \in golden : g.identity < r.identity
                /\ r.identity <= next - 1
                /\ r.quantity >= 1 /\ r.template >= 1
          BY <3>1 DEF IsGoldenPlus
        <4>3. /\ next' - 1 = next
              /\ \A r \in items : r.identity <= next - 1
                                    => r.identity <= next' - 1
          BY <2>1, <3>2
        <4> QED
          BY <2>1, <3>2, <3>3, <3>4, <4>1, <4>2, <4>3
      <3>6. IsGoldenPlus(items', golden, next' - 1)
        BY <3>1, <3>2, <3>5 DEF IsGoldenPlus
      <3> QED
        BY <3>6 DEF MayEnter
    <2> QED
      BY <2>1, <2>2, <2>3, <2>4, RowSteps
  <1> QED
    BY <1>1, InvariantHolds, PTL DEF Spec, NobodyIsLockedOut
-----------------------------------------------------------------------------
(* Sums over sets of rows.  MapThenSumSet is a recursive function on the      *)
(* subsets of the set it sums; what it returns for a finite set is shown by    *)
(* the smallest subset for which it would not return it.                       *)

\* The quantity of all rows of a set.
Sum(S) == MapThenSumSet(LAMBDA r : r.quantity, S)

\* The row the sum takes first.
Picked(S) == CHOOSE x \in S : TRUE

\* h sums every subset of S, one row after another.
Sums(h, S) ==
    h = [s \in SUBSET S |->
           IF s = {} THEN 0 ELSE Picked(s).quantity + h[s \ {Picked(s)}]]

\* The fold of the community module, read as the definition it is.
LEMMA SumIs == \A S : Sum(S) = (CHOOSE h : Sums(h, S))[S]
  BY DEF Sum, MapThenSumSet, MapThenFoldSet, Sums, Picked

\* Induction over the subsets of a finite set, as a smallest counterexample: a
\* set of subsets that is not empty has one with no other of them inside it.
LEMMA Smallest ==
  ASSUME NEW S, IsFiniteSet(S), NEW Bad \in SUBSET SUBSET S, Bad # {}
  PROVE  \E T \in Bad : \A U \in SUBSET T : U # T => U \notin Bad
<1>1. IsWellFoundedOn(StrictSubsetOrdering(S), SUBSET S)
  BY FS_StrictSubsetOrderingWellFounded, FS_FiniteSubsetsOfFinite
<1>2. PICK T \in Bad : \A U \in Bad : <<U, T>> \notin StrictSubsetOrdering(S)
  BY <1>1, WFMin
<1>3. QED
  BY <1>2 DEF StrictSubsetOrdering

\* What a function that sums the subsets of S has at each of them.
LEMMA SumsAt ==
  ASSUME NEW S, NEW h, Sums(h, S), NEW s \in SUBSET S
  PROVE  /\ s = {} => h[s] = 0
         /\ s # {} => /\ Picked(s) \in s
                      /\ s \ {Picked(s)} \in SUBSET S
                      /\ h[s] = Picked(s).quantity + h[s \ {Picked(s)}]
<1> DEFINE g == [u \in SUBSET S |->
                   IF u = {} THEN 0 ELSE Picked(u).quantity + h[u \ {Picked(u)}]]
<1>1. h = g
  BY DEF Sums
<1>2. g[s] = (IF s = {} THEN 0 ELSE Picked(s).quantity + h[s \ {Picked(s)}])
  OBVIOUS
<1> HIDE DEF g
<1>3. s # {} => Picked(s) \in s
  BY DEF Picked
<1>4. QED
  BY <1>1, <1>2, <1>3

\* Two of them agree where both are defined.
LEMMA SumsAgree ==
  ASSUME NEW A, NEW B, NEW g, NEW h, Sums(g, A), Sums(h, B),
         NEW S, IsFiniteSet(S), S \subseteq A, S \subseteq B
  PROVE  g[S] = h[S]
<1> DEFINE Bad == {s \in SUBSET S : g[s] # h[s]}
<1> SUFFICES ASSUME Bad # {}
             PROVE  FALSE
  OBVIOUS
<1>1. PICK T \in Bad : \A U \in SUBSET T : U # T => U \notin Bad
  <2>1. Bad \in SUBSET SUBSET S
    OBVIOUS
  <2> HIDE DEF Bad
  <2>2. QED
    BY <2>1, Smallest
<1>2. T \in SUBSET A /\ T \in SUBSET B /\ T \in SUBSET S /\ g[T] # h[T]
  OBVIOUS
<1>3. T # {}
  BY <1>2, SumsAt
<1>4. /\ Picked(T) \in T
      /\ g[T] = Picked(T).quantity + g[T \ {Picked(T)}]
      /\ h[T] = Picked(T).quantity + h[T \ {Picked(T)}]
  BY <1>2, <1>3, SumsAt
<1>5. T \ {Picked(T)} \in SUBSET T /\ T \ {Picked(T)} # T
  BY <1>4
<1>6. g[T \ {Picked(T)}] = h[T \ {Picked(T)}]
  BY <1>1, <1>2, <1>5
<1>7. QED
  BY <1>2, <1>4, <1>6

\* There is one for every finite set.
LEMMA SumsExist ==
  ASSUME NEW S, IsFiniteSet(S)
  PROVE  \E h : Sums(h, S)
<1> DEFINE Bad == {s \in SUBSET S : ~\E h : Sums(h, s)}
<1> SUFFICES ASSUME Bad # {}
             PROVE  FALSE
  OBVIOUS
<1>1. PICK T \in Bad : \A U \in SUBSET T : U # T => U \notin Bad
  <2>1. Bad \in SUBSET SUBSET S
    OBVIOUS
  <2> HIDE DEF Bad
  <2>2. QED
    BY <2>1, Smallest
<1>2. T \in SUBSET S /\ ~\E h : Sums(h, T)
  OBVIOUS
<1>3. \A U \in SUBSET T : U # T => Sums(CHOOSE h : Sums(h, U), U)
  <2> SUFFICES ASSUME NEW U \in SUBSET T, U # T
               PROVE  Sums(CHOOSE h : Sums(h, U), U)
    OBVIOUS
  <2>1. U \notin Bad /\ U \in SUBSET S
    BY <1>1, <1>2
  <2>2. \E h : Sums(h, U)
    BY <2>1
  <2>3. QED
    BY <2>2
<1> HIDE DEF Bad
<1>4. \A U \in SUBSET T : U # T /\ U # {} =>
         Sum(U) = Picked(U).quantity + Sum(U \ {Picked(U)})
  <2> SUFFICES ASSUME NEW U \in SUBSET T, U # T, U # {}
               PROVE  Sum(U) = Picked(U).quantity + Sum(U \ {Picked(U)})
    OBVIOUS
  <2> DEFINE W == U \ {Picked(U)}
             g == CHOOSE h : Sums(h, U)
             k == CHOOSE h : Sums(h, W)
  <2>1. Picked(U) \in U
    BY DEF Picked
  <2>2. W \in SUBSET T /\ W # T /\ W \in SUBSET U /\ W \in SUBSET S /\ IsFiniteSet(W)
    BY <1>2, <2>1, FS_Subset
  <2>3. Sums(g, U) /\ Sums(k, W)
    BY <1>3, <2>2
  <2>4. Sum(U) = g[U] /\ Sum(W) = k[W]
    BY SumIs
  <2> HIDE DEF g, k
  <2>5. g[U] = Picked(U).quantity + g[W]
    BY <2>3, SumsAt
  <2>6. g[W] = k[W]
    BY <2>2, <2>3, SumsAgree
  <2>7. QED
    BY <2>4, <2>5, <2>6
<1>5. T # {} => Sum({}) = 0
  <2> SUFFICES ASSUME T # {}
               PROVE  Sum({}) = 0
    OBVIOUS
  <2>1. Sums(CHOOSE h : Sums(h, {}), {})
    BY <1>3
  <2>2. QED
    BY <2>1, SumsAt, SumIs
<1> DEFINE f == [s \in SUBSET T |->
                   IF s = {} THEN 0 ELSE Picked(s).quantity + Sum(s \ {Picked(s)})]
<1>6. \A s \in SUBSET T : s # {} => f[s \ {Picked(s)}] = Sum(s \ {Picked(s)})
  <2> SUFFICES ASSUME NEW s \in SUBSET T, s # {}
               PROVE  f[s \ {Picked(s)}] = Sum(s \ {Picked(s)})
    OBVIOUS
  <2> DEFINE U == s \ {Picked(s)}
  <2>1. Picked(s) \in s
    BY DEF Picked
  <2>2. U \in SUBSET T /\ U # T
    BY <2>1
  <2>3. f[U] = (IF U = {} THEN 0 ELSE Picked(U).quantity + Sum(U \ {Picked(U)}))
    BY <2>2
  <2> HIDE DEF f, U
  <2>4. f[U] = Sum(U)
    BY <1>4, <1>5, <2>1, <2>2, <2>3
  <2>5. QED
    BY <2>4 DEF U
<1>7. f = [s \in SUBSET T |->
             IF s = {} THEN 0 ELSE Picked(s).quantity + f[s \ {Picked(s)}]]
  <2>1. \A s \in SUBSET T :
          (IF s = {} THEN 0 ELSE Picked(s).quantity + Sum(s \ {Picked(s)}))
            = (IF s = {} THEN 0 ELSE Picked(s).quantity + f[s \ {Picked(s)}])
    BY <1>6
  <2>2. \E g : g = f
    OBVIOUS
  <2>3. QED
    BY <2>1
<1> HIDE DEF f
<1>8. Sums(f, T)
  BY <1>7 DEF Sums
<1>9. QED
  BY <1>2, <1>8

\* So the sum of a set is that of one row and of the others.
LEMMA SumUnfolds ==
  ASSUME NEW S, IsFiniteSet(S)
  PROVE  /\ S = {} => Sum(S) = 0
         /\ S # {} => /\ Picked(S) \in S
                      /\ Sum(S) = Picked(S).quantity + Sum(S \ {Picked(S)})
<1> DEFINE W == S \ {Picked(S)}
           g == CHOOSE h : Sums(h, S)
           k == CHOOSE h : Sums(h, W)
<1>1. IsFiniteSet(W) /\ W \in SUBSET S
  BY FS_Subset
<1>2. Sums(g, S) /\ Sums(k, W)
  BY <1>1, SumsExist
<1>3. Sum(S) = g[S] /\ Sum(W) = k[W]
  BY SumIs
<1> HIDE DEF g, k
<1>4. g[W] = k[W]
  BY <1>1, <1>2, SumsAgree
<1>5. S \in SUBSET S
  OBVIOUS
<1>6. /\ S = {} => g[S] = 0
      /\ S # {} => Picked(S) \in S /\ g[S] = Picked(S).quantity + g[W]
  BY <1>2, <1>5, SumsAt
<1>7. QED
  BY <1>3, <1>4, <1>6

\* A finite set of rows that have quantities.
Counted(S) == IsFiniteSet(S) /\ \A r \in S : r.quantity \in Nat

\* A sum of quantities is a number.
LEMMA SumIsANumber ==
  ASSUME NEW S, Counted(S)
  PROVE  Sum(S) \in Nat
<1> DEFINE Bad == {s \in SUBSET S : Sum(s) \notin Nat}
<1> SUFFICES ASSUME Bad # {}
             PROVE  FALSE
  OBVIOUS
<1>1. PICK T \in Bad : \A U \in SUBSET T : U # T => U \notin Bad
  <2>1. Bad \in SUBSET SUBSET S
    OBVIOUS
  <2> HIDE DEF Bad
  <2>2. QED
    BY <2>1, Smallest DEF Counted
<1>2. T \in SUBSET S /\ Sum(T) \notin Nat /\ IsFiniteSet(T)
  BY FS_Subset DEF Counted
<1>3. T # {} /\ Picked(T) \in T /\ Sum(T) = Picked(T).quantity + Sum(T \ {Picked(T)})
  BY <1>2, SumUnfolds
<1>4. T \ {Picked(T)} \in SUBSET T /\ T \ {Picked(T)} # T
  BY <1>3
<1>5. Sum(T \ {Picked(T)}) \in Nat
  BY <1>1, <1>2, <1>4
<1>6. QED
  BY <1>2, <1>3, <1>5 DEF Counted

\* Whichever row is taken first.
LEMMA SumWithout ==
  ASSUME NEW S, Counted(S), NEW r \in S
  PROVE  Sum(S) = r.quantity + Sum(S \ {r})
<1> DEFINE Bad == {s \in SUBSET S : \E y \in s : Sum(s) # y.quantity + Sum(s \ {y})}
<1> SUFFICES ASSUME Bad # {}
             PROVE  FALSE
  OBVIOUS
<1>1. PICK T \in Bad : \A U \in SUBSET T : U # T => U \notin Bad
  <2>1. Bad \in SUBSET SUBSET S
    OBVIOUS
  <2> HIDE DEF Bad
  <2>2. QED
    BY <2>1, Smallest DEF Counted
<1>2. PICK y \in T : Sum(T) # y.quantity + Sum(T \ {y})
  OBVIOUS
<1> DEFINE p == Picked(T)
<1>3. T \in SUBSET S /\ IsFiniteSet(T)
  BY FS_Subset DEF Counted
<1>4. p \in T /\ Sum(T) = p.quantity + Sum(T \ {p})
  BY <1>2, <1>3, SumUnfolds
<1>5. p # y
  BY <1>2, <1>4
<1>6. /\ T \ {p} \in SUBSET T /\ T \ {p} # T /\ y \in T \ {p}
      /\ T \ {y} \in SUBSET T /\ T \ {y} # T /\ p \in T \ {y}
      /\ (T \ {p}) \ {y} = (T \ {y}) \ {p}
  BY <1>4, <1>5
<1> HIDE DEF p
<1>7. Sum(T \ {p}) = y.quantity + Sum((T \ {p}) \ {y})
  BY <1>1, <1>3, <1>6
<1>8. Sum(T \ {y}) = p.quantity + Sum((T \ {y}) \ {p})
  BY <1>1, <1>3, <1>6
<1>9. p.quantity \in Nat /\ y.quantity \in Nat /\ Sum((T \ {p}) \ {y}) \in Nat
  <2>1. Counted((T \ {p}) \ {y})
    BY <1>3, FS_Subset DEF Counted
  <2>2. QED
    BY <1>3, <1>4, <2>1, SumIsANumber DEF Counted
<1>10. QED
  BY <1>2, <1>4, <1>6, <1>7, <1>8, <1>9
-----------------------------------------------------------------------------
(* Totals: what a rearrangement keeps *)

\* The rows of one template.
Of(bag, t) == {r \in bag : r.template = t}

\* The total of a template is the sum of its rows.
LEMMA TotalIs == \A bag, t : Total(bag, t) = Sum(Of(bag, t))
  BY DEF Total, Sum, Of

\* There are no more rows than slots.
LEMMA SoundIsCounted ==
  ASSUME NEW bag, Sound(bag)
  PROVE  Counted(bag)
<1> DEFINE f == [r \in bag |-> r.slot]
<1>1. f \in [bag -> Slots]
  BY DEF Sound, Item
<1>2. \A r, o \in bag : f[r] = f[o] => r = o
  BY DEF Sound
<1>3. f \in Injection(bag, Slots)
  BY <1>1, <1>2, Fun_IsInj
<1>4. IsFiniteSet(Slots)
  BY SlotsHoldTheBirthBag, FS_Interval DEF Slots
<1>5. IsFiniteSet(bag)
  BY <1>3, <1>4, FS_Injection
<1>6. \A r \in bag : r.quantity \in Nat
  BY QuantitiesAreNumbers DEF Sound, Item
<1>7. QED
  BY <1>5, <1>6 DEF Counted

\* Slots apart, the same rows have the same total.
LEMMA SameContentSameSum ==
  ASSUME NEW A, NEW B, Sound(A), Sound(B), Content(A) = Content(B)
  PROVE  Sum(A) = Sum(B)
<1> DEFINE Bad == {S \in SUBSET A : \E U \in SUBSET B :
                     Content(S) = Content(U) /\ Sum(S) # Sum(U)}
<1> SUFFICES ASSUME Bad # {}
             PROVE  FALSE
  <2>1. A \in SUBSET A /\ B \in SUBSET B
    OBVIOUS
  <2>2. QED
    BY <2>1
<1>1. PICK S \in Bad : \A V \in SUBSET S : V # S => V \notin Bad
  <2>1. Bad \in SUBSET SUBSET A
    OBVIOUS
  <2>2. IsFiniteSet(A)
    BY SoundIsCounted DEF Counted
  <2> HIDE DEF Bad
  <2>3. QED
    BY <2>1, <2>2, Smallest
<1>2. S \in SUBSET A
  OBVIOUS
<1>3. PICK U \in SUBSET B : Content(S) = Content(U) /\ Sum(S) # Sum(U)
  OBVIOUS
<1>4. Sound(S) /\ Sound(U) /\ Counted(S) /\ Counted(U)
  <2>1. Sound(S) /\ Sound(U)
    BY <1>2, <1>3 DEF Sound
  <2>2. QED
    BY <2>1, SoundIsCounted
<1>5. CASE S = {}
  <2>1. \A o \in U : <<o.identity, o.template, o.quantity>> \in Content(S)
    BY <1>3 DEF Content
  <2>2. Content(S) = {}
    BY <1>5 DEF Content
  <2>3. U = {}
    BY <2>1, <2>2
  <2>4. QED
    BY <1>3, <1>5, <2>3
<1>6. CASE S # {}
  <2>1. PICK r \in S : TRUE
    BY <1>6
  <2>2. PICK o \in U : /\ o.identity = r.identity /\ o.template = r.template
                       /\ o.quantity = r.quantity
    <3>1. <<r.identity, r.template, r.quantity>> \in Content(U)
      BY <1>3 DEF Content
    <3>2. QED
      BY <3>1 DEF Content
  <2>3. Content(S \ {r}) = Content(S) \ {<<r.identity, r.template, r.quantity>>}
    BY <1>4 DEF Content, Sound
  <2>4. Content(U \ {o}) = Content(U) \ {<<o.identity, o.template, o.quantity>>}
    BY <1>4 DEF Content, Sound
  <2>5. S \ {r} \in SUBSET S /\ S \ {r} # S /\ U \ {o} \in SUBSET B
    OBVIOUS
  <2>6. Content(S \ {r}) = Content(U \ {o})
    BY <1>3, <2>2, <2>3, <2>4
  <2>7. Sum(S \ {r}) = Sum(U \ {o})
    BY <1>1, <1>2, <2>5, <2>6
  <2>8. Sum(S) = r.quantity + Sum(S \ {r}) /\ Sum(U) = o.quantity + Sum(U \ {o})
    BY <1>4, SumWithout
  <2>9. QED
    BY <1>3, <2>2, <2>7, <2>8
<1>7. QED
  BY <1>5, <1>6

\* Template by template, too.
LEMMA SameContentSameTotal ==
  ASSUME NEW A, NEW B, Sound(A), Sound(B), Content(A) = Content(B), NEW t
  PROVE  Total(A, t) = Total(B, t)
<1>1. Sound(Of(A, t)) /\ Sound(Of(B, t))
  BY DEF Sound, Of
<1>2. Content(Of(A, t)) = {x \in Content(A) : x[2] = t}
  BY DEF Content, Of
<1>3. Content(Of(B, t)) = {x \in Content(B) : x[2] = t}
  BY DEF Content, Of
<1>4. QED
  BY <1>1, <1>2, <1>3, SameContentSameSum, TotalIs

\* Two rows of one template that become one keep its total.
LEMMA PutTogether ==
  ASSUME NEW bag, Sound(bag), NEW r \in bag, NEW o \in bag, NEW new,
         r # o, r.template = o.template, new.template = o.template,
         new.identity = o.identity, new.quantity = o.quantity + r.quantity,
         NEW t
  PROVE  Total((bag \ {r, o}) \cup {new}, t) = Total(bag, t)
<1> DEFINE rest == Of(bag \ {r, o}, t)
<1>1. Counted(bag) /\ Counted(Of(bag, t)) /\ Counted(Of(bag, t) \ {r}) /\ Counted(rest)
      /\ r.quantity \in Nat /\ o.quantity \in Nat
  BY SoundIsCounted, FS_Subset DEF Counted, Of
<1>2. new \notin bag \ {r, o}
  BY DEF Sound
<1>3. CASE t # o.template
  <2>1. Of((bag \ {r, o}) \cup {new}, t) = Of(bag, t)
    BY <1>3 DEF Of
  <2>2. QED
    BY <2>1, TotalIs
<1>4. CASE t = o.template
  <2>1. /\ Of((bag \ {r, o}) \cup {new}, t) = rest \cup {new}
        /\ r \in Of(bag, t) /\ o \in Of(bag, t) \ {r}
        /\ (Of(bag, t) \ {r}) \ {o} = rest
        /\ (rest \cup {new}) \ {new} = rest
    BY <1>2, <1>4 DEF Of
  <2> HIDE DEF rest
  <2>2. Counted(rest \cup {new})
    <3>1. IsFiniteSet(rest \cup {new})
      BY <1>1, FS_AddElement DEF Counted
    <3>2. new.quantity \in Nat
      BY <1>1
    <3>3. QED
      BY <1>1, <3>1, <3>2 DEF Counted
  <2>3. Sum(rest \cup {new}) = new.quantity + Sum(rest)
    BY <2>1, <2>2, SumWithout
  <2>4. Sum(Of(bag, t)) = r.quantity + (o.quantity + Sum(rest))
    <3>1. Sum(Of(bag, t)) = r.quantity + Sum(Of(bag, t) \ {r})
      BY <1>1, <2>1, SumWithout
    <3>2. Sum(Of(bag, t) \ {r}) = o.quantity + Sum((Of(bag, t) \ {r}) \ {o})
      BY <1>1, <2>1, SumWithout
    <3>3. QED
      BY <2>1, <3>1, <3>2
  <2>5. Sum(rest) \in Nat
    BY <1>1, SumIsANumber
  <2>6. Sum(rest \cup {new}) = Sum(Of(bag, t))
    BY <1>1, <2>3, <2>4, <2>5
  <2>7. QED
    BY <2>1, <2>6, TotalIs
<1>5. QED
  BY <1>3, <1>4

\* A move keeps every row but for its slot.
LEMMA MovedKeeps ==
    ASSUME NEW bag, Sound(bag), NEW i, NEW s
    PROVE  Content(Moved(bag, i, s)) = Content(bag)
  <1> DEFINE f(x) == IF x.identity = i THEN [x EXCEPT !.slot = s] ELSE x
  <1>1. Moved(bag, i, s) = {f(x) : x \in bag}
    BY DEF Moved
  <1>2. \A x \in bag : <<f(x).identity, f(x).template, f(x).quantity>>
                         = <<x.identity, x.template, x.quantity>>
    BY DEF Sound, Item
  <1> HIDE DEF f
  <1> QED
    BY <1>1, <1>2 DEF Content

\* So does a swap.
LEMMA SwappedKeeps ==
    ASSUME NEW bag, Sound(bag), NEW i, NEW s
    PROVE  Content(Swapped(bag, i, s)) = Content(bag)
  <1> DEFINE from == (CHOOSE r \in bag : r.identity = i).slot
             f(x) == IF x.identity = i THEN [x EXCEPT !.slot = s]
                     ELSE IF x.slot = s THEN [x EXCEPT !.slot = from] ELSE x
  <1>1. Swapped(bag, i, s) = {f(x) : x \in bag}
    BY DEF Swapped
  <1> HIDE DEF from
  <1>2. \A x \in bag : <<f(x).identity, f(x).template, f(x).quantity>>
                         = <<x.identity, x.template, x.quantity>>
    BY DEF Sound, Item
  <1> HIDE DEF f
  <1> QED
    BY <1>1, <1>2 DEF Content

\* A merge puts one row into another of its template.
LEMMA MergedIntoKeeps ==
    ASSUME NEW bag, Sound(bag), NEW i, NEW s, CanMergeInto(bag, i, s), NEW t
    PROVE  Total(MergedInto(bag, i, s), t) = Total(bag, t)
  <1>1. PICK r \in bag, o \in bag :
          r.identity = i /\ o.slot = s /\ r # o /\ r.template = o.template
    BY DEF CanMergeInto
  <1>2. (CHOOSE x \in bag : x.identity = i) = r
    BY <1>1 DEF Sound
  <1> DEFINE f(x) == IF x.slot = s THEN [x EXCEPT !.quantity = @ + r.quantity]
                     ELSE x
             new == [o EXCEPT !.quantity = o.quantity + r.quantity]
  <1>3. MergedInto(bag, i, s) = {f(x) : x \in bag \ {r}}
    BY <1>2 DEF MergedInto
  <1>4. f(o) = new /\ \A x \in bag : x # o => f(x) = x
    BY <1>1 DEF Sound
  <1>5. new.template = o.template /\ new.identity = o.identity
          /\ new.quantity = o.quantity + r.quantity
    BY <1>1 DEF Sound, Item
  <1> HIDE DEF f, new
  <1>6. MergedInto(bag, i, s) = (bag \ {r, o}) \cup {new}
    BY <1>1, <1>3, <1>4
  <1> QED
    BY <1>1, <1>5, <1>6, PutTogether

\* The merged birth bag has the totals of the birth bag.
LEMMA MergedKeeps ==
    ASSUME NEW t
    PROVE  Total(MergedBag, t) = Total(InitialBag, t)
  <1> DEFINE o == Row(1, 1, 1, 0)
             r == Row(3, 1, 1, 2)
             new == Row(1, 1, 2, 0)
  <1>1. MergedBag = (InitialBag \ {r, o}) \cup {new}
    BY MergedBagIs DEF InitialBag, Row
  <1>2. r \in InitialBag /\ o \in InitialBag /\ r # o
    BY DEF InitialBag, Row
  <1>3. /\ r.template = o.template /\ new.template = o.template
        /\ new.identity = o.identity /\ new.quantity = o.quantity + r.quantity
    BY DEF Row
  <1> HIDE DEF o, r, new
  <1> QED
    BY <1>1, <1>2, <1>3, FixedBags, PutTogether

\* Every rearrangement keeps the total of every template.
LEMMA RearrangementsKeep ==
    ASSUME RowsAreSound, NEW c \in Connections, Rearrange(c), NEW t
    PROVE  Total(items', t) = Total(items, t)
  <1>1. Sound(items)
    BY DEF RowsAreSound, TypeOK, BagIsSound, Sound
  <1>2. CASE MergeV111(c)
    BY <1>2, MergedKeeps DEF MergeV111, Rearranged, MergedBag
  <1>3. CASE MoveToSlot2(c)
    <2>1. Content(Slot2Bag) = Content(MergedBag)
      BY MergedBagIs, Slot2BagIs DEF Content, Row
    <2> QED
      BY <1>3, <2>1, FixedBags, SameContentSameTotal DEF MoveToSlot2, Rearranged
  <1>4. ASSUME NEW i, NEW s, MoveItem(c, i, s)
        PROVE  Total(items', t) = Total(items, t)
    BY <1>1, <1>4, MovedKeeps, MovedIsSound, SameContentSameTotal
       DEF MoveItem, Rearranged
  <1>5. ASSUME NEW i, NEW s, SwapItem(c, i, s)
        PROVE  Total(items', t) = Total(items, t)
    BY <1>1, <1>5, SwappedKeeps, SwappedIsSound, SameContentSameTotal
       DEF SwapItem, Rearranged
  <1>6. ASSUME NEW i, NEW s, MergeItem(c, i, s)
        PROVE  Total(items', t) = Total(items, t)
    BY <1>1, <1>6, MergedIntoKeeps DEF MergeItem, Rearranged
  <1> QED
    BY <1>2, <1>3, <1>4, <1>5, <1>6 DEF Rearrange

\* Rearranging neither makes nor loses anything, in a bag of any size and with
\* stacks of any quantity: merges, moves and swaps of the store keep the total of
\* every template, and nothing else changes a row without issuing an identity.
THEOREM QuantitiesAreKept == Spec => QuantitiesStay
  <1> DEFINE Kept == next' = next =>
                       \A t \in {r.template : r \in items \cup items'} :
                          Total(items', t) = Total(items, t)
  <1>1. Inv /\ [Next]_vars => Kept
    <2> SUFFICES ASSUME Inv, [Next]_vars, next' = next, NEW t
                 PROVE  Total(items', t) = Total(items, t)
      OBVIOUS
    <2>1. RowsAreSound
      BY DEF Inv
    <2>2. CASE UNCHANGED <<items, next>>
      BY <2>2 DEF Total
    <2>3. ASSUME NEW c \in Connections, Rearrange(c)
          PROVE  Total(items', t) = Total(items, t)
      BY <2>1, <2>3, RearrangementsKeep
    <2>4. ASSUME NEW c \in Connections, Committed(c, conn[c].item)
          PROVE  FALSE
      BY <2>1, <2>4 DEF Committed, RowsAreSound, TypeOK
    <2> QED
      BY <2>1, <2>2, <2>3, <2>4, RowSteps
  <1>2. Inv /\ [Next]_vars => [Kept]_vars
    BY <1>1
  <1> QED
    BY <1>2, InvariantHolds, PTL DEF Spec, QuantitiesStay
=============================================================================
