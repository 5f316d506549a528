------------------------------ MODULE Backpack ------------------------------
(***************************************************************************)
(* The backpack of one character: its rows and its identity counter in the *)
(* store, the copy each connection keeps in memory (FoundationSession      *)
(* .backpack) and the copy it allocates pickups against (BagCell).         *)
(*                                                                         *)
(* Every store method is one transaction that starts with                  *)
(* _require_selected_session, so what matters of the session leases is who *)
(* passes it: at most one connection (theorem ActiveCharacterIsUnique of   *)
(* SessionLeaseProofs), and another one at any moment.                     *)
(*                                                                         *)
(* Two reads of one handler with no write between them are one step here:  *)
(* if somebody wrote in between, the lease moved and the second read       *)
(* raises, so nothing comes of the first.                                  *)
(*                                                                         *)
(* An operator named Slip... is a wrong form of the definition after it.   *)
(***************************************************************************)
EXTENDS Naturals, FiniteSets, FiniteSetsExt

CONSTANTS
    Connections,
    LastSlot,     \* 39: slots are 0..LastSlot
    MaxQuantity,  \* 0xFFFF
    Templates,    \* item templates that can be picked up or minted
    Quantities,   \* quantities that are asked for, good and bad ones
    Requests,     \* <<identity, slot>> of the item-operate requests that are sent
    LastIdentity, \* bound on the identities issued
    Profiles,     \* the opt-in scenarios the server may be started with
    None

ASSUME SlotsHoldTheBirthBag == LastSlot \in Nat /\ LastSlot >= 3
ASSUME QuantitiesAreNumbers ==
    Quantities \subseteq Nat /\ MaxQuantity \in Nat /\ MaxQuantity >= 2
ASSUME TemplatesAreNumbers == Templates \subseteq Nat \ {0}
ASSUME RequestsAreNumbers == Requests \subseteq Nat \X Nat
ASSUME NoneIsNoConnection == None \notin Connections
ASSUME ProfilesAreKnown == Profiles \subseteq {"none", "move", "swap", "merge"}

VARIABLES
    items,    \* the character's rows of table character_backpack_items
    next,     \* character_backpacks.next_item_identity
    holder,   \* the connection whose open session has the character selected
    profile,  \* the scenario this boot was started with
    conn      \* what each connection has in memory

vars == <<items, next, holder, profile, conn>>

Slots == 0..LastSlot

Row(i, t, q, s) == [identity |-> i, template |-> t, quantity |-> q, slot |-> s]

\* The three raw columns of a row never differ between the rows made here.
Item == [identity : Nat, template : Nat, quantity : 1..MaxQuantity,
         slot : Slots]

\* at: where the handler of the connection stands.
\*   "out"       not in the world       "selected"  lease taken, bag unread
\*   "read"      bag read               "entering"  admitted, no cell claimed
\*   "in"        between two requests   "minting"   item composed
\*   "checked"   pickup prechecked      "taken"     drop taken off the ground
\*   "mismatch"  RuntimeError: the store committed another bag than expected
\* claimed: the connection has a cell, and cell is its bag.
Connection ==
    [at : {"out", "selected", "read", "entering", "in", "minting", "checked",
           "taken", "mismatch"},
     bag : SUBSET Item, claimed : BOOLEAN, cell : SUBSET Item,
     item : [identity : Nat, template : Nat, quantity : Nat, slot : Slots]
              \cup {None}]

Outside == [at |-> "out", bag |-> {}, claimed |-> FALSE, cell |-> {},
            item |-> None]

-----------------------------------------------------------------------------
(* Bags *)

\* The birth bag.  Templates are only compared, so 2600001, 2400901 and 2200002
\* are 1, 2 and 3 here.
InitialBag == {Row(1, 1, 1, 0), Row(2, 2, 1, 1),
               Row(3, 1, 1, 2), Row(4, 3, 1, 3)}

SlipMerged(bag) ==  \* the source goes, and its quantity with it
    {r \in bag : r.identity # 3}

\* merged_v111_state: identity 3 goes into identity 1.
Merged(bag) ==
    LET target == CHOOSE r \in bag : r.identity = 1
        source == CHOOSE r \in bag : r.identity = 3
    IN  (bag \ {target, source})
          \cup {[target EXCEPT !.quantity = target.quantity + source.quantity]}

MergedBag == Merged(InitialBag)

\* hypothesized_v111_slot2_state: identity 1 of the merged bag goes to slot 2.
Slot2Bag == {IF r.identity = 1 THEN [r EXCEPT !.slot = 2] ELSE r :
                r \in MergedBag}

\* What the content allowlist looks at: everything but the slots.
Content(bag) == {<<r.identity, r.template, r.quantity>> : r \in bag}

SlipIsKnown(bag) ==  \* the shape gate instead of the content gate
    bag # {}

\* require_known_backpack.
IsKnown(bag) == Content(bag) \in {Content(InitialBag), Content(MergedBag)}

IsFree(bag, s) == s \in Slots /\ \A r \in bag : r.slot # s

\* The lowest free slot, where mint and pickup put an item.
IsFirstFree(bag, s) == IsFree(bag, s) /\ \A t \in Slots : IsFree(bag, t) => s <= t

\* next_item_identity of mob_pickup without a high-water mark.
IsNextIdentity(bag, i) ==
    /\ \A r \in bag : r.identity < i
    /\ i = 1 \/ \E r \in bag : r.identity + 1 = i

\* _classify_against one golden bag: its rows are there unaltered, every other
\* row was acquired, above the golden identities and not above the issued ones.
IsGoldenPlus(bag, golden, issued) ==
    /\ golden \subseteq bag
    /\ \A r \in bag \ golden :
         /\ \A g \in golden : g.identity < r.identity
         /\ r.identity <= issued
         /\ r.quantity >= 1 /\ r.template >= 1

SlipMayEnter(bag, issued, prof) ==  \* a bag with acquired rows forgotten
    bag \in {{}, InitialBag, MergedBag} \/ prof # "none"

\* may_enter_world.
MayEnter(bag, issued, prof) ==
    \/ bag = {}
    \/ \E golden \in {InitialBag, MergedBag} : IsGoldenPlus(bag, golden, issued)
    \/ prof # "none"

-----------------------------------------------------------------------------
(* Entering the world and leaving it *)

\* select_character of a session that just got the lease.
Select(c) ==
    /\ conn[c].at = "out"
    /\ holder' = c
    /\ conn' = [conn EXCEPT ![c].at = "selected"]
    /\ UNCHANGED <<items, next, profile>>

SlipHoldsLease(c) == conn[c].at # "out"  \* lease not looked at any more

\* _require_selected_session.
HoldsLease(c) == holder = c

ReadBag(c) ==
    /\ conn[c].at = "selected"
    /\ conn' = [conn EXCEPT ![c] =
                   IF HoldsLease(c)
                     THEN [Outside EXCEPT !.at = "read", !.bag = items]
                     ELSE Outside]
    /\ UNCHANGED <<items, next, holder, profile>>

\* backpack_issued_through and the admission.
EnterWorld(c) ==
    /\ conn[c].at = "read"
    /\ IF HoldsLease(c) /\ MayEnter(conn[c].bag, next - 1, profile)
         THEN conn' = [conn EXCEPT ![c].at = "entering"]
         ELSE conn' = [conn EXCEPT ![c] = Outside]
    /\ UNCHANGED <<items, next, holder, profile>>

SlipMayClaim(c) == TRUE  \* no registry

\* BagCellRegistry.claim refuses a second live cell of the character.
MayClaim(c) == \A d \in Connections : ~conn[d].claimed

\* Without a cell the connection stays in the world and picks up nothing.
ClaimCell(c) ==
    /\ conn[c].at = "entering"
    /\ conn' = [conn EXCEPT ![c] =
                   IF MayClaim(c)
                     THEN [@ EXCEPT !.at = "in", !.claimed = TRUE,
                                    !.cell = conn[c].bag]
                     ELSE [@ EXCEPT !.at = "in"]]
    /\ UNCHANGED <<items, next, holder, profile>>

\* close_connection gives the cell back and closes the session, if that works.
Leave(c) ==
    /\ conn[c].at \in {"selected", "read", "entering", "in", "mismatch"}
    /\ conn' = [conn EXCEPT ![c] = Outside]
    /\ holder' \in {holder, IF HoldsLease(c) THEN None ELSE holder}
    /\ UNCHANGED <<items, next, profile>>

\* Another session of the account opens: open_session closes this lease.
LeaseGoes ==
    /\ holder' = None
    /\ UNCHANGED <<items, next, profile, conn>>

Restart ==
    /\ holder' = None
    /\ profile' \in Profiles
    /\ conn' = [c \in Connections |-> Outside]
    /\ UNCHANGED <<items, next>>

-----------------------------------------------------------------------------
(* Rearranging: merge, move, swap, merge into an occupied slot *)

\* The transaction of c replaced the rows by bag, and memory follows.  The
\* handler had composed the answer for the bag expected.
Rearranged(c, bag, expected) ==
    /\ items' = bag
    /\ conn' = [conn EXCEPT ![c].bag = bag,
                    ![c].at = IF bag = expected THEN "in" ELSE "mismatch"]
    /\ UNCHANGED <<next, holder, profile>>

\* _dispatch_v111_persistent_merge and apply_v111_stack_merge.  The store wants
\* the rows to be a birth bag; the handler, that memory has the two stacks.
MergeV111(c) ==
    LET bag == conn[c].bag
    IN  /\ conn[c].at = "in"
        /\ \E target, source \in bag :
             /\ target.identity = 1 /\ source.identity = 3
             /\ target.template = source.template
             /\ target.quantity + source.quantity \in 2..MaxQuantity
             /\ target.slot = 0
        /\ HoldsLease(c)
        /\ items = InitialBag
        /\ Rearranged(c, Merged(items), Merged(bag))

\* The scenario that lets items be moved is on.
MayMove == profile # "none"

\* _dispatch_item_move_hypothesis and apply_hypothesized_v111_slot2_move.
MoveToSlot2(c) ==
    /\ conn[c].at = "in"
    /\ MayMove
    /\ conn[c].bag = MergedBag
    /\ HoldsLease(c)
    /\ items = MergedBag
    /\ Rearranged(c, Slot2Bag, Slot2Bag)

\* move_known_item_to_free_slot.
CanMove(bag, i, s) ==
    IsKnown(bag) /\ IsFree(bag, s) /\ \E r \in bag : r.identity = i

Moved(bag, i, s) ==
    {IF r.identity = i THEN [r EXCEPT !.slot = s] ELSE r : r \in bag}

\* _dispatch_item_move_generalized and move_backpack_item_to_free_slot.  The
\* request for identity 1 and slot 2 goes to MoveToSlot2.
MoveItem(c, i, s) ==
    /\ conn[c].at = "in"
    /\ MayMove
    /\ <<i, s>> # <<1, 2>>
    /\ CanMove(conn[c].bag, i, s)
    /\ HoldsLease(c)
    /\ CanMove(items, i, s)
    /\ Rearranged(c, Moved(items, i, s), Moved(conn[c].bag, i, s))

\* swap_known_item_with_occupied_slot.
CanSwap(bag, i, s) ==
    /\ IsKnown(bag)
    /\ \E r, o \in bag : r.identity = i /\ o.slot = s /\ r # o

Swapped(bag, i, s) ==
    LET from == (CHOOSE r \in bag : r.identity = i).slot
    IN  {IF r.identity = i THEN [r EXCEPT !.slot = s]
         ELSE IF r.slot = s THEN [r EXCEPT !.slot = from] ELSE r : r \in bag}

SwapItem(c, i, s) ==
    /\ conn[c].at = "in"
    /\ profile = "swap"
    /\ <<i, s>> # <<1, 2>>
    /\ CanSwap(conn[c].bag, i, s)
    /\ HoldsLease(c)
    /\ CanSwap(items, i, s)
    /\ Rearranged(c, Swapped(items, i, s), Swapped(conn[c].bag, i, s))

\* merge_known_item_into_occupied_slot: row i goes into the row of slot s.
MergedInto(bag, i, s) ==
    LET source == CHOOSE r \in bag : r.identity = i
    IN  {IF r.slot = s THEN [r EXCEPT !.quantity = @ + source.quantity] ELSE r :
            r \in bag \ {source}}

\* Known afterwards, too: identity 3 into 1, and never the other way round.
CanMergeInto(bag, i, s) ==
    /\ IsKnown(bag)
    /\ \E r, o \in bag :
         /\ r.identity = i /\ o.slot = s /\ r # o
         /\ r.template = o.template
         /\ r.quantity + o.quantity <= MaxQuantity
    /\ IsKnown(MergedInto(bag, i, s))

MergeItem(c, i, s) ==
    /\ conn[c].at = "in"
    /\ profile = "merge"
    /\ <<i, s>> # <<1, 2>>
    /\ CanMergeInto(conn[c].bag, i, s)
    /\ HoldsLease(c)
    /\ CanMergeInto(items, i, s)
    /\ Rearranged(c, MergedInto(items, i, s), MergedInto(conn[c].bag, i, s))

-----------------------------------------------------------------------------
(* Acquiring: mint and pickup *)

SlipTrustsTheItem(c, item) ==  \* what the caller read before is believed
    item.quantity \in 1..MaxQuantity

\* commit_acquired_backpack_item, its checks.
CanCommit(c, item) ==
    /\ HoldsLease(c)
    /\ item.identity = next
    /\ IsFree(items, item.slot)
    /\ item.quantity \in 1..MaxQuantity /\ item.template >= 1

SlipCommitted(c, item) ==  \* the counter is not advanced
    /\ CanCommit(c, item)
    /\ items' = items \cup {item}
    /\ UNCHANGED next

\* Its two writes.
Committed(c, item) ==
    /\ CanCommit(c, item)
    /\ items' = items \cup {item}
    /\ next' = next + 1

\* mint_backpack_item reads the bag and the counter, each under the lease.
MintReads(c, t, q) ==
    /\ conn[c].at = "in"
    /\ q >= 1
    /\ HoldsLease(c)
    /\ next <= LastIdentity
    /\ \E s \in Slots :
         /\ IsFirstFree(items, s)
         /\ conn' = [conn EXCEPT ![c].at = "minting",
                                 ![c].item = Row(next, t, q, s)]
    /\ UNCHANGED <<items, next, holder, profile>>

\* Then it commits, or raises.  Memory does not learn of the new row.
MintCommits(c) ==
    /\ conn[c].at = "minting"
    /\ \/ Committed(c, conn[c].item)
       \/ ~CanCommit(c, conn[c].item) /\ UNCHANGED <<items, next>>
    /\ conn' = [conn EXCEPT ![c].at = "in", ![c].item = None]
    /\ UNCHANGED <<holder, profile>>

SlipPrechecks(c) == HoldsLease(c)  \* the cell not compared with the store

\* precheck_persistable: the cell is what the store holds, and would mint what
\* the store would accept.
Prechecks(c) ==
    HoldsLease(c) /\ conn[c].cell = items /\ IsNextIdentity(conn[c].cell, next)

PickupChecks(c) ==
    /\ conn[c].at = "in"
    /\ conn[c].claimed
    /\ Prechecks(c)
    /\ next <= LastIdentity
    /\ conn' = [conn EXCEPT ![c].at = "checked"]
    /\ UNCHANGED <<items, next, holder, profile>>

\* BagCell.commit_pickup: place_in_bag and the ground's take.  With no free slot,
\* or a drop that is out of reach, the request is refused.
PickupTakes(c, t, q) ==
    /\ conn[c].at = "checked"
    /\ \/ /\ q \in 1..MaxQuantity
          /\ \E s \in Slots, i \in 1..(LastIdentity + 1) :
               /\ IsFirstFree(conn[c].cell, s)
               /\ IsNextIdentity(conn[c].cell, i)
               /\ conn' = [conn EXCEPT ![c].at = "taken",
                               ![c].item = Row(i, t, q, s),
                               ![c].cell = @ \cup {Row(i, t, q, s)}]
       \/ conn' = [conn EXCEPT ![c].at = "in"]
    /\ UNCHANGED <<items, next, holder, profile>>

\* persist_pickup.  When the commit raises the row is lost: the drop left the
\* ground, and the cell keeps a row the store does not have.
PickupCommits(c) ==
    /\ conn[c].at = "taken"
    /\ \/ Committed(c, conn[c].item)
       \/ ~CanCommit(c, conn[c].item) /\ UNCHANGED <<items, next>>
    /\ conn' = [conn EXCEPT ![c].at = "in", ![c].item = None]
    /\ UNCHANGED <<holder, profile>>

-----------------------------------------------------------------------------
Init ==
    /\ items = InitialBag
    /\ next = 5
    /\ holder = None
    /\ profile \in Profiles
    /\ conn = [c \in Connections |-> Outside]

Rearrange(c) ==
    \/ MergeV111(c) \/ MoveToSlot2(c)
    \/ \E r \in Requests :
         \/ MoveItem(c, r[1], r[2]) \/ SwapItem(c, r[1], r[2])
         \/ MergeItem(c, r[1], r[2])

Acquire(c) ==
    \/ \E t \in Templates, q \in Quantities :
         MintReads(c, t, q) \/ PickupTakes(c, t, q)
    \/ MintCommits(c) \/ PickupChecks(c) \/ PickupCommits(c)

Next ==
    \/ \E c \in Connections :
         \/ Select(c) \/ ReadBag(c) \/ EnterWorld(c) \/ ClaimCell(c) \/ Leave(c)
         \/ Rearrange(c) \/ Acquire(c)
    \/ LeaseGoes \/ Restart

Spec == Init /\ [][Next]_vars

-----------------------------------------------------------------------------
(* Properties *)

\* Every variable has its type.
TypeOK ==
    /\ items \in SUBSET Item
    /\ next \in Nat
    /\ holder \in Connections \cup {None}
    /\ profile \in Profiles
    /\ conn \in [Connections -> Connection]

\* What the shape gate and the primary key ask of the rows, however mints,
\* pickups, moves and merges of several sessions follow each other: a slot and an
\* identity hold one item each, every identity is below the counter, and no row is
\* empty or past the width of its column.
BagIsSound ==
    /\ \A r, o \in items :
         r.identity = o.identity \/ r.slot = o.slot => r = o
    /\ \A r \in items : r.identity < next /\ r.quantity \in 1..MaxQuantity

\* An identity is issued once in the life of a character: a row that appears has
\* an identity at or above the counter of before and below the one of after, and
\* the counter never goes back, not even after a merge consumed a row.
IdentitiesAreFresh ==
    [][/\ next <= next'
       /\ \A r \in items' :
            (\A o \in items : o.identity # r.identity)
              => next <= r.identity /\ r.identity < next']_vars

Total(bag, t) ==
    MapThenSumSet(LAMBDA r : r.quantity, {r \in bag : r.template = t})

\* Rearranging neither makes nor loses anything: unless an identity is issued,
\* the quantity of every template stays what it was.
QuantitiesStay ==
    [][next' = next =>
         \A t \in {r.template : r \in items \cup items'} :
            Total(items', t) = Total(items, t)]_vars

\* While rows and memory can still be rearranged (both pass the content gate),
\* the memory of the connection that holds the lease is what the store holds.
MemoryIsCurrent ==
    \A c \in Connections :
        HoldsLease(c) /\ conn[c].at \notin {"out", "selected"} /\ IsKnown(items)
            => conn[c].bag = items

\* The handlers' last check never fires: what the store committed is the bag the
\* answer was composed for, though one computed it from memory and the other from
\* the rows.
CommitsAreExpected == \A c \in Connections : conn[c].at # "mismatch"

\* A drop that was taken off the ground after the precheck gets its row, unless
\* the lease moves before the commit: nothing else loses a row.
TakenRowsCommit ==
    \A c \in Connections :
        conn[c].at = "taken" /\ HoldsLease(c) => CanCommit(c, conn[c].item)

\* The cells of two connections never allocate for the character at once.
OneCell ==
    \A c, d \in Connections : conn[c].claimed /\ conn[d].claimed => c = d

\* A server without opt-in never makes a bag it would refuse at the next
\* character select: who could enter can enter after every step.
NobodyIsLockedOut ==
    [][profile = "none" /\ MayEnter(items, next - 1, "none")
         => MayEnter(items', next' - 1, "none")]_vars
=============================================================================
