----------------------------- MODULE GroundLoot -----------------------------
(***************************************************************************)
(* The drops of one scene: the floor that belongs to the world             *)
(* (mob_ground_persistence.WorldGround), the cell every session draws its  *)
(* client's ground from (mob_loot.DropLedgerCell), and the pickup that     *)
(* asks the world for the drop before it takes it out of the cell.         *)
(*                                                                         *)
(* Floor and cells have a lock each and none is held between two calls, so *)
(* a handler is one step per call.  Rows are swept when they are looked    *)
(* at, never by a clock: time is what every row has left, and Tick takes   *)
(* it.  A drop is one Python object: the floor and the cells seeded from   *)
(* it hold the same one.  A key is a number the session that killed gives  *)
(* it, and another session may give it to another drop.                    *)
(*                                                                         *)
(* Left out: the caps of floor, taken memory and frame (512 and more       *)
(* rows), the second scene, and the durable table, which nothing reads.    *)
(* An operator named Slip... is a wrong form of the definition after it.   *)
(***************************************************************************)
EXTENDS Naturals, FiniteSets

CONSTANTS
    Sessions,
    Characters,
    Drops,
    Lifetime,  \* DROP_LIFETIME_SECONDS, in ticks
    LastKey,   \* bound on the keys a cell issues
    MaxLive,   \* sessions served at once: 1 is the accept loop of v141
    None

ASSUME LifetimeIsPositive == Lifetime \in Nat \ {0}
ASSUME KeysAreNumbers == LastKey \in Nat
ASSUME NoneIsNothing == None \notin Sessions \cup Characters \cup Drops

VARIABLES
    floor,   \* WorldGround._floors of the scene
    taken,   \* WorldGround._taken of the scene
    session, \* the sessions and their cells
    holder,  \* per character the session whose lease the store accepts
    killer,  \* per drop GroundDrop.killer_identity
    life,    \* history: what a drop has left of the lifetime it fell with
    carried  \* history: how many bag rows were committed for a drop, two is many

vars == <<floor, taken, session, holder, killer, life, carried>>

Keys == 1..LastKey
Times == 0..Lifetime

Absent == [drop |-> None, left |-> 0]

Untaken == [drop |-> None, left |-> 0, floor |-> 0]

\* A row with nothing left is still there until somebody sweeps.
Row == [drop : Drops \cup {None}, left : Times]

\* at: "out" no connection, "in" between two requests, and then the call that is
\* next: "remember" and "admit" for the floor, "asks" for the memory of claims,
\* "picks" for the transaction, "commits" for the store.
Session ==
    [at : {"out", "in", "remember", "admit", "asks", "picks", "commits"},
     character : Characters \cup {None},
     rows : [Keys -> Row], issued : 1..(LastKey + 1), expired : SUBSET Keys,
     key : Keys \cup {None},             \* of the request
     claim : Drops \cup {None},          \* what the world handed over
     item : Drops \cup {None},           \* what the bag cell took
     standing : [Keys -> Drops \cup {None}]]

Out == [at |-> "out", character |-> None, rows |-> [k \in Keys |-> Absent],
        issued |-> 1, expired |-> {}, key |-> None, claim |-> None,
        item |-> None, standing |-> [k \in Keys |-> None]]

Live == {s \in Sessions : session[s].at # "out"}

\* _sweep_locked of the floor and of a cell.
Swept(rows) == [k \in Keys |-> IF rows[k].left = 0 THEN Absent ELSE rows[k]]

SweptCell(s) ==
    [session[s] EXCEPT
        !.rows = Swept(@),
        !.expired = @ \cup {k \in Keys : session[s].rows[k].drop # None
                                           /\ session[s].rows[k].left = 0}]

-----------------------------------------------------------------------------
\* The session's cell is new and empty; the login takes the character's lease.
Login(s, c) ==
    /\ session[s].at = "out"
    /\ Cardinality(Live) < MaxLive
    /\ session' = [session EXCEPT ![s] = [Out EXCEPT !.at = "in",
                                                     !.character = c]]
    /\ holder' = [holder EXCEPT ![c] = s]
    /\ UNCHANGED <<floor, taken, killer, life, carried>>

Logout(s) ==
    /\ session[s].at = "in"
    /\ session' = [session EXCEPT ![s] = Out]
    /\ holder' = [c \in Characters |-> IF holder[c] = s THEN None ELSE holder[c]]
    /\ UNCHANGED <<floor, taken, killer, life, carried>>

SlipHasKey(s) == TRUE  \* the end of the block not looked at

\* next_key refuses when the block of keys is spent.
HasKey(s) == session[s].issued <= LastKey

\* loot_a_kill: one drop falls, under the next key of the killer's own cell.
Kill(s, d) ==
    LET cell == SweptCell(s)
        k    == cell.issued
    IN  /\ session[s].at = "in"
        /\ killer[d] = None
        /\ HasKey(s)
        /\ killer' = [killer EXCEPT ![d] = session[s].character]
        /\ session' = [session EXCEPT ![s] =
               [cell EXCEPT !.at = "remember", !.key = k, !.issued = k + 1,
                            !.rows[k] = [drop |-> d, left |-> Lifetime]]]
        /\ UNCHANGED <<floor, taken, holder, life, carried>>

\* WorldGround.remember: a key that is on the floor keeps its row.
Remember(s) ==
    LET k == session[s].key
    IN  /\ session[s].at = "remember"
        /\ floor' = IF Swept(floor)[k].drop = None
                      THEN [Swept(floor) EXCEPT
                              ![k] = [drop |-> session[s].rows[k].drop,
                                      left |-> Lifetime]]
                      ELSE Swept(floor)
        /\ session' = [session EXCEPT ![s].at = "in", ![s].key = None]
        /\ life' = [life EXCEPT ![session[s].rows[k].drop] = Lifetime]
        /\ UNCHANGED <<taken, holder, killer, carried>>

\* A hit that does not kill recomposes the scene: seed_cell reads the floor ...
ReadStanding(s) ==
    /\ session[s].at = "in"
    /\ floor' = Swept(floor)
    /\ session' = [session EXCEPT
                      ![s].at = "admit",
                      ![s].standing = [k \in Keys |-> Swept(floor)[k].drop]]
    /\ UNCHANGED <<taken, holder, killer, life, carried>>

\* ... and admit_standing_rows takes the rows whose key the cell does not hold,
\* each with a new lifetime.
Admit(s) ==
    LET cell  == SweptCell(s)
        fresh == {k \in Keys : session[s].standing[k] # None
                                 /\ cell.rows[k].drop = None}
    IN  /\ session[s].at = "admit"
        /\ \E i \in {cell.issued} \cup {k + 1 : k \in fresh} :
             /\ \A j \in {cell.issued} \cup {k + 1 : k \in fresh} : j <= i
             /\ session' = [session EXCEPT ![s] =
                    [cell EXCEPT
                       !.at = "in", !.issued = i,
                       !.standing = [k \in Keys |-> None],
                       !.rows = [k \in Keys |->
                          IF k \in fresh
                            THEN [drop |-> session[s].standing[k],
                                  left |-> Lifetime]
                            ELSE cell.rows[k]]]]
        /\ UNCHANGED <<floor, taken, holder, killer, life, carried>>

-----------------------------------------------------------------------------
(* Pickup *)

SlipClaims(s, k) ==  \* the row stays on the floor
    LET row == Swept(floor)[k]
    IN  /\ row.drop # None
        /\ floor' = Swept(floor)
        /\ taken' = [taken EXCEPT
                       ![k] = [drop |-> row.drop, left |-> 2 * Lifetime,
                               floor |-> row.left]]
        /\ session' = [session EXCEPT ![s].at = "picks", ![s].key = k,
                                      ![s].claim = row.drop]

\* WorldGround.claim: the row goes off the floor and into the memory.
Claims(s, k) ==
    LET row == Swept(floor)[k]
    IN  /\ row.drop # None
        /\ floor' = [Swept(floor) EXCEPT ![k] = Absent]
        /\ taken' = [taken EXCEPT
                       ![k] = [drop |-> row.drop, left |-> 2 * Lifetime,
                               floor |-> row.left]]
        /\ session' = [session EXCEPT ![s].at = "picks", ![s].key = k,
                                      ![s].claim = row.drop]

\* dispatch_inbound_pickup_request, up to the answer of the floor.
AskFloor(s, k) ==
    /\ session[s].at = "in"
    /\ \/ Claims(s, k)
       \/ /\ Swept(floor)[k].drop = None
          /\ floor' = Swept(floor)
          /\ session' = [session EXCEPT ![s].at = "asks", ![s].key = k]
          /\ UNCHANGED taken
    /\ UNCHANGED <<holder, killer, life, carried>>

\* taken_row, and the look whether the cell holds that very row.
AskTaken(s) ==
    LET k    == session[s].key
        gone == IF taken[k].left = 0 THEN None ELSE taken[k].drop
        cell == IF gone = None THEN session[s] ELSE SweptCell(s)
    IN  /\ session[s].at = "asks"
        /\ taken' = IF gone = None THEN [taken EXCEPT ![k] = Untaken] ELSE taken
        /\ session' = [session EXCEPT ![s] =
               IF gone # None /\ \E j \in Keys : cell.rows[j].drop = gone
                 THEN [cell EXCEPT !.at = "in", !.key = None]
                 ELSE [cell EXCEPT !.at = "picks"]]
        /\ UNCHANGED <<floor, holder, killer, life, carried>>

SlipMayTake(s, d) == holder[session[s].character] = s  \* the killer not looked at

\* precheck_persistable needs the lease, resolve_claim the killer.
MayTake(s, d) ==
    /\ holder[session[s].character] = s
    /\ killer[d] = session[s].character

\* BagCell.commit_pickup: the row leaves the cell.  A key in the cell's memory of
\* expired ones is refused, whatever row has it now.
Take(s) ==
    LET cell == SweptCell(s)
        k    == cell.key
        d    == cell.rows[k].drop
    IN  /\ session[s].at = "picks"
        /\ d # None /\ k \notin cell.expired
        /\ MayTake(s, d)
        /\ session' = [session EXCEPT ![s] =
               [cell EXCEPT !.at = "commits", !.rows[k] = Absent, !.item = d]]
        /\ UNCHANGED <<floor, taken, holder, killer, life, carried>>

SlipReturned(d) ==  \* with a new lifetime
    IF d = None THEN UNCHANGED <<floor, taken>>
    ELSE \E k \in Keys :
           /\ taken[k].drop = d
           /\ taken' = [taken EXCEPT ![k] = Untaken]
           /\ floor' = [floor EXCEPT ![k] = [drop |-> d, left |-> Lifetime]]

\* return_claim: the row goes back with what it has left, if the memory of the
\* claim is still there and nothing took its key.
Returned(d) ==
    IF \A k \in Keys : d = None \/ taken[k].drop # d
      THEN UNCHANGED <<floor, taken>>
      ELSE \E k \in Keys :
             /\ taken[k].drop = d
             /\ taken' = [taken EXCEPT ![k] = Untaken]
             /\ floor' = IF taken[k].floor > 0 /\ floor[k].drop = None
                           THEN [floor EXCEPT ![k] =
                                   [drop |-> d, left |-> taken[k].floor]]
                           ELSE floor

\* The transaction refuses before the take: no such row, not the killer, out of
\* range, no free slot, a cell that is not what the store holds.  A cell that is
\* another character's is refused under a name that may also mean a refusal after
\* the take (POST_TAKE_REFUSALS), and the claim is kept.
Refuse(s) ==
    /\ session[s].at = "picks"
    /\ Returned(session[s].claim) \/ UNCHANGED <<floor, taken>>
    /\ session' = [session EXCEPT ![s] = [SweptCell(s) EXCEPT
                                            !.at = "in", !.key = None,
                                            !.claim = None]]
    /\ UNCHANGED <<holder, killer, life, carried>>

\* More than two is not counted.
Counted(n) == IF n > 2 THEN 2 ELSE n

\* commit_acquired_backpack_item.  When it raises, the drop is lost: the claim
\* does not go back.
Commit(s) ==
    /\ session[s].at = "commits"
    /\ \/ /\ holder[session[s].character] = s
          /\ carried' = [carried EXCEPT ![session[s].item] = Counted(@ + 1)]
       \/ UNCHANGED carried
    /\ session' = [session EXCEPT ![s].at = "in", ![s].key = None,
                                  ![s].claim = None, ![s].item = None]
    /\ UNCHANGED <<floor, taken, holder, killer, life>>

-----------------------------------------------------------------------------
Less(n) == IF n = 0 THEN 0 ELSE n - 1

Aged(rows) == [k \in Keys |-> [rows[k] EXCEPT !.left = Less(@)]]

Tick ==
    /\ floor' = Aged(floor)
    /\ taken' = [k \in Keys |-> [taken[k] EXCEPT !.left = Less(@),
                                                 !.floor = Less(@)]]
    /\ session' = [s \in Sessions |-> [session[s] EXCEPT !.rows = Aged(@)]]
    /\ life' = [d \in Drops |-> Less(life[d])]
    /\ UNCHANGED <<holder, killer, carried>>

Init ==
    /\ floor = [k \in Keys |-> Absent]
    /\ taken = [k \in Keys |-> Untaken]
    /\ session = [s \in Sessions |-> Out]
    /\ holder = [c \in Characters |-> None]
    /\ killer = [d \in Drops |-> None]
    /\ life = [d \in Drops |-> 0]
    /\ carried = [d \in Drops |-> 0]

Next ==
    \/ \E s \in Sessions :
         \/ \E c \in Characters : Login(s, c)
         \/ Logout(s)
         \/ \E d \in Drops : Kill(s, d)
         \/ Remember(s) \/ ReadStanding(s) \/ Admit(s)
         \/ \E k \in Keys : AskFloor(s, k)
         \/ AskTaken(s) \/ Take(s) \/ Refuse(s) \/ Commit(s)
    \/ Tick

Spec == Init /\ [][Next]_vars

-----------------------------------------------------------------------------
(* Properties *)

\* Every variable has its type.
TypeOK ==
    /\ floor \in [Keys -> Row]
    /\ taken \in [Keys -> [drop : Drops \cup {None}, left : 0..(2 * Lifetime),
                           floor : Times]]
    /\ session \in [Sessions -> Session]
    /\ holder \in [Characters -> Sessions \cup {None}]
    /\ killer \in [Drops -> Characters \cup {None}]
    /\ life \in [Drops -> Times]
    /\ carried \in [Drops -> 0..2]

\* One drop becomes at most one row of a bag, whatever sessions click on it.
OneItemPerDrop == \A d \in Drops : carried[d] <= 1

\* A claim is exclusive: what the world handed to one session is neither on the
\* floor nor handed to another one.
ClaimsAreExclusive ==
    \A s \in Sessions : session[s].claim # None =>
        /\ \A t \in Sessions \ {s} : session[t].claim # session[s].claim
        /\ \A k \in Keys : floor[k].drop # session[s].claim

\* However often a drop is claimed and given back, the floor keeps it no longer
\* than the lifetime it fell with.
FloorLifeIsBounded ==
    \A k \in Keys : floor[k].drop # None => floor[k].left <= life[floor[k].drop]

\* What was put in a bag does not stand on the floor, where the next session
\* would be given it.
StandingIsNotCarried ==
    \A k \in Keys : floor[k].drop # None => carried[floor[k].drop] = 0

\* The key a kill gives its drop is not the key of another drop on the floor.
MintedKeysAreNew ==
    [][\A s \in Sessions :
         session[s].at = "in" /\ session'[s].at = "remember"
           => floor[session'[s].key].left = 0]_vars
=============================================================================
