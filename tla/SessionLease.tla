---------------------------- MODULE SessionLease ----------------------------
(***************************************************************************)
(* Session leases and characters: the tables sessions, characters and      *)
(* character_positions of SQLiteStore (store.py), and the FoundationSession*)
(* objects (session.py) that work on them, one per GAME connection.        *)
(*                                                                         *)
(* Every store method is one transaction, hence one step here.  A handler  *)
(* that calls several of them (login, select_and_start, close with a       *)
(* position) is split between the calls, because another connection, a     *)
(* takeover of the lease or the death of the process can come in between.  *)
(* A call that raises before it writes changes nothing and is no step.     *)
(*                                                                         *)
(* An operator named Slip... is a wrong form of the definition after it.   *)
(* Nothing uses it; it shows, substituted, that a property can fail.       *)
(***************************************************************************)
EXTENDS Naturals, FiniteSets

CONSTANTS
    Accounts,      \* rows of table accounts
    Connections,   \* FoundationSession objects alive at the same time
    SessionIds,    \* uuid4 values; bounds the logins of one behaviour
    CharacterIds,  \* row ids; bounds the characters ever created
    Selectors,     \* 0..255 in the code
    Fingerprints,  \* sha256 of a submitted CreateActorDataEx
    None           \* NULL, and the absence of a Python object

ASSUME NoneIsNoRow == None \notin SessionIds \cup CharacterIds \cup Accounts
ASSUME SelectorsAreNumbers == Selectors \subseteq Nat

VARIABLES
    sessions,    \* table sessions
    characters,  \* table characters
    positions,   \* table character_positions: the session whose report it
                 \* holds, None for the position given at birth
    conn         \* the in-memory FoundationSession of each connection

vars == <<sessions, characters, positions, conn>>

-----------------------------------------------------------------------------
(* The rows and the objects *)

SessionRow ==
    [state : {"absent", "open", "closed"}, account : Accounts \cup {None},
     generation : Nat, selected : CharacterIds \cup {None}]

CharacterRow ==
    [state : {"absent", "live", "deleted"}, account : Accounts \cup {None},
     selector : Selectors \cup {None}, fingerprint : Fingerprints \cup {None}]

\* at: where the handler of this connection stands.
\*   "gone"     no object             "listing"  login between its two calls
\*   "ready"    between two requests  "bag"      select committed, bag unread
\*   "counter"  bag read              "exiting"  position saved, lease open
Connection ==
    [at : {"gone", "listing", "ready", "bag", "counter", "exiting"},
     account : Accounts \cup {None}, sid : SessionIds \cup {None},
     loading : CharacterIds \cup {None}, selected : CharacterIds \cup {None},
     started : BOOLEAN, closed : BOOLEAN]

NoSession == [state |-> "absent", account |-> None, generation |-> 0,
              selected |-> None]
NoCharacter == [state |-> "absent", account |-> None, selector |-> None,
                fingerprint |-> None]
NoConnection == [at |-> "gone", account |-> None, sid |-> None,
                 loading |-> None, selected |-> None,
                 started |-> FALSE, closed |-> FALSE]

IsOpen(s) == sessions[s].state = "open"
IsLive(k) == characters[k].state = "live"

LiveOf(a) == {k \in CharacterIds : IsLive(k) /\ characters[k].account = a}

SlipHoldsLease(s, k) == sessions[s].selected = k  \* closed_at not looked at

\* save_position's EXISTS clause: an open session that has k selected.  It does
\* not look at deleted_at.
HoldsLease(s, k) == IsOpen(s) /\ sessions[s].selected = k

\* _require_selected_session: the same, and k is a live row of the account.
OwnsSelected(s, k) ==
    /\ HoldsLease(s, k)
    /\ k \in LiveOf(sessions[s].account)

-----------------------------------------------------------------------------
(* The statements of the store *)

SlipClosing(rows) ==  \* another word for closed than the readers know
    [s \in SessionIds |->
        IF s \in rows /\ IsOpen(s)
            THEN [sessions[s] EXCEPT !.state = "expired"] ELSE sessions[s]]

\* UPDATE sessions SET closed_at=now for those of rows that are open.
Closing(rows) ==
    [s \in SessionIds |->
        IF s \in rows /\ IsOpen(s)
            THEN [sessions[s] EXCEPT !.state = "closed"] ELSE sessions[s]]

RowsOf(a) == {s \in SessionIds : sessions[s].account = a}

\* COALESCE(MAX(lease_generation),0): g is it for account a.
IsTopGeneration(a, g) ==
    \A s \in RowsOf(a) : sessions[s].generation <= g

SlipKeepsOldLease(a, s) ==  \* no takeover
    /\ sessions[s].state = "absent"
    /\ \E g \in {0} \cup {sessions[t].generation : t \in RowsOf(a)} :
         /\ IsTopGeneration(a, g)
         /\ sessions' = [sessions EXCEPT ![s] =
                 [state |-> "open", account |-> a, generation |-> g + 1,
                  selected |-> None]]

SlipReusesGeneration(a, s) ==  \* MAX over the open rows only
    LET open == {t \in RowsOf(a) : IsOpen(t)}
    IN  /\ sessions[s].state = "absent"
        /\ sessions' = [Closing(RowsOf(a)) EXCEPT ![s] =
                 [state |-> "open", account |-> a,
                  generation |-> Cardinality(open) + 1, selected |-> None]]

\* open_session: closes every open lease of the account, then inserts the row.
open_session(a, s) ==
    /\ sessions[s].state = "absent"
    /\ \E g \in {0} \cup {sessions[t].generation : t \in RowsOf(a)} :
         /\ IsTopGeneration(a, g)
         /\ sessions' = [Closing(RowsOf(a)) EXCEPT ![s] =
                 [state |-> "open", account |-> a, generation |-> g + 1,
                  selected |-> None]]

close_session(s) == sessions' = Closing({s})

SlipCountsSelectors(a, n) ==  \* the number of characters for the next selector
    n = Cardinality(LiveOf(a))

\* The lowest selector no live character of the account uses.
IsFreeSelector(a, n) ==
    LET used == {characters[k].selector : k \in LiveOf(a)}
    IN  n \notin used /\ \A m \in Selectors : m < n => m \in used

-----------------------------------------------------------------------------
(* login: ensure_account, open_session, list_characters *)

Login(c, a, s) ==
    /\ conn[c].at = "gone"
    /\ open_session(a, s)
    /\ conn' = [conn EXCEPT ![c] = [NoConnection EXCEPT
                    !.at = "listing", !.account = a, !.sid = s]]
    /\ UNCHANGED <<characters, positions>>

LoginReturns(c) ==
    /\ conn[c].at = "listing"
    /\ conn' = [conn EXCEPT ![c].at = "ready"]
    /\ UNCHANGED <<sessions, characters, positions>>

\* list_characters raises: the new lease is closed, unless that raises too.
LoginFails(c) ==
    /\ conn[c].at = "listing"
    /\ close_session(conn[c].sid) \/ UNCHANGED sessions
    /\ conn' = [conn EXCEPT ![c] = NoConnection]
    /\ UNCHANGED <<characters, positions>>

-----------------------------------------------------------------------------
(* Character select stage *)

\* create_character for a new fingerprint.  A live row with the fingerprint is
\* returned as it is (a retry), which changes nothing.  Neither the lease nor
\* the session id is looked at.
CreateCharacter(c, f, k) ==
    LET a == conn[c].account
    IN  /\ conn[c].at = "ready"
        /\ characters[k].state = "absent"
        /\ \A j \in LiveOf(a) : characters[j].fingerprint # f
        /\ \E n \in Selectors :
             /\ IsFreeSelector(a, n)
             /\ characters' = [characters EXCEPT ![k] =
                    [state |-> "live", account |-> a, selector |-> n,
                     fingerprint |-> f]]
        /\ UNCHANGED <<sessions, positions, conn>>

SlipSelectedByOpenSession(k) ==  \* closed_at test the wrong way round
    \E s \in SessionIds :
        sessions[s].state = "closed" /\ sessions[s].selected = k

SelectedByOpenSession(k) ==
    \E s \in SessionIds : IsOpen(s) /\ sessions[s].selected = k

\* soft_delete_character; the runtime wants the select stage.
SoftDeleteCharacter(c, n) ==
    /\ conn[c].at = "ready"
    /\ conn[c].selected = None
    /\ ~conn[c].started
    /\ IsOpen(conn[c].sid)
    /\ \E k \in LiveOf(sessions[conn[c].sid].account) :
         /\ characters[k].selector = n
         /\ ~SelectedByOpenSession(k)
         /\ characters' = [characters EXCEPT ![k].state = "deleted"]
    /\ UNCHANGED <<sessions, positions, conn>>

SlipMayStart(c) == conn[c].at = "ready"  \* the reply already sent forgotten

\* The runtime answers no start-game request after the first it replied to.
MayStart(c) == conn[c].at = "ready" /\ ~conn[c].started

\* select_and_start, first call: select_character commits the selection.
Select(c, n) ==
    /\ MayStart(c)
    /\ IsOpen(conn[c].sid)
    /\ \E k \in LiveOf(sessions[conn[c].sid].account) :
         /\ characters[k].selector = n
         /\ sessions' = [sessions EXCEPT ![conn[c].sid].selected = k]
         /\ conn' = [conn EXCEPT ![c].at = "bag", ![c].loading = k]
    /\ UNCHANGED <<characters, positions>>

\* Second call: get_backpack, which wants the selection still to be held.
ReadBag(c) ==
    /\ conn[c].at = "bag"
    /\ IF OwnsSelected(conn[c].sid, conn[c].loading)
         THEN conn' = [conn EXCEPT ![c].at = "counter"]
         ELSE conn' = [conn EXCEPT ![c].at = "ready", ![c].loading = None]
    /\ UNCHANGED <<sessions, characters, positions>>

\* Third call: backpack_issued_through, then the admission of the bag.  When it
\* is admitted the object takes the character; the reply may still fail.
EnterWorld(c) ==
    /\ conn[c].at = "counter"
    /\ OwnsSelected(conn[c].sid, conn[c].loading)
    /\ \E replied \in BOOLEAN :
         conn' = [conn EXCEPT ![c].at = "ready", ![c].loading = None,
                      ![c].selected = conn[c].loading, ![c].started = replied]
    /\ UNCHANGED <<sessions, characters, positions>>

\* The lease went away, or the bag was refused.  The selection that Select
\* committed stays on the session row.
RefuseWorld(c) ==
    /\ conn[c].at = "counter"
    /\ conn' = [conn EXCEPT ![c].at = "ready", ![c].loading = None]
    /\ UNCHANGED <<sessions, characters, positions>>

-----------------------------------------------------------------------------
(* In the world, and leaving it *)

\* save_position through checkpoint, in a scene whose positions are kept.
Checkpoint(c) ==
    LET k == conn[c].selected
    IN  /\ conn[c].at = "ready"
        /\ k # None
        /\ HoldsLease(conn[c].sid, k)
        /\ positions' = [positions EXCEPT ![k] = conn[c].sid]
        /\ UNCHANGED <<sessions, characters, conn>>

\* close with a position: lifecycle.exit saves it (not in a scene whose
\* positions are not kept), and only then closes the lease.
ExitSaves(c) ==
    LET k == conn[c].selected
    IN  /\ conn[c].at = "ready"
        /\ k # None
        /\ ~conn[c].closed
        /\ HoldsLease(conn[c].sid, k)
        /\ positions' = [positions EXCEPT ![k] = conn[c].sid]
             \/ UNCHANGED positions
        /\ conn' = [conn EXCEPT ![c].at = "exiting"]
        /\ UNCHANGED <<sessions, characters>>

ExitCloses(c) ==
    /\ conn[c].at = "exiting"
    /\ \/ /\ close_session(conn[c].sid)
          /\ conn' = [conn EXCEPT ![c].at = "ready", ![c].closed = TRUE]
       \/ /\ UNCHANGED sessions
          /\ conn' = [conn EXCEPT ![c].at = "ready"]
    /\ UNCHANGED <<characters, positions>>

\* close_connection (and close without a position) while the socket stays.
CloseConnection(c) ==
    /\ conn[c].at = "ready"
    /\ ~conn[c].closed
    /\ close_session(conn[c].sid)
    /\ conn' = [conn EXCEPT ![c].closed = TRUE]
    /\ UNCHANGED <<characters, positions>>

\* The socket is gone: close_connection runs if it has not yet.  Its error is
\* reported and dropped, and then the lease stays open.  A database error in the
\* middle of select_and_start ends the connection the same way.
Disconnect(c) ==
    /\ conn[c].at \in {"ready", "bag", "counter"}
    /\ \/ ~conn[c].closed /\ close_session(conn[c].sid)
       \/ UNCHANGED sessions
    /\ conn' = [conn EXCEPT ![c] = NoConnection]
    /\ UNCHANGED <<characters, positions>>

\* The process dies and boots again: expire_open_sessions runs before any
\* connection is accepted.
Restart ==
    /\ sessions' = Closing(SessionIds)
    /\ conn' = [c \in Connections |-> NoConnection]
    /\ UNCHANGED <<characters, positions>>

-----------------------------------------------------------------------------
Init ==
    /\ sessions = [s \in SessionIds |-> NoSession]
    /\ characters = [k \in CharacterIds |-> NoCharacter]
    /\ positions = [k \in CharacterIds |-> None]
    /\ conn = [c \in Connections |-> NoConnection]

SelectStage(c) ==
    \/ \E f \in Fingerprints, k \in CharacterIds : CreateCharacter(c, f, k)
    \/ \E n \in Selectors : SoftDeleteCharacter(c, n) \/ Select(c, n)
    \/ ReadBag(c) \/ EnterWorld(c) \/ RefuseWorld(c)

Leaving(c) ==
    \/ ExitSaves(c) \/ ExitCloses(c) \/ CloseConnection(c) \/ Disconnect(c)

Next ==
    \/ \E c \in Connections :
         \/ \E a \in Accounts, s \in SessionIds : Login(c, a, s)
         \/ LoginReturns(c) \/ LoginFails(c)
         \/ SelectStage(c) \/ Checkpoint(c) \/ Leaving(c)
    \/ Restart

Spec == Init /\ [][Next]_vars

-----------------------------------------------------------------------------
(* Properties *)

\* Every variable has its type.
TypeOK ==
    /\ sessions \in [SessionIds -> SessionRow]
    /\ characters \in [CharacterIds -> CharacterRow]
    /\ positions \in [CharacterIds -> SessionIds \cup {None}]
    /\ conn \in [Connections -> Connection]

\* Lease takeover: whatever logins, failed closes and reboots came before, an
\* account has at most one open session, and it is the one of the highest
\* generation ever given to the account (open_session).
NewestLeaseOnly ==
    \A s, t \in SessionIds :
        IsOpen(s) /\ s # t /\ sessions[t].account = sessions[s].account
            => ~IsOpen(t) /\ sessions[t].generation < sessions[s].generation

\* An open session never has a deleted character, or one of another account,
\* selected, though select_character and soft_delete_character run on
\* different connections and selecting is not undone when the bag is refused.
SelectionIsLive ==
    \A s \in SessionIds :
        IsOpen(s) /\ sessions[s].selected # None
            => sessions[s].selected \in LiveOf(sessions[s].account)

\* The UPDATE of select_character cannot run into sessions_one_active_character:
\* two open sessions never select the same character.
OneActiveCharacter ==
    \A s, t \in SessionIds :
        IsOpen(s) /\ IsOpen(t) /\ sessions[s].selected # None
            /\ sessions[s].selected = sessions[t].selected => s = t

\* The INSERT of create_character cannot run into the partial unique indexes of
\* migration 004: live characters of one account differ in selector (hence in
\* the identity made from it) and in fingerprint, though both are used again
\* after a deletion.
LiveCharactersDiffer ==
    \A a \in Accounts : \A j, k \in LiveOf(a) :
        j # k => /\ characters[j].selector # characters[k].selector
                 /\ characters[j].fingerprint # characters[k].fingerprint

\* A connection that got its start-game reply and still has the lease has the
\* same character selected in memory as on its row: its checkpoints go through.
MemoryAgreesWithRow ==
    \A c \in Connections :
        conn[c].started /\ IsOpen(conn[c].sid)
            => sessions[conn[c].sid].selected = conn[c].selected

Generation(s) == IF s = None THEN 0 ELSE sessions[s].generation

\* A stale session never overwrites a newer one's position: the generation of
\* the session a position comes from never goes down (save_position).
PositionsAreFenced ==
    [][\A k \in CharacterIds :
          Generation(positions[k]) <= Generation(positions[k])']_vars

\* A deleted character is history: its position stays as it was, although
\* save_position does not look at deleted_at.
DeletedIsHistory ==
    [][\A k \in CharacterIds :
          characters[k].state = "deleted"
            => UNCHANGED <<characters[k], positions[k]>>]_vars
=============================================================================
