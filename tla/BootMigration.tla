--------------------------- MODULE BootMigration ---------------------------
(***************************************************************************)
(* The boot of the server up to its first connection, app.main: snapshot   *)
(* the database if the boot will change it (persistence_backup), migrate   *)
(* it (SQLiteStore.migrate), close the leases of the dead process, and     *)
(* fill in the classes of old characters behind a snapshot of their own    *)
(* (persistence_class_id_backfill).                                        *)
(*                                                                         *)
(* A step is one call that reaches the disk: a process that dies between   *)
(* two of them leaves what is there, and the next boot starts from it.     *)
(* Between boots the operator may install another release, whose migration *)
(* files are others, restore a snapshot, and lose one to a bad disk.       *)
(*                                                                         *)
(* Left out: databases in memory, the scenario boots, which never migrate  *)
(* or ask for an existing file, and a second process on the same database. *)
(***************************************************************************)
EXTENDS Naturals, FiniteSets

CONSTANTS
    LastVersion,  \* migration files are numbered 1..LastVersion
    Rebuilds,     \* the ones that drop and rename a table, 004 009 014 017 018
    Releases,     \* per release the checksum of every file, 0 for no such file
    Oldest,       \* checksums of the database the first boot finds
    Characters,   \* characters from before class_id was written at creation
    Resolvable,   \* those whose starting gear matches exactly one class
    MaxRows,      \* bound on the rows players write
    MaxEvents,    \* bound on what goes wrong or is done between boots
    Unknown       \* pending_versions of a ledger that cannot be read

Versions == 1..LastVersion

ASSUME ReleasesAreFiles == Releases \subseteq [Versions -> Nat]
ASSUME OldestIsAReleases == Oldest \in [Versions -> Nat]
\* The rows of a table are finitely many.
ASSUME CharactersAreFinite == IsFiniteSet(Characters)
ASSUME BoundsAreNumbers == LastVersion \in Nat /\ MaxRows \in Nat \ {0} /\ MaxEvents \in Nat

VARIABLES
    db,      \* the database file
    shots,   \* the published directories under db_backups
    working, \* the directory being filled; a dead one is read by nobody
    boot,    \* the call the boot is at; "up" once it serves
    label,   \* "premigration" or "classid_backfill", the snapshot under way
    fk,      \* foreign_keys of the migration connection
    todo,    \* characters the backfill listed and has not tried yet
    release, \* the files of the installed release
    before,  \* history: the database when this boot began
    events   \* how many events have been used

vars == <<db, shots, working, boot, label, fk, todo, release, before, events>>

\* ledger: "none" no table, "old" without the checksum column, "new" with it.
\* rows: what players wrote; leases: sessions are open.
Database ==
    [exists : BOOLEAN, wal : BOOLEAN, ledger : {"none", "old", "new"},
     applied : [Versions -> Nat], rows : 0..MaxRows, leases : BOOLEAN,
     classless : SUBSET Characters]

Blank == [exists |-> FALSE, wal |-> FALSE, ledger |-> "none",
          applied |-> [v \in Versions |-> 0], rows |-> 0, leases |-> FALSE,
          classless |-> {}]

\* whole is whether the copy on disk can be read back; finger and pending are
\* source_fingerprint and pending_versions of the manifest.
Snapshot ==
    [whole : BOOLEAN, copy : Database,
     finger : Database, pending : (SUBSET Versions) \cup {Unknown}]

Empty == [whole |-> FALSE, copy |-> Blank, finger |-> Blank, pending |-> {}]

Stages == {"off", "decides", "finds", "copies", "verifies", "publishes", "opens",
           "reads ledger", "applies", "expires", "lists", "fills", "up", "refused"}

Files == {v \in Versions : release[v] # 0}
Applied == {v \in Versions : db.applied[v] # 0}

Happens == events < MaxEvents /\ events' = events + 1

-----------------------------------------------------------------------------
(* Between boots. *)

Start ==
    /\ boot = "off"
    /\ boot' = "decides"
    /\ before' = db
    /\ label' = "premigration"
    /\ UNCHANGED <<db, shots, working, fk, todo, release, events>>

\* The process dies, wherever it is.
Crash ==
    /\ boot # "off"
    /\ Happens
    /\ boot' = "off"
    /\ todo' = {}
    /\ working' = Empty
    /\ UNCHANGED <<db, shots, label, fk, release, before>>

Stop ==
    /\ boot = "up"
    /\ boot' = "off"
    /\ UNCHANGED <<db, shots, working, label, fk, todo, release, before, events>>

\* The operator reads the message and starts the server again.
Retry ==
    /\ boot = "refused"
    /\ boot' = "off"
    /\ UNCHANGED <<db, shots, working, label, fk, todo, release, before, events>>

Install ==
    /\ boot = "off"
    /\ Happens
    /\ release' \in Releases \ {release}
    /\ UNCHANGED <<db, shots, working, boot, label, fk, todo, before>>

\* By the restore hint of the manifest; the file may come in another journal mode.
Restore ==
    /\ boot = "off"
    /\ Happens
    /\ \E s \in shots, wal \in BOOLEAN :
         s.whole /\ db' = [s.copy EXCEPT !.wal = wal]
    /\ UNCHANGED <<shots, working, boot, label, fk, todo, release, before>>

Rot ==
    /\ boot = "off"
    /\ Happens
    /\ \E s \in shots : s.whole /\ shots' = (shots \ {s}) \cup {[s EXCEPT !.whole = FALSE]}
    /\ UNCHANGED <<db, working, boot, label, fk, todo, release, before>>

\* Players write while the server is up, with their leases open.
Play ==
    /\ boot = "up"
    /\ db.rows < MaxRows
    /\ db' = [db EXCEPT !.rows = @ + 1, !.leases = TRUE]
    /\ UNCHANGED <<shots, working, boot, label, fk, todo, release, before, events>>

-----------------------------------------------------------------------------
(* The snapshot. *)

\* pending_versions; the backfill asks for a snapshot without a list.
Pending ==
    IF label = "classid_backfill" \/ db.ledger = "none" THEN Unknown
    ELSE Files \ Applied

SlipShouldSnapshot ==  \* the ledger's own upgrade forgotten
    db.exists /\ (Pending # {} \/ ~db.wal)

ShouldSnapshot == db.exists /\ (Pending # {} \/ ~db.wal \/ db.ledger # "new")

Decide ==
    /\ boot = "decides"
    /\ boot' = IF ShouldSnapshot THEN "finds" ELSE "opens"
    /\ UNCHANGED <<db, shots, working, label, fk, todo, release, before, events>>

\* A BackupError: app.main says that nothing was changed and returns 13.
Refused == boot' = "refused" /\ working' = Empty

AfterSnapshot == IF label = "premigration" THEN "opens" ELSE "fills"

SlipReusable(s) ==  \* the copy on disk is not read again
    s.finger = db /\ s.pending = Pending

\* _find_identical_snapshot with _snapshot_is_still_good.
Reusable(s) == s.finger = db /\ s.pending = Pending /\ s.whole

FindSnapshot ==
    /\ boot = "finds"
    /\ IF \E s \in shots : Reusable(s)
         THEN boot' = AfterSnapshot /\ UNCHANGED <<working, events>>
         ELSE \/ /\ boot' = "copies"
                 /\ working' = [Empty EXCEPT !.finger = db, !.pending = Pending]
                 /\ UNCHANGED events
              \/ Refused /\ Happens                        \* no space
    /\ UNCHANGED <<db, shots, label, fk, todo, release, before>>

\* _copy_consistent: a locked source, a disk that runs out or lies.
Copy ==
    /\ boot = "copies"
    /\ \/ /\ boot' = "verifies"
          /\ \/ working' = [working EXCEPT !.copy = db, !.whole = TRUE]
                /\ UNCHANGED events
             \/ working' = [working EXCEPT !.copy = db] /\ Happens
       \/ Refused /\ Happens
    /\ UNCHANGED <<db, shots, label, fk, todo, release, before>>

SlipIsVerified == TRUE  \* integrity_check ignored

\* _verify_snapshot reads the copy back.
IsVerified == working.whole

Verify ==
    /\ boot = "verifies"
    /\ IF IsVerified THEN boot' = "publishes" /\ UNCHANGED working ELSE Refused
    /\ UNCHANGED <<db, shots, label, fk, todo, release, before, events>>

\* working.rename(final): nothing else gives a directory its published name.
Publish ==
    /\ boot = "publishes"
    /\ \/ /\ boot' = AfterSnapshot
          /\ shots' = shots \cup {working}
          /\ working' = Empty
          /\ UNCHANGED events
       \/ Refused /\ Happens /\ UNCHANGED shots
    /\ UNCHANGED <<db, label, fk, todo, release, before>>

-----------------------------------------------------------------------------
(* SQLiteStore.migrate. *)

\* connect: opening the file makes it, and rewrites its header for WAL.
Open ==
    /\ boot = "opens"
    /\ db' = [db EXCEPT !.exists = TRUE, !.wal = TRUE]
    /\ fk' = TRUE
    /\ boot' = "reads ledger"
    /\ UNCHANGED <<shots, working, label, todo, release, before, events>>

SlipIsNewer == FALSE  \* an older server on a newer schema

IsNewer == Applied \ Files # {}

\* The ledger table is made; or it gets its checksum column, filled with the
\* checksums of the files as they are, in one transaction.  Any error but a
\* BackupError leaves main.
Ledger ==
    /\ boot = "reads ledger"
    /\ db' = CASE db.ledger = "none" -> [db EXCEPT !.ledger = "new"]
               [] db.ledger = "old" /\ ~IsNewer ->
                    [db EXCEPT !.ledger = "new",
                               !.applied = [v \in Versions |->
                                  IF v \in Applied THEN release[v] ELSE 0]]
               [] OTHER -> db
    /\ boot' = IF IsNewer THEN "off" ELSE "applies"
    /\ UNCHANGED <<shots, working, label, fk, todo, release, before, events>>

Mismatched == {v \in Files \cap Applied : db.applied[v] # release[v]}

\* The script of one file and its ledger row are one transaction.  A rebuild
\* drops its table, and with foreign_keys on the rows that refer to it go too:
\* the file commits the empty wrapper first, because inside a transaction the
\* PRAGMA says nothing.  So do all that rebuild: 004, 009, 014, 017 and 018.
SlipForeignKeys(v) == fk  \* the wrapper not committed first

ForeignKeys(v) == fk /\ v \notin Rebuilds

SlipMigratedTwice(v) ==  \* every row of the old table copied twice
    [db EXCEPT !.applied[v] = release[v],
               !.rows = IF v \in Rebuilds THEN 2 * @ ELSE @]

SlipMigrated(v) ==  \* no ledger row
    [db EXCEPT !.rows = IF v \in Rebuilds /\ ForeignKeys(v) THEN 0 ELSE @]

Migrated(v) ==
    [db EXCEPT !.applied[v] = release[v],
               !.rows = IF v \in Rebuilds /\ ForeignKeys(v) THEN 0 ELSE @]

\* The files in their order, those that are applied already for their checksum.
ApplyNext ==
    /\ boot = "applies"
    /\ LET left == (Files \ Applied) \cup Mismatched
       IN \/ /\ left = {}
             /\ boot' = "expires"
             /\ UNCHANGED <<db, fk, events>>
          \/ \E v \in left :
               /\ \A w \in left : v <= w
               /\ \/ /\ v \notin Mismatched
                     /\ db' = Migrated(v)
                     /\ fk' = ForeignKeys(v)
                     /\ UNCHANGED <<boot, events>>
                  \/ /\ boot' = "off"
                     /\ \/ v \in Mismatched /\ UNCHANGED events
                        \/ v \notin Mismatched /\ Happens
                     /\ UNCHANGED <<db, fk>>
    /\ UNCHANGED <<shots, working, label, todo, release, before>>

\* expire_open_sessions.
Expire ==
    /\ boot = "expires"
    /\ db' = [db EXCEPT !.leases = FALSE]
    /\ boot' = "lists"
    /\ UNCHANGED <<shots, working, label, fk, todo, release, before, events>>

-----------------------------------------------------------------------------
(* backfill_missing_class_ids. *)

List ==
    /\ boot = "lists"
    /\ todo' = db.classless
    /\ label' = "classid_backfill"
    /\ boot' = IF db.classless = {} THEN "up" ELSE "finds"
    /\ UNCHANGED <<db, shots, working, fk, release, before, events>>

\* One transaction per character; a write that is refused is passed over.
Fill ==
    /\ boot = "fills"
    /\ \E c \in todo :
         /\ todo' = todo \ {c}
         /\ boot' = IF todo = {c} THEN "up" ELSE "fills"
         /\ \/ db' = [db EXCEPT !.classless = @ \ (Resolvable \cap {c})]
               /\ UNCHANGED events
            \/ Happens /\ UNCHANGED db
    /\ UNCHANGED <<shots, working, label, fk, release, before>>

Init ==
    /\ db \in {Blank, [exists |-> TRUE, wal |-> FALSE, ledger |-> "old",
                       applied |-> Oldest, rows |-> 1, leases |-> TRUE,
                       classless |-> Characters]}
    /\ shots = {}
    /\ working = Empty
    /\ boot = "off"
    /\ label = "premigration"
    /\ fk = TRUE
    /\ todo = {}
    /\ release \in Releases
    /\ before = db
    /\ events = 0

Boot ==
    \/ Start \/ Retry \/ Decide \/ FindSnapshot \/ Copy \/ Verify \/ Publish
    \/ Open \/ Ledger \/ ApplyNext \/ Expire \/ List \/ Fill

Next == Boot \/ Crash \/ Stop \/ Install \/ Restore \/ Rot \/ Play

\* The operating system runs the process, and the operator starts it again.
Spec == Init /\ [][Next]_vars /\ WF_vars(Boot)

-----------------------------------------------------------------------------
(* Properties *)

\* Every variable has its type.
TypeOK ==
    /\ db \in Database
    /\ \A s \in shots \cup {working} : s \in Snapshot
    /\ boot \in Stages
    /\ label \in {"premigration", "classid_backfill"}
    /\ fk \in BOOLEAN
    /\ todo \subseteq Characters
    /\ release \in Releases
    /\ before \in Database
    /\ events \in 0..MaxEvents

Saved(d) == \E s \in shots : s.whole /\ s.copy = d

\* What a boot does to the schema, to the ledger or to the file's header, it does
\* to a database of which a copy can be read back, as it was when the boot began.
MigrationsAreSaved ==
    \/ boot = "off"
    \/ ~before.exists
    \/ <<db.wal, db.ledger, db.applied>> = <<before.wal, before.ledger, before.applied>>
    \/ Saved(before)

\* What the backfill writes, it writes behind a copy that has none of it.
ClassesAreSaved ==
    boot = "fills" => \E s \in shots :
        /\ s.whole
        /\ s.copy = [db EXCEPT !.classless = before.classless]

\* A published directory held, when it got its name, the database it says.
PublishedIsWhole ==
    [][\A s \in shots' \ shots :
         (boot # "off") => (s.whole /\ s.copy = s.finger /\ s.copy = db)]_vars

\* A server serves only the schema of its own files, with no lease left over from
\* the process before it.
ServedSchemaIsOwn ==
    [][boot # "up" /\ boot' = "up" =>
         /\ db'.applied = release
         /\ db'.ledger = "new"
         /\ ~db'.leases]_vars

\* No migration costs the players a row, whichever tables it rebuilds, in
\* whatever boot it runs.
RowsSurvive ==
    [][boot = "applies" => db'.rows = db.rows]_vars

Compatible ==
    /\ Applied \subseteq Files
    /\ db.ledger = "old" \/ \A v \in Applied : db.applied[v] = release[v]

\* No crash, full disk or failing script leaves a database that the server of its
\* schema cannot be started on again.
ComesUp == []<>(boot = "up" \/ ~Compatible)

\* app.py says so when it returns 13: the database has not been changed.
RefusedIsUnchanged == boot = "refused" => db = before
=============================================================================
