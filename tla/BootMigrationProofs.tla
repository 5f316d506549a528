------------------------ MODULE BootMigrationProofs ------------------------
(***************************************************************************)
(* The safety properties of BootMigration for any number of files,         *)
(* releases, characters and events.  The argument follows the boot: up to  *)
(* the opening of the database nothing has changed; what is opened is      *)
(* saved or needs no change; from the last file on the schema is that of   *)
(* the release.  Each part is an invariant of its own.                     *)
(***************************************************************************)
EXTENDS BootMigration, FiniteSetTheorems, TLAPS

Copying == {"finds", "copies", "verifies", "publishes"}

\* The stages of the boot before and after the file is opened.
Early == {"decides", "opens"} \cup Copying

PastOpen ==
    \/ boot \in {"reads ledger", "applies", "expires", "lists", "fills"}
    \/ label = "classid_backfill" /\ boot \in Copying

LabelFits ==
    /\ boot \in {"decides", "opens", "reads ledger", "applies", "expires", "lists"}
         => label = "premigration"
    /\ boot = "fills" => label = "classid_backfill"

\* A copy that can be read back is what its manifest says.
ShotsAreTrue == \A s \in shots : s.whole => s.copy = s.finger

\* So is the one being made, and the database is still the same.
WorkingIsTrue ==
    /\ boot \in {"copies", "verifies", "publishes"} => working.finger = db
    /\ boot \in {"verifies", "publishes"} => working.copy = db
    /\ boot = "publishes" => working.whole

Copies == LabelFits /\ ShotsAreTrue /\ WorkingIsTrue

\* Until it is opened the database is what the boot has found.
StillBefore ==
    /\ label = "premigration" /\ boot \in Early => db = before
    /\ boot \in Early \/ (PastOpen /\ boot # "fills") => db.classless = before.classless

Kept ==
    <<db.wal, db.ledger, db.applied>> = <<before.wal, before.ledger, before.applied>>

\* Nothing is left for the migration to do.
Quiet == Kept /\ db.wal /\ db.ledger = "new" /\ Files \subseteq Applied

SavedFirst ==
    /\ boot = "opens" /\ before.exists
         => \/ Saved(before)
            \/ db.wal /\ db.ledger = "new" /\ Files \subseteq Applied
    /\ PastOpen /\ before.exists => Saved(before) \/ Quiet
    /\ boot \in {"up", "refused"} /\ before.exists => Saved(before) \/ Kept

\* The schema of the release, from the last file on; no leases, from the expiry on.
SchemaFits ==
    /\ boot = "applies" => db.ledger = "new" /\ Applied \subseteq Files
    /\ PastOpen /\ boot \notin {"reads ledger", "applies"}
         => db.ledger = "new" /\ db.applied = release
    /\ PastOpen /\ boot \notin {"reads ledger", "applies", "expires"} => ~db.leases

-----------------------------------------------------------------------------
(* Types *)

\* The database no boot has seen yet.
LEMMA BlankIsADatabase == Blank \in Database /\ Empty \in Snapshot
<1>1. Blank \in Database
  BY BoundsAreNumbers DEF Blank, Database
<1>2. QED
  BY <1>1 DEF Empty, Snapshot

\* What migrating one file does.
LEMMA MigratedFacts ==
  ASSUME db \in Database, NEW v \in Versions, release \in [Versions -> Nat]
  PROVE  /\ Migrated(v) \in Database
         /\ Migrated(v).rows = db.rows
         /\ Migrated(v).ledger = db.ledger /\ Migrated(v).wal = db.wal
         /\ Migrated(v).classless = db.classless
         /\ Migrated(v).applied = [db.applied EXCEPT ![v] = release[v]]
         /\ Migrated(v).exists = db.exists
<1>1. Migrated(v) = [db EXCEPT !.applied = [db.applied EXCEPT ![v] = release[v]],
                               !.rows = db.rows]
  BY DEF Migrated, ForeignKeys, Database
<1> DEFINE new == [db.applied EXCEPT ![v] = release[v]]
<1>2. new \in [Versions -> Nat]
  BY DEF Database
<1> HIDE DEF new
<1>3. [db EXCEPT !.applied = new, !.rows = db.rows] \in Database
  BY <1>2 DEF Database
<1>4. QED
  BY <1>1, <1>3 DEF Database, new

\* Initially every variable has its type.
LEMMA InitTyped == Init => TypeOK
<1> SUFFICES ASSUME Init PROVE TypeOK
  OBVIOUS
<1>1. db \in Database
  <2>1. [exists |-> TRUE, wal |-> FALSE, ledger |-> "old", applied |-> Oldest, rows |-> 1,
         leases |-> TRUE, classless |-> Characters] \in Database
    BY BoundsAreNumbers, OldestIsAReleases DEF Database
  <2>2. QED
    BY <2>1, BlankIsADatabase DEF Init
<1>2. QED
  BY <1>1, BlankIsADatabase, BoundsAreNumbers DEF Init, TypeOK, Stages

\* The files of a release have numbers.
LEMMA FilesFacts ==
  ASSUME TypeOK
  PROVE  /\ release \in [Versions -> Nat] /\ db.applied \in [Versions -> Nat]
         /\ Files \subseteq Versions /\ Applied \subseteq Versions
  BY ReleasesAreFiles DEF TypeOK, Files, Applied, Database

\* What Snapshot and Database say of a working directory and a published one.
LEMMA ShotFacts ==
  ASSUME TypeOK
  PROVE  /\ [Empty EXCEPT !.finger = db, !.pending = Pending] \in Snapshot
         /\ [working EXCEPT !.copy = db, !.whole = TRUE] \in Snapshot
         /\ [working EXCEPT !.copy = db] \in Snapshot
         /\ \A s \in shots : [s EXCEPT !.whole = FALSE] \in Snapshot
<1>1. Pending \in (SUBSET Versions) \cup {Unknown}
  BY DEF Pending, Files, Applied
<1>2. db \in Database /\ working \in Snapshot /\ \A s \in shots : s \in Snapshot
  BY DEF TypeOK
<1>3. QED
  BY <1>1, <1>2, BlankIsADatabase DEF Snapshot

\* What ledger the migration finds or makes.
LEMMA LedgerFacts ==
  ASSUME TypeOK, Ledger
  PROVE  /\ db' \in Database
         /\ db'.wal = db.wal /\ db'.rows = db.rows /\ db'.classless = db.classless
         /\ boot' = "applies" => db'.ledger = "new" /\ Applied' \subseteq Files
         /\ db.ledger = "new" => db' = db
<1>1. /\ db \in Database /\ release \in [Versions -> Nat] /\ Applied \subseteq Versions
      /\ release' = release /\ Files' = Files
  BY FilesFacts DEF TypeOK, Ledger, Files
<1>2. CASE db.ledger = "none"
  <2>1. db' = [db EXCEPT !.ledger = "new"]
    BY <1>2 DEF Ledger
  <2>2. db'.applied = db.applied
    BY <1>1, <2>1 DEF Database
  <2>3. QED
    BY <1>1, <1>2, <2>1, <2>2 DEF Database, Ledger, IsNewer, Applied
<1>3. CASE db.ledger = "old" /\ ~IsNewer
  <2> DEFINE sums == [v \in Versions |-> IF v \in Applied THEN release[v] ELSE 0]
  <2>1. db' = [db EXCEPT !.ledger = "new", !.applied = sums]
    BY <1>3 DEF Ledger
  <2>2. sums \in [Versions -> Nat]
    BY <1>1
  <2>3. Applied' \subseteq Files
    <3>1. db'.applied = sums
      BY <1>1, <2>1 DEF Database
    <3>2. QED
      BY <1>1, <1>3, <3>1 DEF Applied, IsNewer
  <2> HIDE DEF sums
  <2>4. QED
    BY <1>1, <1>3, <2>1, <2>2, <2>3 DEF Database
<1>4. CASE db.ledger = "old" /\ IsNewer
  BY <1>1, <1>4 DEF Ledger
<1>5. CASE db.ledger = "new"
  BY <1>1, <1>5 DEF Ledger, IsNewer, Applied
<1>6. QED
  BY <1>1, <1>2, <1>3, <1>4, <1>5 DEF Database

\* What one step of the boot does to the database; all other steps leave it alone.
LEMMA DatabaseSteps ==
  ASSUME TypeOK
  PROVE  /\ Open => /\ db' \in Database
                    /\ db'.wal /\ db'.ledger = db.ledger /\ db'.applied = db.applied
                    /\ db'.rows = db.rows /\ db'.classless = db.classless
         /\ Expire => /\ db' \in Database /\ ~db'.leases
                      /\ db'.wal = db.wal /\ db'.ledger = db.ledger
                      /\ db'.applied = db.applied /\ db'.rows = db.rows
                      /\ db'.classless = db.classless
         /\ Fill => /\ db' \in Database
                    /\ db' = [db EXCEPT !.classless = db'.classless]
                    /\ db'.wal = db.wal /\ db'.ledger = db.ledger
                    /\ db'.applied = db.applied /\ db'.rows = db.rows
                    /\ db'.leases = db.leases
         /\ Play => /\ db' \in Database
                    /\ db'.wal = db.wal /\ db'.ledger = db.ledger
                    /\ db'.applied = db.applied
<1>1. db \in Database
  BY DEF TypeOK
<1>2. ASSUME Open
      PROVE  /\ db' \in Database
             /\ db'.wal /\ db'.ledger = db.ledger /\ db'.applied = db.applied
             /\ db'.rows = db.rows /\ db'.classless = db.classless
  BY <1>1, <1>2 DEF Open, Database
<1>3. ASSUME Expire
      PROVE  /\ db' \in Database /\ ~db'.leases
             /\ db'.wal = db.wal /\ db'.ledger = db.ledger
             /\ db'.applied = db.applied /\ db'.rows = db.rows
             /\ db'.classless = db.classless
  BY <1>1, <1>3 DEF Expire, Database
<1>4. ASSUME Fill
      PROVE  /\ db' \in Database
             /\ db' = [db EXCEPT !.classless = db'.classless]
             /\ db'.wal = db.wal /\ db'.ledger = db.ledger
             /\ db'.applied = db.applied /\ db'.rows = db.rows
             /\ db'.leases = db.leases
  <2>1. PICK left \in SUBSET Characters : db' = [db EXCEPT !.classless = left]
    <3>1. db = [db EXCEPT !.classless = db.classless] /\ db.classless \in SUBSET Characters
      BY <1>1 DEF Database
    <3>2. \/ db' = db
          \/ \E c \in todo :
               db' = [db EXCEPT !.classless = db.classless \ (Resolvable \cap {c})]
      BY <1>4 DEF Fill
    <3>3. QED
      BY <3>1, <3>2
  <2>2. QED
    BY <1>1, <2>1 DEF Database
<1>5. ASSUME Play
      PROVE  /\ db' \in Database
             /\ db'.wal = db.wal /\ db'.ledger = db.ledger
             /\ db'.applied = db.applied
  <2>1. db.rows + 1 \in 0..MaxRows
    BY <1>1, <1>5, BoundsAreNumbers DEF Play, Database
  <2>2. QED
    BY <1>1, <1>5, <2>1 DEF Play, Database
<1>6. QED
  BY <1>2, <1>3, <1>4, <1>5

\* The steps that leave the database alone.
LEMMA DatabaseStays ==
  ASSUME [Next]_vars
  PROVE  Open \/ Ledger \/ ApplyNext \/ Expire \/ Fill \/ Restore \/ Play \/ db' = db
  BY DEF Next, vars, Boot, Start, Retry, Decide, FindSnapshot, Copy, Verify, Publish, List,
     Crash, Stop, Install, Rot

\* Every step keeps the type of the database.
LEMMA DatabaseIsTyped ==
  ASSUME TypeOK, [Next]_vars
  PROVE  db' \in Database
<1>1. CASE ApplyNext
  <2>1. db' = db \/ \E v \in Versions : db' = Migrated(v)
    BY <1>1, FilesFacts DEF ApplyNext, Mismatched
  <2>2. QED
    BY <2>1, MigratedFacts, FilesFacts DEF TypeOK
<1>2. CASE Restore
  <2>1. PICK t \in shots, wal \in BOOLEAN : db' = [t.copy EXCEPT !.wal = wal]
    BY <1>2 DEF Restore
  <2>2. t.copy \in Database
    BY DEF TypeOK, Snapshot
  <2>3. QED
    BY <2>1, <2>2 DEF Database
<1>3. QED
  BY <1>1, <1>2, LedgerFacts, DatabaseSteps, DatabaseStays DEF TypeOK

\* Every step keeps the types of the directories.
LEMMA ShotsAreTyped ==
  ASSUME TypeOK, [Next]_vars
  PROVE  \A s \in shots' \cup {working'} : s \in Snapshot
<1>1. working' \in Snapshot
  <2>1. \/ working' \in {working, Empty, [working EXCEPT !.copy = db]}
        \/ working' = [Empty EXCEPT !.finger = db, !.pending = Pending]
        \/ working' = [working EXCEPT !.copy = db, !.whole = TRUE]
    BY DEF Next, vars, Boot, Start, Retry, Decide, FindSnapshot, Copy, Verify, Publish,
       Refused, List, Crash, Stop, Install, Rot, Open, Ledger, ApplyNext, Expire, Fill,
       Restore, Play
  <2>2. QED
    BY <2>1, ShotFacts, BlankIsADatabase DEF TypeOK
<1>2. \A s \in shots' : s \in Snapshot
  <2>1. \/ shots' = shots \/ shots' = shots \cup {working}
        \/ \E s \in shots : shots' = (shots \ {s}) \cup {[s EXCEPT !.whole = FALSE]}
    BY DEF Next, vars, Boot, Start, Retry, Decide, FindSnapshot, Copy, Verify, Publish,
       Refused, List, Crash, Stop, Install, Rot, Open, Ledger, ApplyNext, Expire, Fill,
       Restore, Play
  <2>2. QED
    BY <2>1, ShotFacts DEF TypeOK
<1>3. QED
  BY <1>1, <1>2

\* Every step keeps the types of all variables.
LEMMA NextTyped == TypeOK /\ [Next]_vars => TypeOK'
<1> SUFFICES ASSUME TypeOK, [Next]_vars PROVE TypeOK'
  OBVIOUS
<1>1. /\ boot' \in Stages
      /\ label' \in {"premigration", "classid_backfill"}
  BY DEF TypeOK, Stages, AfterSnapshot, Next, vars, Boot, Start, Retry, Decide,
     FindSnapshot, Copy, Verify, Publish, Refused, List, Crash, Stop, Install, Rot, Open,
     Ledger, ApplyNext, Expire, Fill, Restore, Play
<1>2. fk' \in BOOLEAN
  BY DEF TypeOK, ForeignKeys, Next, vars, Boot, Start, Retry, Decide,
     FindSnapshot, Copy, Verify, Publish, Refused, List, Crash, Stop, Install, Rot, Open,
     Ledger, ApplyNext, Expire, Fill, Restore, Play
<1>3. todo' \subseteq Characters
  BY DEF TypeOK, Database, Next, vars, Boot, Start, Retry, Decide,
     FindSnapshot, Copy, Verify, Publish, Refused, List, Crash, Stop, Install, Rot, Open,
     Ledger, ApplyNext, Expire, Fill, Restore, Play
<1>4. release' \in Releases /\ before' \in Database
  BY DEF TypeOK, Next, vars, Boot, Start, Retry, Decide,
     FindSnapshot, Copy, Verify, Publish, Refused, List, Crash, Stop, Install, Rot, Open,
     Ledger, ApplyNext, Expire, Fill, Restore, Play
<1>5. events' \in 0..MaxEvents
  <2>1. events' = events \/ Happens
    BY DEF Next, vars, Boot, Start, Retry, Decide,
       FindSnapshot, Copy, Verify, Publish, Refused, List, Crash, Stop, Install, Rot, Open,
       Ledger, ApplyNext, Expire, Fill, Restore, Play
  <2>2. QED
    BY <2>1, BoundsAreNumbers DEF Happens, TypeOK
<1>6. QED
  BY <1>1, <1>2, <1>3, <1>4, <1>5, DatabaseIsTyped, ShotsAreTyped DEF TypeOK

\* The variables keep their types.
THEOREM TypeCorrect == Spec => []TypeOK
  BY InitTyped, NextTyped, PTL DEF Spec

-----------------------------------------------------------------------------
(* The copies *)

\* Nothing has been copied before the first boot.
LEMMA InitCopies == Init => Copies
  BY DEF Init, Copies, LabelFits, ShotsAreTrue, WorkingIsTrue

\* Every step keeps the labels.
LEMMA NextLabel == TypeOK /\ LabelFits /\ [Next]_vars => LabelFits'
  BY DEF TypeOK, LabelFits, AfterSnapshot, Next, vars, Boot, Start, Retry, Decide,
     FindSnapshot, Copy, Verify, Publish, Refused, List, Crash, Stop, Install, Rot, Open,
     Ledger, ApplyNext, Expire, Fill, Restore, Play

\* While a copy is made, only its directory changes.
LEMMA NextWorking ==
  ASSUME TypeOK, WorkingIsTrue, [Next]_vars
  PROVE  WorkingIsTrue'
<1>1. working \in Snapshot /\ Empty \in Snapshot /\ db \in Database
  BY BlankIsADatabase DEF TypeOK
<1>2. CASE FindSnapshot
  <2>1. boot' = "copies" => working' = [Empty EXCEPT !.finger = db, !.pending = Pending]
    BY <1>2 DEF FindSnapshot, Refused, AfterSnapshot
  <2>2. db' = db /\ boot' \notin {"verifies", "publishes"}
    BY <1>2 DEF FindSnapshot, Refused, AfterSnapshot
  <2>3. QED
    BY <1>1, <2>1, <2>2 DEF WorkingIsTrue, Snapshot
<1>3. CASE Copy
  <2>1. boot' # "refused" =>
          \/ working' = [working EXCEPT !.copy = db]
          \/ working' = [working EXCEPT !.copy = db, !.whole = TRUE]
    BY <1>3 DEF Copy, Refused
  <2>2. db' = db /\ boot = "copies" /\ boot' \in {"refused", "verifies"}
    BY <1>3 DEF Copy, Refused
  <2>3. QED
    BY <1>1, <2>1, <2>2 DEF WorkingIsTrue, Snapshot
<1>4. CASE Verify
  BY <1>4 DEF WorkingIsTrue, Verify, IsVerified, Refused
<1>5. CASE ~FindSnapshot /\ ~Copy /\ ~Verify
  <2>1. \/ boot' \notin {"copies", "verifies", "publishes"}
        \/ UNCHANGED <<boot, working, db>>
    BY <1>5 DEF AfterSnapshot, Next, vars, Boot, Start, Retry, Decide,
       Publish, Refused, List, Crash, Stop, Install, Rot, Open, Ledger, ApplyNext, Expire,
       Fill, Restore, Play
  <2>2. QED
    BY <2>1 DEF WorkingIsTrue
<1>6. QED
  BY <1>2, <1>3, <1>4, <1>5

\* Only Publish adds a directory, and what it adds is true.
LEMMA NextShots ==
  ASSUME TypeOK, WorkingIsTrue, [Next]_vars
  PROVE  /\ ShotsAreTrue => ShotsAreTrue'
         /\ \A s \in shots' \ shots :
              boot # "off" => s.whole /\ s.copy = s.finger /\ s.copy = db
<1>1. CASE Rot
  <2>1. PICK s \in shots : shots' = (shots \ {s}) \cup {[s EXCEPT !.whole = FALSE]}
    BY <1>1 DEF Rot
  <2>2. [s EXCEPT !.whole = FALSE].whole = FALSE
    BY DEF TypeOK, Snapshot
  <2>3. QED
    BY <1>1, <2>1, <2>2 DEF ShotsAreTrue, Rot
<1>2. CASE Publish
  <2>1. /\ shots' \subseteq shots \cup {working} /\ boot = "publishes"
    BY <1>2 DEF Publish
  <2>2. QED
    BY <2>1 DEF WorkingIsTrue, ShotsAreTrue
<1>3. CASE ~Rot /\ ~Publish
  <2>1. shots' = shots
    BY <1>3 DEF Next, vars, Boot, Start, Retry, Decide, FindSnapshot, Copy, Verify,
       Refused, List, Crash, Stop, Install, Open, Ledger, ApplyNext, Expire, Fill,
       Restore, Play
  <2>2. QED
    BY <2>1 DEF ShotsAreTrue
<1>4. QED
  BY <1>1, <1>2, <1>3

\* Every step keeps the copies true.
LEMMA NextCopies == TypeOK /\ Copies /\ [Next]_vars => Copies'
  BY NextLabel, NextWorking, NextShots DEF Copies

\* A published directory held, when it got its name, the database it says.
THEOREM CopiesAreWhole == Spec => PublishedIsWhole
<1>1. TypeOK /\ Copies /\ [Next]_vars =>
        [\A s \in shots' \ shots :
           (boot # "off") => (s.whole /\ s.copy = s.finger /\ s.copy = db)]_vars
  BY NextShots DEF Copies
<1>2. QED
  BY <1>1, InitCopies, NextCopies, TypeCorrect, PTL DEF Spec, PublishedIsWhole

-----------------------------------------------------------------------------
(* What the boot has changed, and where it is saved *)

\* The steps of the boot that leave the database alone.
Still ==
    \/ Start \/ Retry \/ Decide \/ FindSnapshot \/ Copy \/ Verify \/ Publish \/ List
    \/ Crash \/ Stop \/ Install \/ Rot

\* No step but Start changes what the boot remembers, and none of a boot what is
\* installed or saved.
LEMMA BootFrame ==
  ASSUME [Next]_vars, boot # "off"
  PROVE  /\ before' = before /\ release' = release /\ Files' = Files
         /\ shots \subseteq shots' /\ \A d : Saved(d) => Saved(d)'
<1>1. before' = before /\ release' = release /\ shots \subseteq shots'
  BY DEF Next, vars, Boot, Start, Retry, Decide, FindSnapshot, Copy, Verify, Publish,
     Refused, List, Crash, Stop, Install, Rot, Open, Ledger, ApplyNext, Expire, Fill,
     Restore, Play
<1>2. QED
  BY <1>1 DEF Saved, Files

\* Where the stages lead.
LEMMA StageSteps ==
  ASSUME TypeOK, LabelFits, [Next]_vars, boot' # "off"
  PROVE  \/ Start
         \/ Still /\ boot # "off" /\ db' = db
         \/ Open /\ boot = "opens" /\ boot' = "reads ledger" /\ label' = label
         \/ Ledger /\ boot = "reads ledger" /\ boot' = "applies" /\ label' = label
         \/ ApplyNext /\ boot = "applies" /\ boot' \in {"applies", "expires"}
              /\ label' = label
         \/ Expire /\ boot = "expires" /\ boot' = "lists" /\ label' = label
         \/ Fill /\ boot = "fills" /\ boot' \in {"fills", "up"} /\ label' = label
         \/ Play /\ boot = "up" /\ boot' = "up"
         \/ UNCHANGED vars
<1>1. CASE Still
  <2>1. db' = db
    BY <1>1 DEF Still, Start, Retry, Decide, FindSnapshot, Copy, Verify, Publish, List,
       Crash, Stop, Install, Rot
  <2>2. Start \/ boot # "off"
    BY <1>1 DEF Still, Retry, Decide, FindSnapshot, Copy, Verify, Publish, List, Crash,
       Stop, Install, Rot
  <2>3. QED
    BY <1>1, <2>1, <2>2
<1>2. CASE ApplyNext
  BY <1>2 DEF ApplyNext
<1>3. CASE Open \/ Ledger \/ Expire \/ Fill \/ Play
  BY <1>3 DEF Open, Ledger, Expire, Fill, Play
<1>4. ~Restore
  BY DEF Restore
<1>5. QED
  BY <1>1, <1>2, <1>3, <1>4 DEF Next, Boot, Still

\* How the still steps go on.
LEMMA StillSteps ==
  ASSUME TypeOK, LabelFits, Still, boot # "off", boot' # "off"
  PROVE  /\ Decide => boot = "decides" /\ label' = label
                       /\ boot' = (IF ShouldSnapshot THEN "finds" ELSE "opens")
         /\ List => boot = "lists" /\ boot' \in {"up", "finds"}
                     /\ label = "premigration" /\ label' = "classid_backfill"
         /\ ~Decide /\ ~List =>
              /\ boot \in Copying /\ label' = label
              /\ boot' \in Copying \cup {AfterSnapshot, "refused"}
              /\ boot' = AfterSnapshot => Publish \/ FindSnapshot
  BY DEF Start, Retry, Decide, FindSnapshot, Copy, Verify, Publish, AfterSnapshot,
     Refused, List, Crash, Stop, Install, Rot, Still, Copying, LabelFits

\* A snapshot that is reused or published can be read back, and is the database.
LEMMA SnapshotIsTaken ==
  ASSUME TypeOK, Copies, [Next]_vars, FindSnapshot \/ Publish, boot' = AfterSnapshot
  PROVE  Saved(db)'
<1>1. CASE FindSnapshot
  <2>1. \E s \in shots : Reusable(s)
    BY <1>1 DEF FindSnapshot, AfterSnapshot, Refused
  <2>2. \E s \in shots : s.whole /\ s.copy = db
    BY <2>1 DEF Reusable, Copies, ShotsAreTrue
  <2>3. db' = db /\ shots' = shots
    BY <1>1 DEF FindSnapshot
  <2>4. QED
    BY <2>2, <2>3 DEF Saved
<1>2. CASE Publish
  <2>1. working \in shots'
    BY <1>2 DEF Publish, Refused, AfterSnapshot
  <2>2. working.whole /\ working.copy = db /\ db' = db
    BY <1>2 DEF Publish, Copies, WorkingIsTrue
  <2>3. QED
    BY <2>1, <2>2 DEF Saved
<1>3. QED
  BY <1>1, <1>2

\* Up to the opening nothing changes, and the migration writes no class.
LEMMA NextStillBefore ==
  ASSUME TypeOK, LabelFits, StillBefore, [Next]_vars
  PROVE  StillBefore'
<1>1. CASE boot' = "off"
  BY <1>1 DEF StillBefore, Early, Copying, PastOpen
<1>2. CASE Start
  BY <1>2 DEF Start, StillBefore, Early, Copying, PastOpen
<1>3. CASE Still /\ boot # "off" /\ boot' # "off" /\ db' = db
  <2>1. before' = before
    BY <1>3, BootFrame
  <2>2. QED
    BY <1>3, <2>1, StillSteps DEF StillBefore, Early, Copying, PastOpen, AfterSnapshot, TypeOK,
       LabelFits
<1>4. CASE ApplyNext /\ boot = "applies" /\ boot' # "off"
  <2>1. before' = before
    BY <1>4, BootFrame
  <2>2. db' = db \/ \E v \in Versions : db' = Migrated(v)
    BY <1>4, FilesFacts DEF ApplyNext, Mismatched
  <2>3. db'.classless = db.classless
    BY <2>2, MigratedFacts, FilesFacts DEF TypeOK
  <2>4. boot' \in {"applies", "expires"}
    BY <1>4 DEF ApplyNext
  <2>5. QED
    BY <1>4, <2>1, <2>3, <2>4 DEF StillBefore, Early, Copying, PastOpen
<1>5. CASE /\ Open \/ Ledger \/ Expire \/ Fill \/ Play
           /\ boot # "off" /\ boot' # "off"
  <2>1. before' = before
    BY <1>5, BootFrame
  <2>2. boot' \notin Early
    BY <1>5 DEF Early, Copying, Open, Ledger, Expire, Fill, Play
  <2>3. boot' \in {"fills", "up"} \/ db'.classless = db.classless
    BY <1>5, DatabaseSteps, LedgerFacts DEF Play, Fill
  <2>4. boot' \in {"fills", "up"} \/ boot \in Early \/ (PastOpen /\ boot # "fills")
    BY <1>5 DEF Open, Ledger, Expire, Fill, Play, PastOpen, Early
  <2>5. QED
    BY <2>1, <2>2, <2>3, <2>4 DEF StillBefore, PastOpen, Early, Copying
<1>6. CASE UNCHANGED vars
  BY <1>6 DEF vars, StillBefore, PastOpen
<1>7. QED
  BY <1>1, <1>2, <1>3, <1>4, <1>5, <1>6, StageSteps

\* What is opened is saved or has all it needs, and it stays so.
LEMMA NextSavedFirst ==
  ASSUME TypeOK, Copies, StillBefore, SchemaFits, SavedFirst, [Next]_vars
  PROVE  SavedFirst'
<1> USE DEF Copies
<1>1. CASE boot' = "off"
  BY <1>1 DEF SavedFirst, PastOpen, Copying
<1>2. CASE Start
  BY <1>2 DEF Start, SavedFirst, PastOpen, Copying
<1>3. CASE UNCHANGED vars
  BY <1>3 DEF vars, SavedFirst, PastOpen, Saved, Quiet, Kept, Files, Applied
<1> SUFFICES ASSUME boot # "off", boot' # "off", ~Start, ~UNCHANGED vars,
                    before'.exists
             PROVE  SavedFirst'
  BY <1>1, <1>2, <1>3, StageSteps DEF SavedFirst
<1>4. /\ before' = before /\ Files' = Files /\ before.exists
      /\ Saved(before) => Saved(before)'
  BY BootFrame
<1>5. CASE Still /\ db' = db
  <2>1. Applied' = Applied /\ (Quiet <=> Quiet') /\ (Kept <=> Kept')
    BY <1>4, <1>5 DEF Applied, Quiet, Kept
  <2>2. CASE Decide
    <3>1. /\ boot = "decides" /\ label = "premigration" /\ label' = label /\ db = before
          /\ boot' = (IF ShouldSnapshot THEN "finds" ELSE "opens")
      BY <1>5, <2>2, StillSteps DEF LabelFits, StillBefore, Early
    <3>2. ~ShouldSnapshot => db.wal /\ db.ledger = "new" /\ Files \subseteq Applied
      BY <1>4, <3>1 DEF ShouldSnapshot, Pending
    <3>3. QED
      BY <1>4, <1>5, <2>1, <3>1, <3>2 DEF SavedFirst, PastOpen
  <2>3. CASE List
    <3>1. /\ boot = "lists" /\ boot' \in {"up", "finds"}
      BY <1>5, <2>3, StillSteps
    <3>2. Saved(before) \/ Quiet
      BY <1>4, <3>1 DEF SavedFirst, PastOpen
    <3>3. QED
      BY <1>4, <2>1, <3>1, <3>2 DEF SavedFirst, Quiet
  <2>4. CASE ~Decide /\ ~List
    <3>1. /\ boot \in Copying /\ label' = label
          /\ boot' \in Copying \cup {AfterSnapshot, "refused"}
          /\ boot' = AfterSnapshot => Publish \/ FindSnapshot
      BY <1>5, <2>4, StillSteps
    <3>2. CASE label = "premigration"
      <4>1. db = before
        BY <3>1, <3>2 DEF StillBefore, Early
      <4>2. boot' = "opens" => Saved(before)'
        BY <1>4, <1>5, <3>1, <3>2, <4>1, SnapshotIsTaken DEF AfterSnapshot, Copying
      <4>3. boot' \in Copying \cup {"opens", "refused"}
        BY <3>1, <3>2 DEF AfterSnapshot
      <4>4. QED
        BY <1>4, <1>5, <3>1, <3>2, <4>1, <4>2, <4>3 DEF SavedFirst, PastOpen, Kept, Copying
    <3>3. CASE label = "classid_backfill"
      <4>1. Saved(before) \/ Quiet
        BY <1>4, <3>1, <3>3 DEF SavedFirst, PastOpen
      <4>2. boot' \in Copying \cup {"fills", "refused"}
        BY <3>1, <3>3 DEF AfterSnapshot
      <4>3. QED
        BY <1>4, <2>1, <4>1, <4>2 DEF SavedFirst, PastOpen, Copying, Quiet
    <3>4. QED
      BY <3>2, <3>3 DEF TypeOK
  <2>5. QED
    BY <2>2, <2>3, <2>4
<1>6. CASE Open /\ boot = "opens" /\ boot' = "reads ledger" /\ label' = label
  <2>1. db = before /\ label = "premigration"
    BY <1>6 DEF StillBefore, LabelFits, Early
  <2>2. db'.wal /\ db'.ledger = db.ledger /\ db'.applied = db.applied
    BY <1>6, DatabaseSteps
  <2>3. Saved(before)' \/ Quiet'
    BY <1>4, <1>6, <2>1, <2>2 DEF SavedFirst, Quiet, Kept, Applied
  <2>4. QED
    BY <1>4, <1>6, <2>3 DEF SavedFirst
<1>7. CASE Ledger /\ boot = "reads ledger" /\ boot' = "applies" /\ label' = label
  <2>1. Saved(before) \/ Quiet
    BY <1>4, <1>7 DEF SavedFirst, PastOpen
  <2>2. Quiet => db' = db
    BY <1>7, LedgerFacts DEF Quiet
  <2>3. QED
    BY <1>4, <1>7, <2>1, <2>2 DEF SavedFirst, Quiet, Kept, Applied
<1>8. CASE ApplyNext /\ boot = "applies" /\ boot' \in {"applies", "expires"}
            /\ label' = label
  <2>1. Saved(before) \/ Quiet
    BY <1>4, <1>8 DEF SavedFirst, PastOpen
  <2>2. Quiet => db' = db
    BY <1>8 DEF Quiet, ApplyNext, Mismatched
  <2>3. QED
    BY <1>4, <1>8, <2>1, <2>2 DEF SavedFirst, Quiet, Kept, Applied
<1>9. CASE /\ Expire \/ Fill \/ Play
           /\ boot \in {"expires", "fills", "up"} /\ boot' \in {"lists", "fills", "up"}
           /\ (boot = "up") => (boot' = "up")
  <2>1. db'.wal = db.wal /\ db'.ledger = db.ledger /\ db'.applied = db.applied
    BY <1>9, DatabaseSteps
  <2>2. (Quiet <=> Quiet') /\ (Kept <=> Kept')
    BY <1>4, <2>1 DEF Quiet, Kept, Applied
  <2>3. Saved(before) \/ Kept
    BY <1>4, <1>9 DEF SavedFirst, PastOpen, Quiet
  <2>4. boot # "up" => Saved(before) \/ Quiet
    BY <1>4, <1>9 DEF SavedFirst, PastOpen
  <2>5. QED
    BY <1>4, <1>9, <2>2, <2>3, <2>4 DEF SavedFirst, PastOpen, Copying
<1>10. QED
  BY <1>5, <1>6, <1>7, <1>8, <1>9, StageSteps

\* From the last file on the schema is that of the release, with no ledger row of
\* another; from the expiry on there are no leases.
LEMMA NextSchemaFits ==
  ASSUME TypeOK, LabelFits, SchemaFits, [Next]_vars
  PROVE  SchemaFits'
<1>1. CASE boot' = "off"
  BY <1>1 DEF SchemaFits, PastOpen, Copying
<1>2. CASE Start
  BY <1>2 DEF Start, SchemaFits, PastOpen, Copying
<1>3. CASE UNCHANGED vars
  BY <1>3 DEF vars, SchemaFits, PastOpen, Files, Applied
<1> SUFFICES ASSUME boot # "off", boot' # "off", ~Start, ~UNCHANGED vars
             PROVE  SchemaFits'
  BY <1>1, <1>2, <1>3, StageSteps
<1>4. release' = release /\ Files' = Files
  BY BootFrame
<1>5. CASE Still /\ db' = db
  <2>1. Applied' = Applied
    BY <1>5 DEF Applied
  <2>2. boot' # "applies" /\ boot' # "expires" /\ boot' # "reads ledger"
    BY <1>5, StillSteps DEF Copying, AfterSnapshot
  <2>3. PastOpen' => PastOpen /\ boot \notin {"reads ledger", "applies", "expires"}
    BY <1>5, StillSteps DEF PastOpen, Copying, AfterSnapshot, LabelFits, TypeOK
  <2>4. QED
    BY <1>4, <1>5, <2>1, <2>2, <2>3 DEF SchemaFits
<1>6. CASE Open /\ boot = "opens" /\ boot' = "reads ledger" /\ label' = label
  BY <1>6 DEF SchemaFits
<1>7. CASE Ledger /\ boot = "reads ledger" /\ boot' = "applies" /\ label' = label
  BY <1>4, <1>7, LedgerFacts DEF SchemaFits
<1>8. CASE ApplyNext /\ boot = "applies" /\ boot' \in {"applies", "expires"}
            /\ label' = label
  <2>1. db.ledger = "new" /\ Applied \subseteq Files
    BY <1>8 DEF SchemaFits
  <2>2. CASE boot' = "expires"
    <3>1. db' = db /\ Files \subseteq Applied /\ Mismatched = {}
      BY <1>8, <2>2 DEF ApplyNext
    <3>2. \A v \in Versions : db.applied[v] = release[v]
      BY <2>1, <3>1, FilesFacts DEF Mismatched, Files, Applied
    <3>3. db.applied = release
      BY <3>2, FilesFacts
    <3>4. QED
      BY <1>4, <2>1, <2>2, <3>1, <3>3 DEF SchemaFits, PastOpen, Copying
  <2>3. CASE boot' = "applies"
    <3>1. PICK v \in Versions : v \in Files /\ db' = Migrated(v)
      BY <1>8, <2>3, FilesFacts DEF ApplyNext, Mismatched
    <3>2. /\ db'.ledger = db.ledger
          /\ db'.applied = [db.applied EXCEPT ![v] = release[v]]
      BY <3>1, MigratedFacts, FilesFacts DEF TypeOK
    <3>3. Applied' \subseteq Files
      BY <2>1, <3>1, <3>2, FilesFacts DEF Applied
    <3>4. QED
      BY <1>4, <2>1, <2>3, <3>2, <3>3 DEF SchemaFits, PastOpen
  <2>4. QED
    BY <1>8, <2>2, <2>3
<1>9. CASE Expire /\ boot = "expires" /\ boot' = "lists"
  BY <1>4, <1>9, DatabaseSteps DEF SchemaFits, PastOpen
<1>10. CASE Fill /\ boot = "fills" /\ boot' \in {"fills", "up"}
  BY <1>4, <1>10, DatabaseSteps DEF SchemaFits, PastOpen, Copying
<1>11. CASE Play /\ boot = "up" /\ boot' = "up"
  BY <1>11 DEF SchemaFits, PastOpen, Copying
<1>12. QED
  BY <1>5, <1>6, <1>7, <1>8, <1>9, <1>10, <1>11, StageSteps

\* The backfill starts behind a copy of what it changes.
LEMMA NextClassesAreSaved ==
  ASSUME TypeOK, Copies, StillBefore, ClassesAreSaved, [Next]_vars
  PROVE  ClassesAreSaved'
<1> USE DEF Copies
<1> SUFFICES ASSUME boot' = "fills" PROVE ClassesAreSaved'
  BY DEF ClassesAreSaved
<1>1. CASE UNCHANGED vars
  BY <1>1 DEF vars, ClassesAreSaved
<1>2. CASE Still /\ boot # "off" /\ db' = db
  <2>1. boot' = AfterSnapshot /\ (Publish \/ FindSnapshot) /\ boot \in Copying
    BY <1>2, StillSteps DEF Copying, AfterSnapshot
  <2>2. PICK s \in shots' : s.whole /\ s.copy = db
    BY <1>2, <2>1, SnapshotIsTaken DEF Saved
  <2>3. db.classless = before'.classless
    BY <1>2, <2>1, BootFrame DEF StillBefore, Early
  <2>4. db = [db EXCEPT !.classless = db.classless]
    BY DEF TypeOK, Database
  <2>5. QED
    BY <1>2, <2>2, <2>3, <2>4 DEF ClassesAreSaved
<1>3. CASE Fill /\ boot = "fills"
  <2>1. /\ shots' = shots /\ before' = before
    BY <1>3 DEF Fill
  <2>2. [db' EXCEPT !.classless = before.classless]
          = [db EXCEPT !.classless = before.classless]
    <3>1. db \in Database /\ db' = [db EXCEPT !.classless = db'.classless]
      BY <1>3, DatabaseSteps DEF TypeOK
    <3>2. PICK left : db' = [db EXCEPT !.classless = left]
      BY <3>1
    <3>3. QED
      BY <3>1, <3>2 DEF Database
  <2>3. QED
    BY <1>3, <2>1, <2>2 DEF ClassesAreSaved
<1>4. QED
  BY <1>1, <1>2, <1>3, StageSteps DEF Start

-----------------------------------------------------------------------------
(* The theorems *)

BootIsSound ==
    Copies /\ StillBefore /\ SavedFirst /\ SchemaFits /\ ClassesAreSaved

\* Nothing has happened before the first boot.
LEMMA InitSound == Init => BootIsSound
<1>1. Init => StillBefore /\ SavedFirst /\ SchemaFits /\ ClassesAreSaved
  BY DEF Init, StillBefore, SavedFirst, SchemaFits, ClassesAreSaved, Early, PastOpen, Copying
<1>2. QED
  BY <1>1, InitCopies DEF BootIsSound

\* Every step keeps the argument of the boot.
LEMMA NextSound == TypeOK /\ BootIsSound /\ [Next]_vars => BootIsSound'
  BY NextCopies, NextStillBefore, NextSavedFirst, NextSchemaFits, NextClassesAreSaved
     DEF BootIsSound, Copies

\* The argument of the boot holds wherever the process dies and whatever the operator
\* does in between.
THEOREM BootStaysSound == Spec => []BootIsSound
  BY InitSound, NextSound, TypeCorrect, PTL DEF Spec

\* Whatever a boot does to the schema, the ledger or the header of the file, it does
\* behind a copy that can be read back of what it found.
THEOREM MigrationsStaySaved == Spec => []MigrationsAreSaved
<1>1. TypeOK /\ BootIsSound => MigrationsAreSaved
  <2> SUFFICES ASSUME TypeOK, BootIsSound, boot # "off", before.exists
               PROVE  Saved(before) \/ Kept
    BY DEF MigrationsAreSaved, Kept
  <2>1. CASE label = "premigration" /\ boot \in Early
    BY <2>1 DEF BootIsSound, StillBefore, Kept
  <2>2. CASE PastOpen \/ boot \in {"up", "refused"}
    BY <2>2 DEF BootIsSound, SavedFirst, Quiet
  <2>3. boot \in Early \/ PastOpen \/ boot \in {"up", "refused"}
    BY DEF TypeOK, Stages, Early, Copying, PastOpen
  <2>4. boot \in {"decides", "opens"} => label = "premigration"
    BY DEF BootIsSound, Copies, LabelFits
  <2>5. QED
    BY <2>1, <2>2, <2>3, <2>4 DEF TypeOK, Early, PastOpen
<1>2. QED
  BY <1>1, TypeCorrect, BootStaysSound, PTL

\* The backfill of the classes writes behind a copy that has none of what it writes.
THEOREM ClassesStaySaved == Spec => []ClassesAreSaved
<1>1. BootIsSound => ClassesAreSaved
  BY DEF BootIsSound
<1>2. QED
  BY <1>1, BootStaysSound, PTL

\* A server that begins to serve serves the schema of its own files and no lease of the
\* process before it.
THEOREM OwnSchemaIsServed == Spec => ServedSchemaIsOwn
<1>1. TypeOK /\ BootIsSound /\ [Next]_vars =>
        [boot # "up" /\ boot' = "up" =>
           /\ db'.applied = release
           /\ db'.ledger = "new"
           /\ ~db'.leases]_vars
  <2> SUFFICES ASSUME TypeOK, BootIsSound, [Next]_vars, boot # "up", boot' = "up"
               PROVE  db'.applied = release /\ db'.ledger = "new" /\ ~db'.leases
    OBVIOUS
  <2>1. LabelFits /\ SchemaFits
    BY DEF BootIsSound, Copies
  <2>2. CASE Fill /\ boot = "fills"
    BY <2>1, <2>2, DatabaseSteps DEF SchemaFits, PastOpen
  <2>3. CASE Still /\ boot # "off" /\ db' = db
    <3>1. boot = "lists"
      BY <2>1, <2>3, StillSteps DEF Copying, AfterSnapshot
    <3>2. QED
      BY <2>1, <2>3, <3>1 DEF SchemaFits, PastOpen
  <2>4. QED
    BY <2>1, <2>2, <2>3, StageSteps DEF Start, vars
<1>2. QED
  BY <1>1, TypeCorrect, BootStaysSound, PTL DEF Spec, ServedSchemaIsOwn

\* No migration costs a row: a file that rebuilds a table has switched the foreign keys
\* off, in whatever boot and after whichever file it runs.
THEOREM RowsAreKept == Spec => RowsSurvive
<1>1. TypeOK /\ [Next]_vars => [boot = "applies" => db'.rows = db.rows]_vars
  <2> SUFFICES ASSUME TypeOK, [Next]_vars, boot = "applies"
               PROVE  db'.rows = db.rows
    OBVIOUS
  <2>1. CASE ApplyNext
    <3>1. db' = db \/ \E v \in Versions : db' = Migrated(v)
      BY <2>1, FilesFacts DEF ApplyNext, Mismatched
    <3>2. QED
      BY <3>1, MigratedFacts, FilesFacts DEF TypeOK
  <2>2. CASE ~ApplyNext
    BY <2>2, DatabaseStays DEF Open, Ledger, Expire, Fill, Restore, Play
  <2>3. QED
    BY <2>1, <2>2
<1>2. QED
  BY <1>1, TypeCorrect, PTL DEF Spec, RowsSurvive

-----------------------------------------------------------------------------
(* A boot that nothing disturbs comes up *)

\* No trouble is left, and the schema is one that the installed release can serve.
Undisturbed == events = MaxEvents /\ Compatible

\* The backfill has tried nobody before its snapshot is there.
Listed ==
    label = "classid_backfill" /\ boot \in Copying => todo = db.classless

\* How many calls lie between this one and serving, the files and the characters not
\* counted.  The call after the snapshot is Open, or the first Fill.
AfterCopy == IF label = "classid_backfill" THEN 1 ELSE 10

CallsLeft ==
    IF boot = "fills" THEN 1
    ELSE IF boot = "lists" THEN 6
    ELSE IF boot = "expires" THEN 7
    ELSE IF boot = "applies" THEN 8
    ELSE IF boot = "reads ledger" THEN 9
    ELSE IF boot = "opens" THEN 10
    ELSE IF boot = "publishes" THEN AfterCopy + 1
    ELSE IF boot = "verifies" /\ working.whole THEN AfterCopy + 2
    ELSE IF boot = "copies" THEN AfterCopy + 3
    ELSE IF boot = "finds" THEN AfterCopy + 4
    ELSE IF boot = "decides" THEN 15
    ELSE IF boot = "off" THEN 16
    ELSE IF boot = "refused" THEN 17
    ELSE 18  \* a bad copy is about to be refused

\* With them: one call for every file not applied, and one for every character that
\* has no class, or that the backfill has not tried yet.
Work ==
    IF boot = "up" THEN 0
    ELSE CallsLeft + Cardinality(Files \ Applied)
           + Cardinality(IF boot = "fills" THEN todo ELSE db.classless)

\* The numbers the work is made of.
Numbers ==
    /\ IsFiniteSet(Files \ Applied) /\ IsFiniteSet(todo) /\ IsFiniteSet(db.classless)
    /\ Cardinality(Files \ Applied) \in 0..LastVersion
    /\ Cardinality(todo) \in 0..Cardinality(Characters)
    /\ Cardinality(db.classless) \in 0..Cardinality(Characters)
    /\ Cardinality(Characters) \in Nat
    /\ CallsLeft \in 1..18

\* They are numbers, and no larger than what there is.
LEMMA WorkFacts == TypeOK => Numbers
<1> SUFFICES ASSUME TypeOK PROVE Numbers
  OBVIOUS
<1>1. IsFiniteSet(Versions) /\ Cardinality(Versions) = LastVersion
  BY BoundsAreNumbers, FS_Interval DEF Versions
<1>2. IsFiniteSet(Files \ Applied) /\ Cardinality(Files \ Applied) \in 0..LastVersion
  <2>1. Files \ Applied \subseteq Versions
    BY FilesFacts
  <2>2. IsFiniteSet(Files \ Applied)
          /\ Cardinality(Files \ Applied) <= Cardinality(Versions)
    BY <1>1, <2>1, FS_Subset
  <2>3. QED
    BY <1>1, <2>2, FS_CardinalityType
<1>3. /\ IsFiniteSet(todo) /\ Cardinality(todo) \in 0..Cardinality(Characters)
      /\ IsFiniteSet(db.classless)
      /\ Cardinality(db.classless) \in 0..Cardinality(Characters)
  <2>1. todo \subseteq Characters /\ db.classless \subseteq Characters
    BY DEF TypeOK, Database
  <2>2. QED
    BY <2>1, CharactersAreFinite, FS_Subset, FS_CardinalityType
<1>4. AfterCopy \in {1, 10}
  BY DEF AfterCopy
<1>5. CallsLeft \in 1..18
  <2>1. CASE AfterCopy = 1
    BY <2>1 DEF CallsLeft
  <2>2. CASE AfterCopy = 10
    BY <2>2 DEF CallsLeft
  <2>3. QED
    BY <1>4, <2>1, <2>2
<1>6. QED
  BY <1>2, <1>3, <1>5, CharactersAreFinite, FS_CardinalityType DEF Numbers

\* The list of the backfill is that of the database while its snapshot is made.
LEMMA NextListed ==
  ASSUME TypeOK, BootIsSound, Listed, [Next]_vars
  PROVE  Listed'
<1> SUFFICES ASSUME label' = "classid_backfill", boot' \in Copying
             PROVE  todo' = db'.classless
  BY DEF Listed
<1>1. boot \in Copying /\ label = "classid_backfill" => todo = db.classless
  BY DEF Listed
<1>2. LabelFits
  BY DEF BootIsSound, Copies
<1>3. CASE List
  BY <1>3 DEF List
<1>4. CASE FindSnapshot \/ Copy \/ Verify \/ Publish \/ UNCHANGED vars
  BY <1>1, <1>4 DEF FindSnapshot, Copy, Verify, Publish, vars, Copying
<1>5. ~(Start \/ Retry \/ Crash \/ Stop \/ Install \/ Restore \/ Rot \/ Play \/ Decide
          \/ Open \/ Ledger \/ ApplyNext \/ Expire \/ Fill)
  BY <1>2 DEF Start, Retry, Crash, Stop, Install, Restore, Rot, Play, Decide, Open,
     Ledger, ApplyNext, Expire, Fill, Copying, LabelFits
<1>6. QED
  BY <1>3, <1>4, <1>5 DEF Next, Boot

\* While nothing is in the way, a step that only moves the boot on brings it nearer.
LEMMA StillIsNearer ==
  ASSUME TypeOK, BootIsSound, Listed, Undisturbed, [Next]_vars,
         \/ Start \/ Retry \/ Decide \/ FindSnapshot \/ Copy \/ Verify \/ Publish \/ List
  PROVE  /\ db' = db /\ release' = release /\ events' = events
         /\ boot # "up"
         /\ boot' # "up" =>
              /\ CallsLeft' < CallsLeft
              /\ (IF boot = "fills" THEN todo ELSE db.classless)'
                   = (IF boot = "fills" THEN todo ELSE db.classless)
<1>1. ~Happens
  BY DEF Undisturbed, Happens, TypeOK
<1>2. db' = db /\ release' = release /\ events' = events /\ boot # "up"
  BY <1>1 DEF Start, Retry, Decide, FindSnapshot, Copy, Verify, Publish, List
<1>3. LabelFits /\ AfterCopy \in {1, 10} /\ (label' = label => AfterCopy' = AfterCopy)
  BY DEF BootIsSound, Copies, AfterCopy
<1>4. CASE Start
  BY <1>2, <1>4 DEF Start, CallsLeft
<1>5. CASE Retry
  BY <1>2, <1>5 DEF Retry, CallsLeft
<1>6. CASE Decide
  BY <1>2, <1>3, <1>6 DEF Decide, CallsLeft, AfterCopy, LabelFits
<1>7. CASE FindSnapshot
  <2>1. /\ boot = "finds" /\ boot' \in {"copies", AfterSnapshot}
        /\ label' = label /\ todo' = todo
    BY <1>1, <1>7 DEF FindSnapshot
  <2>2. boot' = "copies" => CallsLeft' < CallsLeft
    BY <1>3, <2>1 DEF CallsLeft
  <2>3. boot' = AfterSnapshot => CallsLeft' < CallsLeft
    BY <1>3, <2>1 DEF CallsLeft, AfterCopy, AfterSnapshot, TypeOK
  <2>4. boot' = "fills" => label = "classid_backfill"
    BY <2>1 DEF AfterSnapshot, TypeOK
  <2>5. QED
    BY <1>2, <2>1, <2>2, <2>3, <2>4 DEF Listed, Copying
<1>8. CASE Copy
  <2>1. /\ boot = "copies" /\ boot' = "verifies"
        /\ working' = [working EXCEPT !.copy = db, !.whole = TRUE]
        /\ label' = label /\ todo' = todo
    BY <1>1, <1>8 DEF Copy
  <2>2. working'.whole
    BY <2>1 DEF TypeOK, Snapshot
  <2>3. QED
    BY <1>2, <1>3, <2>1, <2>2 DEF CallsLeft
<1>9. CASE Verify
  <2>1. /\ boot = "verifies" /\ label' = label /\ todo' = todo
        /\ boot' = IF working.whole THEN "publishes" ELSE "refused"
    BY <1>9 DEF Verify, IsVerified, Refused
  <2>2. QED
    BY <1>2, <1>3, <2>1 DEF CallsLeft
<1>10. CASE Publish
  <2>1. /\ boot = "publishes" /\ boot' = AfterSnapshot
        /\ label' = label /\ todo' = todo
    BY <1>1, <1>10 DEF Publish
  <2>2. CallsLeft' < CallsLeft
    BY <1>3, <2>1 DEF CallsLeft, AfterCopy, AfterSnapshot, TypeOK
  <2>3. boot' = "fills" => label = "classid_backfill"
    BY <2>1 DEF AfterSnapshot, TypeOK
  <2>4. QED
    BY <1>2, <2>1, <2>2, <2>3 DEF Listed, Copying
<1>11. CASE List
  BY <1>2, <1>3, <1>11 DEF List, CallsLeft, AfterCopy
<1>12. QED
  BY <1>2, <1>4, <1>5, <1>6, <1>7, <1>8, <1>9, <1>10, <1>11

\* A step that leaves the schema alone leaves it compatible, and as much to apply.
LEMMA SchemaStays ==
  ASSUME Compatible, release' = release, db'.applied = db.applied,
         db'.ledger = db.ledger \/ db.ledger = "none"
  PROVE  Compatible' /\ (Files \ Applied)' = Files \ Applied
BY DEF Compatible, Files, Applied

\* Nor do the steps that write bring trouble, and each leaves less to do.
LEMMA WritesAreNearer ==
  ASSUME TypeOK, BootIsSound, Undisturbed, [Next]_vars,
         Open \/ Ledger \/ ApplyNext \/ Expire \/ Fill
  PROVE  events' = events /\ Compatible' /\ boot # "up" /\ (boot' # "up" => Work' < Work)
<1>1. ~Happens
  BY DEF Undisturbed, Happens, TypeOK
<1>2. /\ db \in Database /\ release \in [Versions -> Nat] /\ Applied \subseteq Files
      /\ Files \subseteq Versions /\ Compatible
  BY FilesFacts DEF TypeOK, Undisturbed, Compatible
<1>3. TypeOK'
  BY NextTyped
<1>4. SchemaFits
  BY DEF BootIsSound
<1> DEFINE left == Cardinality(Files \ Applied)
           chars == Cardinality(IF boot = "fills" THEN todo ELSE db.classless)
<1>5. /\ left \in Nat /\ left' \in Nat /\ chars \in Nat /\ chars' \in Nat
      /\ CallsLeft \in Nat /\ CallsLeft' \in Nat
  <2>1. Numbers /\ (TypeOK => Numbers)'
    BY WorkFacts, PTL
  <2>2. Numbers'
    BY <1>3, <2>1
  <2>3. QED
    BY <2>1, <2>2 DEF Numbers
<1>6. boot # "up" => Work = CallsLeft + left + chars
  BY DEF Work
<1>7. boot' # "up" => Work' = CallsLeft' + left' + chars'
  BY DEF Work
<1>8. CASE Open
  <2>1. /\ db'.applied = db.applied /\ db'.ledger = db.ledger
        /\ db'.classless = db.classless /\ release' = release /\ events' = events
        /\ boot = "opens" /\ boot' = "reads ledger"
    BY <1>2, <1>8 DEF Open, Database
  <2>2. Compatible' /\ (Files \ Applied)' = Files \ Applied
    BY <1>2, <2>1, SchemaStays
  <2>3. CallsLeft = 10 /\ CallsLeft' = 9
    BY <2>1 DEF CallsLeft
  <2>4. left' = left /\ chars' = chars
    BY <2>1, <2>2
  <2>5. Work = CallsLeft + left + chars /\ Work' = CallsLeft' + left' + chars'
    BY <1>6, <1>7, <2>1
  <2> HIDE DEF left, chars
  <2>6. Work' < Work
    BY <1>5, <2>3, <2>4, <2>5
  <2>7. QED
    BY <2>1, <2>2, <2>6
<1>9. CASE Ledger
  <2>1. /\ boot = "reads ledger" /\ boot' = "applies" /\ release' = release
        /\ events' = events /\ ~IsNewer
    BY <1>2, <1>9 DEF Ledger, IsNewer
  <2>2. db'.classless = db.classless
    BY <1>9, LedgerFacts
  <2>3. Compatible' /\ (Files \ Applied)' = Files \ Applied
    <3>1. CASE db.ledger = "old"
      <4> DEFINE sums == [v \in Versions |-> IF v \in Applied THEN release[v] ELSE 0]
      <4>1. db' = [db EXCEPT !.ledger = "new", !.applied = sums]
        BY <1>9, <2>1, <3>1 DEF Ledger
      <4>2. db'.applied = sums
        BY <1>2, <4>1 DEF Database
      <4>3. \A v \in Versions : db'.applied[v] = IF v \in Applied THEN release[v] ELSE 0
        BY <4>2
      <4>4. Applied' = Applied /\ Files' = Files
        BY <1>2, <2>1, <4>3 DEF Applied, Files
      <4>5. QED
        BY <1>2, <2>1, <4>3, <4>4 DEF Compatible
    <3>2. CASE db.ledger # "old"
      <4>1. db'.applied = db.applied /\ (db'.ledger = db.ledger \/ db.ledger = "none")
        BY <1>2, <1>9, <3>2 DEF Ledger, Database
      <4>2. QED
        BY <1>2, <2>1, <4>1, SchemaStays
    <3>3. QED
      BY <3>1, <3>2
  <2>4. CallsLeft = 9 /\ CallsLeft' = 8
    BY <2>1 DEF CallsLeft
  <2>5. left' = left /\ chars' = chars
    BY <2>1, <2>2, <2>3
  <2>6. Work = CallsLeft + left + chars /\ Work' = CallsLeft' + left' + chars'
    BY <1>6, <1>7, <2>1
  <2> HIDE DEF left, chars
  <2>7. Work' < Work
    BY <1>5, <2>4, <2>5, <2>6
  <2>8. QED
    BY <2>1, <2>3, <2>7
<1>10. CASE ApplyNext
  <2>1. boot = "applies" /\ Mismatched = {} /\ release' = release /\ db.ledger = "new"
    BY <1>2, <1>4, <1>10 DEF ApplyNext, SchemaFits, Compatible, Mismatched
  <2>2. CASE boot' = "expires" /\ db' = db /\ events' = events
    <3>1. Compatible' /\ (Files \ Applied)' = Files \ Applied
      BY <1>2, <2>1, <2>2, SchemaStays
    <3>2. CallsLeft = 8 /\ CallsLeft' = 7
      BY <2>1, <2>2 DEF CallsLeft
    <3>3. left' = left /\ chars' = chars
      BY <2>1, <2>2, <3>1
    <3> HIDE DEF left, chars
    <3>4. QED
      BY <1>5, <1>6, <1>7, <2>1, <2>2, <3>1, <3>2, <3>3
  <2>3. ASSUME NEW v \in Files \ Applied, db' = Migrated(v), boot' = boot,
               events' = events
        PROVE  events' = events /\ Compatible' /\ boot # "up"
                 /\ (boot' # "up" => Work' < Work)
    <3>1. v \in Versions /\ v \in Files /\ v \notin Applied
      BY <1>2, <2>3
    <3>2. /\ db'.ledger = db.ledger /\ db'.classless = db.classless
          /\ db'.applied = [db.applied EXCEPT ![v] = release[v]]
      BY <1>2, <2>3, <3>1, MigratedFacts
    <3>3. \A w \in Versions : db'.applied[w] = IF w = v THEN release[v] ELSE db.applied[w]
      BY <1>2, <3>1, <3>2 DEF Database
    <3>4. Files' = Files /\ Applied' = Applied \cup {v}
      BY <2>1, <3>1, <3>3 DEF Files, Applied
    <3>5. Compatible'
      BY <1>2, <2>1, <3>1, <3>2, <3>3, <3>4 DEF Compatible
    <3>6. left' = left - 1
      <4>1. (Files \ Applied)' = (Files \ Applied) \ {v}
        BY <3>4
      <4>2. QED
        BY <3>1, <4>1, WorkFacts, FS_RemoveElement DEF Numbers
    <3>7. chars' = chars /\ CallsLeft' = CallsLeft
      BY <2>1, <2>3, <3>2 DEF CallsLeft
    <3> HIDE DEF left, chars
    <3>8. QED
      BY <1>5, <1>6, <1>7, <2>1, <2>3, <3>5, <3>6, <3>7
  <2>4. \/ boot' = "expires" /\ db' = db /\ events' = events
        \/ \E v \in Files \ Applied :
             db' = Migrated(v) /\ boot' = boot /\ events' = events
    BY <1>1, <1>10, <2>1 DEF ApplyNext
  <2>5. QED
    BY <2>2, <2>3, <2>4
<1>11. CASE Expire
  <2>1. /\ db'.applied = db.applied /\ db'.ledger = db.ledger
        /\ db'.classless = db.classless /\ release' = release /\ events' = events
        /\ boot = "expires" /\ boot' = "lists"
    BY <1>2, <1>11 DEF Expire, Database
  <2>2. Compatible' /\ (Files \ Applied)' = Files \ Applied
    BY <1>2, <2>1, SchemaStays
  <2>3. CallsLeft = 7 /\ CallsLeft' = 6
    BY <2>1 DEF CallsLeft
  <2>4. left' = left /\ chars' = chars
    BY <2>1, <2>2
  <2> HIDE DEF left, chars
  <2>5. QED
    BY <1>5, <1>6, <1>7, <2>1, <2>2, <2>3, <2>4
<1>12. CASE Fill
  <2>1. PICK c \in todo :
          /\ todo' = todo \ {c} /\ boot' = IF todo = {c} THEN "up" ELSE "fills"
          /\ db' = [db EXCEPT !.classless = @ \ (Resolvable \cap {c})]
          /\ events' = events
    BY <1>1, <1>12 DEF Fill
  <2>2. boot = "fills" /\ release' = release
    BY <1>12 DEF Fill
  <2>3. db'.applied = db.applied /\ db'.ledger = db.ledger
    BY <1>2, <2>1 DEF Database
  <2>4. Compatible' /\ (Files \ Applied)' = Files \ Applied
    BY <1>2, <2>2, <2>3, SchemaStays
  <2>5. ASSUME boot' # "up"
        PROVE  Work' < Work
    <3>1. boot' = "fills"
      BY <2>1, <2>5
    <3>2. chars' = chars - 1
      BY <2>1, <2>2, <3>1, WorkFacts, FS_RemoveElement DEF Numbers
    <3>3. CallsLeft' = CallsLeft /\ left' = left
      BY <2>2, <2>4, <3>1 DEF CallsLeft
    <3> HIDE DEF left, chars
    <3>4. QED
      BY <1>5, <1>6, <1>7, <2>2, <2>5, <3>2, <3>3
  <2>6. QED
    BY <2>1, <2>2, <2>4, <2>5
<1>13. QED
  BY <1>8, <1>9, <1>10, <1>11, <1>12

\* Players and operators do no harm then, and what goes wrong has gone wrong.
LEMMA OthersAreHarmless ==
  ASSUME TypeOK, Undisturbed, Crash \/ Stop \/ Install \/ Restore \/ Rot \/ Play
  PROVE  boot = "up" /\ Undisturbed'
<1>1. ~Happens
  BY DEF Undisturbed, Happens, TypeOK
<1>2. CASE Stop
  BY <1>2 DEF Stop, Undisturbed, Compatible, Applied, Files
<1>3. CASE Play
  <2>1. db'.applied = db.applied /\ db'.ledger = db.ledger
    BY <1>3 DEF Play, TypeOK, Database
  <2>2. release' = release /\ events' = events /\ boot = "up"
    BY <1>3 DEF Play
  <2>3. QED
    BY <2>1, <2>2, SchemaStays DEF Undisturbed
<1>4. QED
  BY <1>1, <1>2, <1>3 DEF Crash, Install, Restore, Rot

\* The safety half of ComesUp: once nothing goes wrong any more and the installed release
\* can serve the schema, that stays so, and until the server is up every step, whichever
\* it is, leaves less to do.  A boot neither retries in a circle nor takes two calls for
\* one file or character.
Settling ==
    [][Undisturbed => Undisturbed' /\ (boot # "up" => Work' < Work)]_vars

THEOREM BootsSettle == Spec => Settling
<1>1. TypeOK /\ BootIsSound /\ Listed /\ [Next]_vars =>
        [Undisturbed => Undisturbed' /\ (boot # "up" => Work' < Work)]_vars
  <2> SUFFICES ASSUME TypeOK, BootIsSound, Listed, [Next]_vars, vars' # vars, Undisturbed
               PROVE  Undisturbed' /\ (boot # "up" => Work' < Work)
    OBVIOUS
  <2>1. CASE \/ Start \/ Retry \/ Decide \/ FindSnapshot \/ Copy \/ Verify \/ Publish
             \/ List
    <3>1. /\ db' = db /\ release' = release /\ events' = events /\ boot # "up"
          /\ boot' # "up" =>
               /\ CallsLeft' < CallsLeft
               /\ (IF boot = "fills" THEN todo ELSE db.classless)'
                    = (IF boot = "fills" THEN todo ELSE db.classless)
      BY <2>1, StillIsNearer
    <3>2. Undisturbed' /\ (Files \ Applied)' = Files \ Applied
      BY <3>1, SchemaStays DEF Undisturbed
    <3> DEFINE left == Cardinality(Files \ Applied)
               chars == Cardinality(IF boot = "fills" THEN todo ELSE db.classless)
    <3>3. left \in Nat /\ chars \in Nat /\ CallsLeft \in Nat /\ CallsLeft' \in Nat
      <4>1. Numbers /\ (TypeOK => Numbers)'
        BY WorkFacts, PTL
      <4>2. Numbers'
        BY <4>1, NextTyped
      <4>3. QED
        BY <4>1, <4>2 DEF Numbers
    <3>4. Work = CallsLeft + left + chars
      BY <3>1 DEF Work
    <3>5. CASE boot' = "up"
      <4>1. Work' = 0
        BY <3>5 DEF Work
      <4>2. CallsLeft >= 1
        BY WorkFacts DEF Numbers
      <4> HIDE DEF left, chars
      <4>3. QED
        BY <3>2, <3>3, <3>4, <4>1, <4>2
    <3>6. CASE boot' # "up"
      <4>1. left' = left /\ chars' = chars
        BY <3>1, <3>2, <3>6
      <4>2. Work' = CallsLeft' + left + chars
        BY <3>6, <4>1 DEF Work
      <4>3. CallsLeft' < CallsLeft
        BY <3>1, <3>6
      <4>4. Work' < Work
        <5>1. \A a, b, c, d \in Nat : a < b => a + c + d < b + c + d
          OBVIOUS
        <5>2. QED
          BY <3>3, <3>4, <4>2, <4>3, <5>1
      <4>5. QED
        BY <3>2, <4>4
    <3>7. QED
      BY <3>5, <3>6
  <2>2. CASE Open \/ Ledger \/ ApplyNext \/ Expire \/ Fill
    <3>1. /\ events' = events /\ Compatible' /\ boot # "up"
          /\ boot' # "up" => Work' < Work
      BY <2>2, WritesAreNearer
    <3>2. boot' = "up" => Work' = 0
      BY DEF Work
    <3>3. Work >= 1 /\ Work \in Nat
      BY <3>1, WorkFacts DEF Work, Numbers
    <3>4. QED
      BY <3>1, <3>2, <3>3 DEF Undisturbed
  <2>3. CASE Crash \/ Stop \/ Install \/ Restore \/ Rot \/ Play
    BY <2>3, OthersAreHarmless
  <2>4. QED
    BY <2>1, <2>2, <2>3 DEF Next, Boot
<1>2. Init => Listed
  BY DEF Init, Listed, Copying
<1>3. TypeOK /\ BootIsSound /\ Listed /\ [Next]_vars => Listed'
  BY NextListed
<1>4. QED
  BY <1>1, <1>2, <1>3, TypeCorrect, BootStaysSound, PTL DEF Spec, Settling

\* And what is left to do has a bound that the release and the table give: the boot is up
\* after at most so many steps.
THEOREM BootsAreShort ==
    Spec => [](Work \in 0..(18 + LastVersion + Cardinality(Characters)))
<1>1. TypeOK => Work \in 0..(18 + LastVersion + Cardinality(Characters))
  <2> SUFFICES ASSUME TypeOK
               PROVE  Work \in 0..(18 + LastVersion + Cardinality(Characters))
    OBVIOUS
  <2>1. Numbers /\ LastVersion \in Nat
    BY WorkFacts, BoundsAreNumbers
  <2>2. CASE boot = "fills"
    BY <2>1, <2>2 DEF Work, Numbers
  <2>3. CASE boot # "fills"
    BY <2>1, <2>3 DEF Work, Numbers
  <2>4. QED
    BY <2>2, <2>3
<1>2. QED
  BY <1>1, TypeCorrect, PTL
=============================================================================
