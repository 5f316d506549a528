# Pirate Force foundation server: a TLA+ model

The server speaks the wire protocol of an old client. A frozen script, `current/pf_login_game_server_v141.py` ("v141"), owns the sockets and the byte layouts; the package `src/pirateforce_foundation` puts a SQLite store, sessions, inventory, monsters, ground loot and an orderly shutdown behind it. This project models the parts of that package that keep state and can go wrong in more than one step: who holds an account's lease, what is in a bag, what lies on the ground, which monsters are dead, how a character comes to its class and skills, and how the process starts and stops.

Paths below are relative to `src/pirateforce_foundation/` unless they say otherwise.

## 1. The system

| Component | State | Operations | Interacts with |
|---|---|---|---|
| Session leases and characters (`store.py`, `session.py`, `lifecycle.py`) | tables `accounts`, `sessions` (open or closed, generation, selected character), `characters` (selector, fingerprint, deleted), `character_positions`; per connection a `FoundationSession` | login, create, list, soft delete, select, start, checkpoint, exit, disconnect, boot | every store method of a character asks for the open session that has it selected |
| Backpack (`inventory.py`, `store.py`, `bag_admission.py`, `mob_pickup.py`, `mob_pickup_persist.py`) | rows and identity counter; the copy in `FoundationSession.backpack`; the `BagCell` and its registry | admission, claim of the cell, V111 merge, slot-2 move, move, swap, merge, mint, pickup | leases; ground loot hands it the item |
| Ground drops (`mob_ground_persistence.py`, `mob_loot.py`, `mob_pickup_request.py`, `mob_scene_recompose.py`) | the world's floor and its memory of claims; a ledger cell per session | kill, remember, seed, claim, hand back, sweep | backpack (precheck, commit); monsters produce the kills |
| Listener, connections, shutdown (`shutdown.py`, `connection.py`, v141) | the registered sockets and threads, the pending connection and its lease, the request, the failures | listen, accept, bind, release, request a stop, join, exit | closes leases; runs the two accept loops |
| Class and starting skills (`lifecycle.py`, `persistence_class_id*.py`, `persistence_starting_skills.py`) | class column, skill rows | class and kit at creation, retry, backfill at boot, GM `/job` | character creation, boot |
| Skill points and learning (`skill_learn_*.py`, `skill_grant_wiring.py`) | skill points, skill rows | grant, spend then grant, GM `/skill all` | starting skills |
| Vitals and typed attributes (`persistence_vitals.py`, `persistence_typed_attrs.py`, `persistence_login_vitals.py`) | nullable columns: level, hit points, experience, gold | absolute and relative writes, read at login | combat, quests, GM commands |
| Monsters (`mob_combat.py`, `mob_death*.py`, `mob_aggro.py`, `mob_respawn.py`, `runtime.py`) | per session a ledger of hit points, a register of deaths, minds; per process a book of graves | hit, kill, tick of the minds, scene edge with its sweep | ground drops, scenes |
| Quests and scripts (`script_host.py`, `lua_api/`) | quest rows | accept, progress, reward once | vitals, backpack |
| Scenes and travel (`world_travel_gate.py`, `world_scene_*.py`) | scene of a session, pending travel | request, gate, arrive | positions |
| Migrations and backups (`app.py`, `persistence_backup.py`, `store.py`, `migrations/`) | schema, ledger of versions, snapshot directories | decide, snapshot, migrate, expire, backfill at boot | the store, the class backfill |
| Packet dispatch (`runtime.py`) | `PersistentGameSessionState`: flags per connection | one branch per parsed request | all of the above |
| Wire codecs (v141), GM commands (`gm/`), hypothesis tables | none that outlives a frame | | |

**Threads.** The main thread polls for a stop and takes the signals. `FoundationServerMain` accepts LOGIN connections and the GAME thread accepts GAME connections; each loop serves one connection to its end before it accepts the next. A heartbeat thread only sends. So in today's deployment one game connection is served at a time; the store, the registries and the floor have locks and contracts for more than one, and the lease takeover exists because a session may be left open by a crash or by a close that failed. The modules therefore admit several connections at once. The serial loop is a special case of every one of them, and where the answer depends on it there is a run for each (`ground_serial`, `ground_race`).

**What is hard.** A handler is a sequence of transactions and of lock acquisitions, and something else may happen between any two: a takeover of the lease, a deletion, the death of the process. One connection's memory of the bag is computed with, and then compared with, what the store computes from its rows. A drop passes from the floor through a cell and a bag cell into a table, with a lock each. A stop races with everything that registers itself. `PROJECT.json` lists these hazards at their lines, with the properties that cover them.

**What makes each part correct.** Leases: one open session per account, the newest; no write under an older one. Characters: live ones are distinguishable, deleted ones are untouched. Bag: legal rows, identities used once, memory equal to rows, no row lost after it left the ground, nobody locked out by his own bag. Ground: one drop, one item; exclusive claims; bounded life. Class and skills: the kit of one class, granted once whatever fails between class, skills and retry; a class that is only ever filled in; every payment accounted for; an answer that says what happened. Monsters: ledger, register and book of graves tell the same ones dead; a corpse does nothing; nobody stands up early, or never. Boot: whatever changes the schema is behind a copy that can be read back, no row is lost, and the server comes up. Shutdown: bounded, nothing serves on, zero means clean.

## 2. The modules

```
AccountLease                 abstract lease service with fencing tokens
  ^ implemented by
SessionLease  <-- SessionLeaseRefinement <-- MCSessionLease      (TLC)
     ^                   ^
SessionLeaseProofs <-- SessionLeaseRefinementProofs              (TLAPS)

Backpack        <-- MCBackpack (TLC),         BackpackProofs (TLAPS)
 DropOwnership               a drop, its owner, the hand, the bag
   ^ implemented by, one session at a time
GroundLoot      <-- GroundLootRefinement <-- MCGroundLoot (TLC)
                                         <-- GroundLootProofs (TLAPS)
MobLife         <-- MCMobLife (TLC),          MobLifeProofs (TLAPS)
CharacterSkills <-- MCCharacterSkills (TLC),  CharacterSkillsProofs (TLAPS)
BootMigration   <-- MCBootMigration (TLC),    BootMigrationProofs (TLAPS)
ServerShutdown (TLC as it is)             <-- ServerShutdownProofs (TLAPS)
```

Backpack sees a lease as `holder`, the connection that passes `_require_selected_session`. It may move at any step; that there is at most one is theorem `ActiveCharacterIsUnique`. GroundLoot has the same abstraction, takes its kills from nowhere (`Kill`), and sees the bag as `carried`, how many rows a drop became. CharacterSkills needs no lease, because none of its writers asks for one. BootMigration sees the leases as one bit, players as `Play`. ServerShutdown sees a lease as open, closed or lost.

Operators named `Slip...` are wrong forms of the definition after them. Nothing uses them; each was substituted for the right one to make sure that a property notices.

### SessionLease

One variable per table, and `conn`, the `FoundationSession` of each connection with the place its handler has reached. Every store method is one transaction (`BEGIN IMMEDIATE`), hence one step; a handler that calls several is split between them:

| Code | Actions |
|---|---|
| `FoundationLifecycle.login`: `open_session`, then `list_characters` | `Login`, then `LoginReturns` or `LoginFails` (which closes the new session) |
| `create_character`, with its retry by fingerprint and the free selector | `CreateCharacter` |
| `soft_delete_character` | `SoftDeleteCharacter` |
| `select_and_start`: select, read the bag, read the counter, set memory | `Select`, `ReadBag`, `EnterWorld` or `RefuseWorld` |
| `checkpoint` | `Checkpoint` |
| `exit`: `save_position`, then `close_session` | `ExitSaves`, `ExitCloses` |
| `close`, `close_connection`, death of the peer | `CloseConnection`, `Disconnect` |
| process dies; boot runs `expire_open_sessions` | `Restart` |

A call that raises before it writes is no step. `create_character` and a read of the character list are not fenced by the lease in the code, and are not here. `save_position` does not look at `deleted_at`, in the code and here; `DeletedIsHistory` shows why nothing comes of it.

`AccountLease` is the promise without tables: a token is granted that outnumbers all earlier ones and takes the lease, and a character is written only under the token that holds it. `SessionLeaseRefinement` maps generations to tokens and the rows to who holds.

### Backpack

One character's rows, counter, and what each connection remembers: `bag` (`FoundationSession.backpack`) and `cell` (`BagCell`). The rows keep identity, template, quantity and slot; the three raw columns never differ. `IsKnown` is the content gate (`require_known_backpack`), `MayEnter` the admission gate (`bag_admission.py`) under the `profile` the server was started with. Two reads of one handler are one step: if somebody wrote between them the lease moved, and the second read raises.

A pickup is `PickupChecks` (`precheck_persistable`), `PickupTakes` (`commit_pickup` puts the row in the cell) and `PickupCommits` (`commit_acquired_backpack_item`); a mint is `MintReads` and `MintCommits`. `Rearranged` is the end of every rearrangement: the store's bag becomes the rows, the handler compares it with its own, and `mismatch` is the RuntimeError it raises if they differ.

### GroundLoot

`floor` and `taken` are the world's rows and its memory of claims, `session` the cells, each with a lock of its own that is not held between two calls. Rows are swept when they are looked at; time is what a row has left and `Tick` takes it. A pickup asks the floor (`AskFloor`), then the memory of claims (`AskTaken`), takes the row out of the cell (`Take`) or hands it back (`Refuse`), and commits (`Commit`). A refusal gives the claim back or, under one of the names of `POST_TAKE_REFUSALS`, keeps it. `ReadStanding` and `Admit` seed a cell, `Kill` and `Remember` produce a drop. `life` and `carried` are history variables.

`DropOwnership` is the promise without keys, floor, cells or clocks: a drop falls once and for one character, goes into the hand of that character or of nobody, and out of the hand becomes one row of a bag or is lost; what is kept or lost does not lie on the ground again. `GroundLootRefinement` says where a drop is: in the hand between `Take` and `Commit`, and on the ground while a row of the floor, a row or a claim of a cell, or a reading of the floor by `ReadStanding` could still lead to it. A step of GroundLoot is a fall, a pickup, a commit or a stutter, and any of them may lose drops besides (a row swept, a session ended, a row replaced under its key). It is implemented while one session is served at a time; finding 2 is a behaviour of two that is none of it.

### ServerShutdown

A thread is `at` the call that is next. `sock` is what the system knows of a socket, `registered` and `left` what the controller does: `request_stop` takes the list under the lock (`Requests`) and works it off without (`StopListener`, `StopAccepted`, `StopReturns`), whichever thread calls it, and what registers later is stopped by its own thread (`ComesTooLate`, `StopOwnListener`, `StopOwnConnection`). `Bind` to `Release` is the life of a GAME connection in `connection.py`; a lease that cannot be closed is `lost`. A loop may die of its own: of a `bind`, `listen` or `accept` that the system refuses (`Breaks`), of its setup, of what it serves (`Leave`), or of a lease that cannot be taken or closed; it unwinds what it has open and asks for a stop (`RequestStop`). The main thread is `main`: it polls with `Event.wait` in four steps (`polls`, `enters`, `sleeps`, `leaves`, because the lock of the event is held in the second and the fourth), joins both threads, and returns the exit code. `Signal` is the handler, which runs on the main thread between two of its steps.

Taken from the platform: closing a listener wakes a blocked accept (it does on Windows, where this server runs; the LOGIN listener has no timeout), shutting a connection wakes recv, and `threading.Event` is built on a lock that is not reentrant. Left out: a second signal inside the handler, installing and restoring the handlers, and the heartbeat thread.

### MobLife

`session` is what a connection's `PersistentGameSessionState` knows of the monsters: where its player is (`place`), the scene its edge has seen (`edge`) and the one whose roster is open (`open`), hit points, minds, and the register of deaths (`grave`, with its age). `book` is `WorldDeaths`, shared by the process. One thread runs a connection's handlers, so a handler is one step but for its calls of the book: `Hit` then `Bury`, `Edge` then one `Forget` for every grave its sweep has opened. The edge is the first thing a frame does (`InStep`), and a tick of the minds the last (`AiTick`, which chooses who is near and who bites). Identities repeat across scenes, and a scene without a roster (`Wild`) leaves the fight of the scene before where it was. `away`, `left` and `alone` are history.

### CharacterSkills

`hand` is the handler of a request, `at` the transaction that is next. `CreateRow`, `WriteClass` and `GrantKit` are the three of a creation, `AskSkills` and `AskClass` the reads that decide whether a retry grants a kit (`_class_id_for_a_retried_skill_grant`). `Preflight` to `LearnRereads` is `learn_skill_round_trip`: points and skill row are a transaction each. Balance and list of skills are read before, one after the other (`LearnReads`, `LearnLists`), and the balance again afterwards, to tell what an exception meant (`LearnRereads`); any of the three reads may go without an answer, and a balance that was not read makes the answer `spend_status_unknown`. `Job`, `GrantAll`, `Gain` and `Delete` are the other writers; the repair of a `/job` whose class reads back wrong is one more `Job`. Every transaction may fail instead (`Fails`), and `Crash` ends the process; requests wait for the `Backfill` of the boot after it. `paid`, `lost` and `alone` are history. The round trip of a learn has no caller in the runtime yet; it is modelled as the module it is written to be.

### BootMigration

`boot` is the call the boot is at: decide, look for a snapshot that can be used again, copy, verify, publish, open, bring the ledger up to date, apply the files one by one, expire the leases, list and fill in the classes, with a snapshot of their own. `db` is the file with its ledger, its journal mode, what players wrote and the characters without a class; `shots` are the published snapshots with the manifest that names the database they were taken of. Migration files are numbers with a checksum; those that rebuild a table (`Rebuilds`) drop it, and what that does to the rows that refer to it depends on `fk`, the foreign keys of the connection (`ForeignKeys`, `Migrated`). `ForeignKeys` stands for what the files that rebuild a table (004, 009, 014, 017 and 018) have in common: they commit the empty wrapper, turn the foreign keys off and begin again. Between boots the operator installs another release, restores, and loses a snapshot to the disk; a crash or a full disk may come at any step (`Happens`).

## 3. What is checked

| Run | States | What it asks |
|---|---|---|
| `session_lease` | 122,745 | two accounts, two connections: leases, selection, memory, fencing, live and deleted characters, and the refinement of `AccountLease` |
| `backpack` | 144,375 | two connections of one character under three profiles: pickup, mint, move, swap and merge against takeovers and crashes |
| `ground_serial` | 398,627 | one session at a time, two characters, three drops, two keys, lifetime 2: floor and cells, and the refinement of `DropOwnership` |
| `ground_shared` | 468,851 | two sessions, two drops, one key, lifetime 2 |
| `ground_mint` | violated | one session, two drops, two keys: see finding 1 |
| `ground_race` | violated | two sessions, one drop: see finding 2 |
| `mob_life` | 73,880 | two scenes that share an identity and one without a roster, one session after another: kills, journeys, sweeps, restarts; liveness |
| `skills` | 1,476,884 | two requests at once over one character, two failures or crashes: class, kit, points; liveness |
| `boot_migration` | 683,326 | boots of three releases over a new and an old database, three events between or in them: snapshots, migrations, rows; liveness |
| `boot_refused` | violated | the same boots: see finding 4 |
| `shutdown` | 40,767 | the process with its three threads, every order of request, registration, failure and signal; liveness, also after one loop has died of its own |
| `shutdown_signal` | violated | a stop by signal: see finding 3 |

The type invariants are in section 4, for every value of the constants, and are not run. That a quantity of the bag is never zero nor past `MaxQuantity`, which is more than a type, is part of `BagIsSound`. Every invariant and every action property of a run is also a theorem of section 4, and so are both refinements; of what the runs check, only liveness is left to them.

**Bounds.** *session_lease*: two connections and two session rows are what a takeover takes; two selectors and three characters make a selector free, used again and freed. *backpack*: the bag has five slots, four birth rows and one free, so that it is full after one pickup and the first free slot moves as rows merge; quantities are 0, 1 and one past `MaxQuantity`; `LastIdentity` 6 allows two acquisitions, and the merge consumes an identity in between. Item templates beyond those of the birth bag are one, because they are only compared. *ground*: a key, a lifetime of two ticks and two drops are enough for a key to be used again and for a row to be handed back with less than it had. *mob_life*: two hit points make a hit that does not kill, a delay of two ticks a grave that is too young, and an identity of two scenes is what a mistake between them takes. *skills*: two handlers, one character, one skill that can be paid and one that cannot, two failures: the second may hit what the first has left behind. *boot_migration*: three files, of which the second rebuilds a table; a first release, one with two more files, and one with an edited file; two characters without a class, one of which can be given one; three events. ServerShutdown has no bound: its state space is finite.

`CHECK_DEADLOCK FALSE`: SessionLease stops when its session ids are used up, a server that has returned takes no step, and in CharacterSkills nothing is left to do when the only character is deleted and the failures are used up. The others are checked for deadlock.

**Symmetry** is used for sets whose elements the modules only compare, and in no run with a liveness property.

**Fairness.** *ServerShutdown*: each thread that can take a step eventually does, a thread in recv leaves it once its socket is shut (`sock = "shut"`), and the main thread and whoever is inside `request_stop` go on. Who waits for the lock of the event gets it in the end (strong fairness of `RequestStop`): the main thread holds it for two short moments of `Event.wait` and lets go of it while it sleeps the 50 ms between two polls. Only `NoHalfServer` needs that; without it the main thread could be back in the lock whenever the dying loop is scheduled. The operating system's scheduler gives that. Nothing is assumed of clients: neither that they connect nor that they leave. Nor is the system assumed to refuse a call. No join is forced to time out: `StopIsBounded` therefore says more than that the joins are bounded, namely that the threads themselves come to their end. `NoHalfServer` leaves out what finding 3 is about, a main thread that a signal has blocked. *BootMigration*: a process that runs goes on, and an operator whose server is down starts it again (`WF_vars(Boot)`); events are bounded, so `ComesUp` says what happens once the trouble ends. *CharacterSkills*: a handler that has begun is run (weak fairness of `Continue`), the backfill runs, and for `RetryHeals` a client sends its creation again and again and gets through (strong fairness of `CreateRow`): the property is about that client. *MobLife*: time passes. That the player keeps leaving and coming back is a premise of `ComesBack`, not an assumption.

### Findings

1. *A drop key can repeat* (`ground_mint`). `mob_ground_persistence.py:20-24` says that a new session can never mint a key that lies on a floor. A cell is seeded only from `mob_scene_recompose.py:1916`; a session whose first act is a kill mints from the base again, and the floor's row is replaced under that key. One session at a time is enough. `OneItemPerDrop` holds all the same in `ground_serial`.
2. *Claim and memory of claims are two lock acquisitions* (`ground_race`). `mob_ground_persistence.py:283-286` says that exactly one caller can win. If another session hands its claim back between the two, the first goes on without the world's answer and the drop is taken twice. It takes two sessions at once.
3. *A signal can block the main thread for good* (`shutdown_signal`). `request_stop` sets, on the main thread, the event the main thread was waiting on when the handler interrupted it. If that was while `Event.wait` held the event's lock, `set` waits for its own thread, with the controller's lock held. `shutdown.py:117` promises one bounded stop.
4. *A refusal that has changed the database* (`boot_refused`). `app.py:805-808` prints that the database has not been changed for every `BackupError`; the class backfill takes its own snapshot inside the same `try`, after migrations were committed and leases closed.

## 4. What is proved

All theorems are for every value of the constants, under the assumptions named in the modules: `None` is no element of the other sets, numbers are numbers, the bag has at least the four birth slots, `MaxQuantity` is at least 2, a kit has a skill, a skill costs something, handlers, skills and the characters of a database are finitely many, a monster has hit points. Every variable of SessionLease, Backpack, GroundLoot, ServerShutdown, MobLife, CharacterSkills and BootMigration keeps its type.

**Leases.** `LeaseInvariant`, the inductive invariant and as such part of the proofs (`SessionLeaseProofs`) and of no run, is the conjunction of types, the rows that are there and their accounts, `NewestLeaseOnly`, `SelectionIsLive`, `LiveCharactersDiffer`, where a position comes from, and what a connection's memory has to do with its row. `NewestLeaseOnly` alone is not inductive, for `open_session` takes one more than the maximum over the rows of the account, so absent rows must be blank and present ones belong to an account; and `MemoryAgreesWithRow` needs that no two connections share a session. The lemmas go by what happens to the tables (closing, opening, creating, deleting, selecting, saving), so that the many actions that close a session share one argument. From it: `LeasesAreExclusive`, `SelectionsAreLive`, `ActiveCharacterIsUnique`, `LiveCharactersAreDistinct`, `MemoryAgrees`, and the action properties `PositionWritesAreFenced` and `DeletedCharactersAreHistory`.

**Refinement.** `LeaseIsImplemented`: every step of SessionLease is a grant, a release, an adoption, a write or a stutter of AccountLease. Opening grants the next generation, everything that closes releases, saving writes under the token that holds.

**Backpack.** `Inv` adds to the properties that the counter is past the birth rows, that composed items are well-formed, and that the cell of the connection with the lease agrees with rows and counter when a row has been taken (`CellsAreCurrent`). The key fact is that an acquisition ends the reign of the content gate: once a row was committed no rearrangement is possible, so a cell seeded at entry stays right as long as it matters. `IdentitiesAreFresh`, `NobodyIsLockedOut` (as `FreshIdentities`, `EveryoneMayReturn`) and the state properties follow. `QuantitiesAreKept` is about sums: in a bag of any size, with stacks of any quantity, a merge, a move or a swap keeps the total of every template. It rests on lemmas about `Total` (a row added, a row taken out, two bags whose rows match one to one). The library's induction theorems take the formula as an operator, which the installed provers cannot instantiate; the lemmas are therefore proved by a smallest counterexample, which exists because the proper subsets of a finite set are well-founded.

**Shutdown.** `Inv` says, for each place in the loop: before the request what is open is registered; after it what is open is still on the list (`OpenIsRegistered`, `OpenIsOnTheList`); whoever is inside `request_stop` made the request, and the list is empty when nobody is; a loop ends only after the request or makes it; an open or lost lease has a connection still to be released, or a thread that dies, or is on record; and what the main thread has waited for is down or on record. `ZeroMeansClean`, `StopReachesEverything` and `NoLeaseIsLeftBehind` follow in a few lines. `StopsSettle` is the safety half of `StopIsBounded`: a request is not taken back; while `request_stop` works, its list only gets shorter, whatever registers meanwhile; once it has returned nobody enters it again, and every step, be it of a thread, of a client, of a join that times out or of one more signal, lowers `StepsLeft`, the calls each thread, the main thread and a signal have still before them. `StopsAreShort` bounds `StepsLeft` by 43 for any interleaving of the three threads. What is left to TLC is that some step can always be taken.

**Ground.** With any number of sessions a drop is in one place: about to fall, under one key of the floor, or claimed by one session (`Placed`); exclusive claims follow. A floor row has no more time than its drop, because the memory of claims has no more either (`Bounded`). With `MaxLive = 1`, `Serial`: a drop keeps the key it fell under, wherever it is known; a session that asks the floor for a key and finds it empty finds it empty still when it takes the row from its cell; so the row it takes has no second one, and once it is in a bag there is none. `OneItemIsMade` and `TheStandingIsNotCarried` say that although keys repeat (finding 1), in the deployment of today no item does; finding 2 is why the hypothesis is needed. `OwnershipIsImplemented` is the refinement of `DropOwnership` under that hypothesis, step by step: `Serial` gives that a drop is known under one key and a taken one under none, and an invariant of its own (`HandsAreKillers`) that the session with a drop in its hand plays the character the drop fell for.

**Monsters.** `Sound` is what one session knows: hit points and graves agree, bites are of the living, only monsters of the open scene have a threat, a monster that waits for its burial lies where the player is, and a grave is no older than the absence of the player. It holds with any number of sessions, as a session shares nothing but the book. `Books` is about the book and needs `alone`. The half of it that needs no `alone` is `BooksInventNothing`: with any number of sessions the book holds only graves that are in a register, on their way out of one, or left by a session that ended; what two sessions can do to each other is forget a grave, never invent one. `GravesKeepRipening` is the safety half of `ComesBack`: `Wait` is what a grave has still to wait for, first to be dated and then the ticks of the delay. No handler of any session makes it longer, every tick makes it shorter for a grave that is dated, and a grave that is still there when another scene is opened was not ripe and is dated by then. That a burial dates nothing anew needs that nobody is buried twice (`NoGraveTwice`), which in turn needs that ledger and register agree.

**Class and skills.** `EveryPaymentHasItsRow` is inductive given `Blanks` (types, what a handler needs at its place, absent rows are blank), with any number of requests at once. `OneKit` and `AnswerIsTrue` need `Solo`: as long as no two requests overlapped there is one busy handler, and what it has read of skills and points is still so when it acts on it. TLC shows that both fail without `alone`; that is the reason for the premise. `RequestsComeToAnEnd` is the safety half of `RetryHeals` and needs no such premise: a request that has begun only goes forward, through at most five transactions; a creation that ends without a failure leaves no live character that has a class and no skill, whatever other requests did meanwhile; and no skill is ever taken away.

**Boot.** `BootIsSound` goes by the place of the boot: until the file is opened the database is `before`; from there on there is a whole copy of `before`, or nothing was to be changed; the copy was true when it got its name and a published one changes only by going bad, for which the model has no step while the server boots; from the last file on the schema is the release's. `RowsAreKept`: no migration loses rows of players, though a migration drops a table that others refer to, since foreign keys are off where it does. `CopiesAreWhole`: a published directory held, when it got its name, the database its manifest names. `BootsSettle` is the safety half of `ComesUp`: once no trouble is left and the release can serve the schema, that stays so, and until the server is up every step lowers `Work`, the calls that are left (at most 18) plus the files not applied plus the characters not tried. `BootsAreShort` bounds it by 18 + `LastVersion` + the number of characters.

**Only model-checked.** `StopIsBounded`, `NoHalfServer`, `ComesUp`, `RetryHeals` and `ComesBack`: liveness under fairness is out of this prover's reach, and so is `ENABLED`, on which fairness rests. What of each is safety is proved as said above (`StopsSettle`, `BootsSettle`, `RequestsComeToAnEnd`, `GravesKeepRipening`): every step goes in the right direction, and there are boundedly many of them. That a step can be taken wherever one is still needed is what the runs add. The four findings are runs: a theorem could not show them. No module has a RECURSIVE operator.

## 5. What is not modelled

* *Vitals and typed attributes.* Class and skill points are in CharacterSkills. The other columns are set by one transaction of a GM command, or added to by one whose callers are not wired: `mob_ai_player_damage` gets no store from its caller. No protocol of several steps runs over them, so there is nothing for a model to interleave.
* *Quests and scripts.* Nothing in `runtime.py` or `app.py` hands a store to `load_quest_script`, and the scripts, which decide the order of charge, reward and stamp, are not in the repository. A model would have to invent them.
* *Scenes and travel.* The travel gate is inert in every real boot (`travel_gate_debug_enabled`). Where a session is is in MobLife, with every door as one action; what position is saved under which lease is in SessionLease.
* Byte layouts, hypothesis tables, formulas: no state, or outside what a state machine tells. GM commands that do not write class or skills.
* SessionLease: vitals read at login. `learn` against levels and prerequisites, which only add reasons to refuse.
* GroundLoot: caps of floor and claims (512 and more), the second scene, and the durable ground table, which nothing reads at boot. Backpack: equipping, and the raw columns of a row.
* MobLife: the cadence of attacks, frames, what an attack does to the player; two sessions at once in the book, where `mob_respawn.py` leaves the answer open: the sweep of one session forgets the grave of the other. Everything else in MobLife is proved for any number of sessions.
* BootMigration: databases in memory, scenario boots, what a migration does to columns, the growth of the snapshot directory, two processes on one database.
* Shutdown: on a platform where closing a listener does not wake a blocked accept (`shutdown.py:219`) the LOGIN thread would stay; the module takes the behaviour of Windows, where this server runs.
* Loss of the disk, SQLite's own recovery, and the clock going backwards.

## 6. Plan

Done: SessionLease with its abstract specification, Backpack, GroundLoot, ServerShutdown, BootMigration, CharacterSkills, MobLife, each checked and then proved.

What would come next, when the code gets there:

1. **Vitals**, once monsters take hit points through `apply_hp_damage` and a frame tells the client: no lost update between the read of the headroom and the write, never below the floor.
2. **QuestRewards**, once a runtime handler starts a script with a store: charge, reward and stamp as three transactions against a crash and a second click.
3. **Two sessions in MobLife**, once the listener serves more than one: an abstract specification "one kill per life" with the book as its state, and GroundLoot's `Kill` taken from it.
