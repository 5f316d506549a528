------------------------------ MODULE MobLife ------------------------------
(***************************************************************************)
(* The life of the monsters of the field: what a session knows of them     *)
(* (runtime.PersistentGameSessionState), how they die (mob_combat,         *)
(* mob_death), what they do meanwhile (mob_ai_scheduler), and how they     *)
(* stand up again when the session opens another scene (mob_respawn).      *)
(*                                                                         *)
(* Everything but the world's book of graves belongs to one session, and   *)
(* the handler of a frame runs on one thread, so a handler is one step but *)
(* for its calls of the book (mob_death_persistence.WorldDeaths), which    *)
(* has a lock of its own.  Monsters of two scenes share identities.        *)
(*                                                                         *)
(* Left out: the cadence of attacks and the commit loops, which retry what *)
(* only a second thread could disturb; refusals to kill, which no shipped  *)
(* roster meets; the cap of the book, far above any roster; and            *)
(* PHASE_RETURN, as a monster never leaves its leash.                      *)
(***************************************************************************)
EXTENDS Integers, FiniteSets

CONSTANTS
    Sessions,
    Folders,    \* scenes with a roster
    Wild,       \* a scene without: world_scene_folder does not address it
    Home,       \* the scene whose roster a new session opens
    Ids,        \* actor identities
    Roster,     \* per folder its monsters
    Offensive,  \* monsters that start a fight
    MaxHp,
    Delay,      \* RESPAWN_DELAY_SECONDS, in ticks
    MaxLive,    \* sessions served at once: 1 is the accept loop of v141
    Undated,    \* a grave without buried_at
    None

ASSUME RostersAreMonsters == Roster \in [Folders -> SUBSET Ids]
ASSUME HomeIsAddressed == Home \in Folders /\ Wild \notin Folders
ASSUME HpIsPositive == MaxHp \in Nat \ {0}
ASSUME DelayIsANumber == Delay \in Nat
ASSUME NoneIsNothing ==
    /\ None # Undated
    /\ None \notin Folders \cup {Wild} \cup Ids \cup Int
    /\ Undated \notin Int

VARIABLES
    session, \* the sessions
    book,    \* WorldDeaths: the graves of the process
    left,    \* history: the graves that sessions left behind when they ended
    alone    \* history: no session has begun while another was there

vars == <<session, book, left, alone>>

Places == Folders \cup {Wild}
Monsters == Folders \X Ids
Ages == {None, Undated} \cup 0..Delay

\* place: selected.position; edge: combat_scene_edge_scene_id; open:
\* mob_combat_scene_folder, the scene of hp and mind (a monster with a threat is
\* "aggro"); grave: the register of deaths; shown: the membership of the last census; target: killed and not yet
\* buried; opened: swept and not yet off the book; bites: who attacks in the
\* results of the last tick; away (history): how long ago the player went away
\* from a grave for the first time.
Session ==
    [place : Places \cup {None}, edge : Places \cup {None}, open : Folders,
     hp : [Ids -> 0..MaxHp], mind : [Ids -> {"idle", "aggro", "dead"}],
     grave : [Monsters -> Ages], shown : BOOLEAN, target : Ids \cup {None},
     opened : SUBSET Monsters, bites : SUBSET Ids,
     away : [Monsters -> Ages \ {Undated}]]

Out == [place |-> None, edge |-> None, open |-> Home,
        hp |-> [m \in Ids |-> MaxHp], mind |-> [m \in Ids |-> "idle"],
        grave |-> [x \in Monsters |-> None], shown |-> FALSE, target |-> None,
        opened |-> {}, bites |-> {}, away |-> [x \in Monsters |-> None]]

Live == {s \in Sessions : session[s].place # None}

Buried(s) == {x \in Monsters : session[s].grave[x] # None}

\* Between two frames; the frame before has seen the scene the player is in.
MayDispatch(s) ==
    /\ s \in Live
    /\ session[s].target = None
    /\ session[s].opened = {}

InStep(s) == MayDispatch(s) /\ session[s].edge = session[s].place

\* On a scene whose roster is the one that is open.
AmongMonsters(s) == InStep(s) /\ session[s].place = session[s].open

\* The results of a tick are gone with the next frame.
Becomes(s, new) == session' = [session EXCEPT ![s] = [new EXCEPT !.bites = {}]]

-----------------------------------------------------------------------------
Login(s, p) ==
    /\ s \notin Live
    /\ Cardinality(Live) < MaxLive
    /\ Becomes(s, [Out EXCEPT !.place = p])
    /\ alone' = (alone /\ Live = {})
    /\ UNCHANGED <<book, left>>

\* The register goes with the session; its graves stay in the book.
Logout(s) ==
    /\ MayDispatch(s)
    /\ Becomes(s, Out)
    /\ left' = left \cup Buried(s)
    /\ UNCHANGED <<book, alone>>

\* Every door clears the membership.
Travel(s, p) ==
    LET here == session[s].place
    IN  /\ InStep(s)
        /\ p # here
        /\ Becomes(s, [session[s] EXCEPT
               !.place = p, !.shown = FALSE,
               !.away = [x \in Monsters |->
                  IF x[1] = here /\ x \in Buried(s) /\ @[x] = None THEN 0 ELSE @[x]]])
        /\ UNCHANGED <<book, left, alone>>

Census(s) ==
    /\ AmongMonsters(s)
    /\ Becomes(s, [session[s] EXCEPT !.shown = TRUE])
    /\ UNCHANGED <<book, left, alone>>

-----------------------------------------------------------------------------
(* The scene edge: _sync_combat_scene_at_edge, _sync_combat_scene_state and
   sweep_the_session_register, at the top of the first frame in a new scene.
   Attack and census sync again, and find nothing to do. *)

SlipRipe(age) == age # None  \* a grave that was never dated is opened

Ripe(age) == age \in Int /\ age >= Delay

SlipSwept(grave) ==  \* nothing opened: the register as it was, undated
    IF \E x \in Monsters : Ripe(grave[x])
      THEN [x \in Monsters |->
              IF Ripe(grave[x]) THEN None ELSE IF grave[x] = Undated THEN 0 ELSE grave[x]]
      ELSE grave

\* A grave is dated by the first sweep that sees it, and opened by a later one.
Swept(grave) ==
    [x \in Monsters |->
        IF Ripe(grave[x]) THEN None ELSE IF grave[x] = Undated THEN 0 ELSE grave[x]]

SlipBalances(f, grave) == [m \in Ids |-> MaxHp]  \* the dead not zeroed again

\* open_ledger at full strength, then the dead of this scene at zero.
Balances(f, grave) ==
    [m \in Ids |-> IF grave[<<f, m>>] # None /\ m \in Roster[f] THEN 0 ELSE MaxHp]

Reopened(s) ==
    LET old == session[s]
        new == Swept(old.grave)
        up  == {x \in Buried(s) : new[x] = None}
    IN  [old EXCEPT
            !.edge = old.place, !.open = old.place, !.grave = new,
            !.hp = Balances(old.place, new), !.mind = [m \in Ids |-> "idle"],
            !.opened = up,
            !.away = [x \in Monsters |-> IF x \in up THEN None ELSE @[x]]]

\* A scene without a roster leaves the fight where it was.
Edge(s) ==
    /\ MayDispatch(s)
    /\ session[s].edge # session[s].place
    /\ Becomes(s, IF session[s].place \in {Wild, session[s].open}
                    THEN [session[s] EXCEPT !.edge = session[s].place]
                    ELSE Reopened(s))
    /\ UNCHANGED <<book, left, alone>>

SlipWithout(graves, x) == {y \in graves : y[2] # x[2]}  \* by identity only

Without(graves, x) == graves \ {x}

\* WorldDeaths.forget, once for every grave the sweep has opened.
Forget(s) ==
    \E x \in session[s].opened :
        /\ book' = Without(book, x)
        /\ left' = left \ {x}
        /\ Becomes(s, [session[s] EXCEPT !.opened = @ \ {x}])
        /\ UNCHANGED alone

-----------------------------------------------------------------------------
(* The fight *)

SlipRemaining(hp, damage) == hp - damage  \* not clamped to the room there is

Remaining(hp, damage) == IF damage < hp THEN hp - damage ELSE 0

\* The checks of _dispatch_mob_combat; a hit on a corpse does nothing.
IsTarget(s, m) ==
    /\ AmongMonsters(s)
    /\ session[s].shown
    /\ m \in Roster[session[s].open]
    /\ session[s].hp[m] > 0

\* apply_damage_threat.
Angered(mind) == IF mind = "dead" THEN mind ELSE "aggro"

\* _dispatch_mob_combat up to the death.
Hit(s, m) ==
    /\ IsTarget(s, m)
    /\ \E damage \in 1..MaxHp :
         LET hp == Remaining(session[s].hp[m], damage)
         IN Becomes(s, [session[s] EXCEPT
               !.hp[m] = hp, !.mind[m] = Angered(@),
               !.target = IF hp = 0 THEN m ELSE None])
    /\ UNCHANGED <<book, left, alone>>

\* mob_death.kill: the grave has no date.
Killed(here) ==
    [here EXCEPT !.grave[<<here.open, here.target>>] = Undated,
                 !.mind[here.target] = "dead", !.target = None]

\* commit_death_and_prepare_hook buries in the book, the register is assigned,
\* the hook is fired, and the mind of the monster retired.
Bury(s) ==
    /\ session[s].target # None
    /\ book' = book \cup {<<session[s].open, session[s].target>>}
    /\ Becomes(s, Killed(session[s]))
    /\ UNCHANGED <<left, alone>>

SlipMind(mind, hp, near) ==  \* the balance not asked
    IF mind # "dead" /\ near THEN "aggro" ELSE mind

\* mob_aggro.tick of one monster.
Mind(mind, hp, near) ==
    IF mind = "dead" \/ hp = 0 THEN "dead" ELSE IF near THEN "aggro" ELSE mind

\* tick_session, after every frame with a position.  Who is near and who is in
\* reach is for the positions to say.
AiTick(s) ==
    LET here == session[s]
    IN  /\ AmongMonsters(s)
        /\ \E near \in SUBSET (Offensive \cap Roster[here.open]) :
             LET mind == [m \in Ids |->
                            IF m \in Roster[here.open]
                              THEN Mind(here.mind[m], here.hp[m], m \in near)
                              ELSE here.mind[m]]
             IN \E bites \in SUBSET {m \in Ids : mind[m] = "aggro"} :
                  session' = [session EXCEPT ![s].mind = mind, ![s].bites = bites]
        /\ UNCHANGED <<book, left, alone>>

-----------------------------------------------------------------------------
Older(age) == IF age \in 0..(Delay - 1) THEN age + 1 ELSE age

Time ==
    /\ session' = [s \in Sessions |->
          [session[s] EXCEPT !.grave = [x \in Monsters |-> Older(@[x])],
                             !.away = [x \in Monsters |-> Older(@[x])]]]
    /\ UNCHANGED <<book, left, alone>>

\* The process ends, and with it everything that is here.
Restart ==
    /\ session' = [s \in Sessions |-> Out]
    /\ book' = {}
    /\ left' = {}
    /\ UNCHANGED alone

Init ==
    /\ session = [s \in Sessions |-> Out]
    /\ book = {}
    /\ left = {}
    /\ alone = TRUE

Next ==
    \/ \E s \in Sessions :
         \/ \E p \in Places : Login(s, p) \/ Travel(s, p)
         \/ Logout(s) \/ Census(s) \/ Edge(s) \/ Forget(s)
         \/ \E m \in Ids : Hit(s, m)
         \/ Bury(s) \/ AiTick(s)
    \/ Time \/ Restart

Spec == Init /\ [][Next]_vars

\* Time passes; what players do is their own affair.
FairSpec == Spec /\ WF_vars(Time)

-----------------------------------------------------------------------------
(* Properties *)

\* Every variable has its type.
TypeOK ==
    /\ session \in [Sessions -> Session]
    /\ book \subseteq Monsters
    /\ left \subseteq Monsters
    /\ alone \in BOOLEAN

\* The ledger and the register tell the same monsters dead, whatever scenes the
\* player has been through since the kill: repopulation_entries raises if not.
BalancesAgree ==
    \A s \in Live : LET here == session[s] IN
        \A m \in Roster[here.open] :
            (here.hp[m] = 0) <=> (here.grave[<<here.open, m>>] # None \/ here.target = m)

\* Unless two sessions were there at once, the graves of the book are those of the
\* register and those that ended sessions have left.
BooksAgree ==
    alone => book = left \cup UNION {Buried(s) \cup session[s].opened : s \in Sessions}

\* Only the living attack, and only in the scene where the player is.
OnlyTheLivingBite ==
    \A s \in Sessions : session[s].bites # {} =>
        /\ session[s].place = session[s].open
        /\ \A m \in session[s].bites : session[s].hp[m] > 0

\* A monster stands up again only when the player has been away from its scene
\* and a whole delay has passed since he first went.
StaysDead ==
    [][\A s \in Sessions, x \in Monsters :
         session[s].grave[x] # None /\ session'[s].grave[x] = None
             /\ session'[s].place # None
           => session[s].away[x] = Delay]_vars

\* A player who keeps coming back from other scenes with a roster does not find
\* a monster dead for ever.
ComesBack ==
    \A s \in Sessions, x \in Monsters :
        []<>(session[s].open = x[1]) /\ []<>(session[s].open # x[1])
          => []<>(session[s].grave[x] = None)
=============================================================================
