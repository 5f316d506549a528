--------------------------- MODULE MobLifeProofs ---------------------------
(***************************************************************************)
(* The safety properties of MobLife for every roster, number of sessions   *)
(* and delay.  What a session knows is sound by itself, whatever the other *)
(* sessions do: the invariant is a predicate of one session's record, and  *)
(* every handler is shown to take a sound record to a sound one.  Only the *)
(* book of graves relates the sessions to each other.                      *)
(***************************************************************************)
EXTENDS MobLife, TLAPS

\* Ledger and register agree; a monster just killed is in neither book yet.
Balanced(q) ==
    q.place # None =>
        \A m \in Roster[q.open] :
            (q.hp[m] = 0) <=> (q.grave[<<q.open, m>>] # None \/ q.target = m)

\* Who attacks is alive, and where the player is.
BitesAreAlive(q) ==
    q.bites # {} => q.place = q.open /\ \A m \in q.bites : q.hp[m] > 0

\* Only monsters of the open scene have a threat.
MindsAreHere(q) == \A m \in Ids \ Roster[q.open] : q.mind[m] # "aggro"

\* A monster that waits for its burial lies where the player is.
FightIsHere(q) == q.target # None => q.place = q.open /\ q.opened = {}

\* Who is not there knows of no grave.
OutIsBlank(q) ==
    q.place = None => q.opened = {} /\ \A x \in Monsters : q.grave[x] = None

\* What is swept is out of the register.
OpenedAreUp(q) == \A x \in q.opened : q.grave[x] = None

\* A grave the player has not gone away from is in the scene that is open, and none
\* is older than his absence.
AwayIsOlder(q) ==
    \A x \in Monsters : q.grave[x] # None =>
        /\ q.away[x] = None => x[1] = q.place /\ q.place = q.open
        /\ q.grave[x] \in Int => q.away[x] \in Int /\ q.grave[x] <= q.away[x]

Sound(q) ==
    /\ q \in Session
    /\ Balanced(q) /\ BitesAreAlive(q) /\ MindsAreHere(q) /\ FightIsHere(q)
    /\ OutIsBlank(q) /\ OpenedAreUp(q) /\ AwayIsOlder(q)

AllSound ==
    /\ session \in [Sessions -> Session]
    /\ \A s \in Sessions : Sound(session[s])

-----------------------------------------------------------------------------
(* One session *)

\* The ages of graves and absences.
LEMMA AgeFacts ==
  /\ None \in Ages /\ Undated \in Ages /\ 0 \in Ages
  /\ 0 \in Ages \ {Undated} /\ None \in Ages \ {Undated}
  /\ \A a \in Ages : a \in Int <=> a \in 0..Delay
  /\ \A a \in Ages \ {Undated} : a # None => a \in 0..Delay
  /\ None # Undated /\ None \notin Int /\ Undated \notin Int
  BY DelayIsANumber, NoneIsNothing DEF Ages

\* A new session is sound.
LEMMA OutIsSound == Sound(Out)
<1>1. Out \in Session
  BY AgeFacts, HpIsPositive, HomeIsAddressed DEF Out, Session, Places
<1>2. /\ Out.place = None /\ Out.bites = {} /\ Out.target = None /\ Out.opened = {}
      /\ \A m \in Ids : Out.mind[m] = "idle"
      /\ \A x \in Monsters : Out.grave[x] = None
  BY DEF Out
<1>3. QED
  BY <1>1, <1>2 DEF Sound, Balanced, BitesAreAlive, MindsAreHere, FightIsHere, OutIsBlank,
     OpenedAreUp, AwayIsOlder

\* So it is in the scene where the player logs in.
LEMMA LoginIsSound ==
  ASSUME NEW p \in Places
  PROVE  Sound([[Out EXCEPT !.place = p] EXCEPT !.bites = {}])
<1> DEFINE q == [[Out EXCEPT !.place = p] EXCEPT !.bites = {}]
<1>1. Out \in Session
  BY OutIsSound DEF Sound
<1>2. q \in Session
  BY <1>1 DEF Session
<1>3. /\ q.place = p /\ q.bites = {} /\ q.target = None /\ q.opened = {} /\ q.open = Home
      /\ \A m \in Ids : q.mind[m] = "idle" /\ q.hp[m] = MaxHp
      /\ \A x \in Monsters : q.grave[x] = None
  BY DEF Out
<1>4. Balanced(q)
  <2>1. \A m \in Roster[Home] : m \in Ids /\ <<Home, m>> \in Monsters
    BY RostersAreMonsters, HomeIsAddressed DEF Monsters
  <2> HIDE DEF q
  <2>2. QED
    BY <1>3, <2>1, HpIsPositive, NoneIsNothing DEF Balanced
<1>5. p # None
  BY NoneIsNothing DEF Places
<1> HIDE DEF q
<1>6. QED
  BY <1>2, <1>3, <1>4, <1>5 DEF Sound, BitesAreAlive, MindsAreHere, FightIsHere, OutIsBlank,
     OpenedAreUp, AwayIsOlder, q

\* The player goes to another scene: no grave is left that he has not gone away from.
LEMMA TravelIsSound ==
  ASSUME NEW s \in Sessions, NEW p \in Places, AllSound, Travel(s, p)
  PROVE  /\ Sound(session'[s])
         /\ session'[s].grave = session[s].grave
         /\ session'[s].opened = session[s].opened
<1> DEFINE q    == session[s]
           away == [x \in Monsters |-> IF x[1] = q.place /\ x \in Buried(s) /\ q.away[x] = None
                                         THEN 0 ELSE q.away[x]]
           new  == [q EXCEPT !.place = p, !.shown = FALSE, !.away = away]
           done == [new EXCEPT !.bites = {}]
<1>1. q \in Session /\ Sound(q)
  BY DEF AllSound
<1>2. away \in [Monsters -> Ages \ {Undated}]
  BY <1>1, AgeFacts DEF Session
<1>3. /\ done \in Session
      /\ done.place = p /\ done.bites = {} /\ done.target = None /\ done.opened = {}
      /\ done.open = q.open /\ done.hp = q.hp /\ done.mind = q.mind
      /\ done.grave = q.grave /\ done.away = away
  <2>1. q.target = None /\ q.opened = {}
    BY DEF Travel, InStep, MayDispatch
  <2> HIDE DEF q, away
  <2>2. QED
    BY <1>1, <1>2, <2>1 DEF Session
<1>4. session'[s] = done
  BY DEF Travel, Becomes, AllSound
<1>5. p # None /\ q.place # None /\ q.target = None /\ p # q.place
  BY NoneIsNothing DEF Places, Travel, InStep, MayDispatch, Live
<1>6. AwayIsOlder(done)
  <2> SUFFICES ASSUME NEW x \in Monsters, q.grave[x] # None
               PROVE  /\ away[x] # None
                      /\ q.grave[x] \in Int => away[x] \in Int /\ q.grave[x] <= away[x]
    BY <1>3 DEF AwayIsOlder
  <2>1. x \in Buried(s)
    BY DEF Buried
  <2>2. CASE q.away[x] = None
    <3>1. away[x] = 0 /\ q.grave[x] \notin Int
      BY <1>1, <2>1, <2>2, AgeFacts DEF Sound, AwayIsOlder
    <3>2. QED
      BY <3>1, AgeFacts
  <2>3. CASE q.away[x] # None
    <3>1. away[x] = q.away[x]
      BY <2>3
    <3>2. QED
      BY <1>1, <2>3, <3>1 DEF Sound, AwayIsOlder
  <2>4. QED
    BY <2>2, <2>3
<1>7. Balanced(done)
  BY <1>1, <1>3, <1>5 DEF Sound, Balanced
<1>8. q.opened = {}
  BY DEF Travel, InStep, MayDispatch
<1> HIDE DEF away, done
<1>9. Sound(done)
  <2> HIDE DEF q
  <2>1. QED
    BY <1>1, <1>3, <1>5, <1>6, <1>7 DEF Sound, BitesAreAlive, MindsAreHere, FightIsHere,
       OutIsBlank, OpenedAreUp
<1>10. QED
  BY <1>3, <1>4, <1>8, <1>9

\* What most handlers do: another field changes, and the results of a tick are gone.
LEMMA SameIsSound ==
  ASSUME NEW q, Sound(q), NEW r \in Session, r.bites = {},
         r.place = q.place, r.open = q.open, r.hp = q.hp, r.mind = q.mind,
         r.grave = q.grave, r.target = q.target, r.away = q.away,
         r.opened \subseteq q.opened
  PROVE  Sound(r)
<1>1. Balanced(r) /\ MindsAreHere(r) /\ AwayIsOlder(r)
  BY DEF Sound, Balanced, MindsAreHere, AwayIsOlder
<1>2. QED
  BY <1>1 DEF Sound, BitesAreAlive, FightIsHere, OutIsBlank, OpenedAreUp

\* A census.
LEMMA CensusIsSound ==
  ASSUME NEW s \in Sessions, AllSound, Census(s)
  PROVE  /\ Sound(session'[s])
         /\ session'[s].grave = session[s].grave
         /\ session'[s].opened = session[s].opened
<1> DEFINE q    == session[s]
           done == [[q EXCEPT !.shown = TRUE] EXCEPT !.bites = {}]
<1>1. q \in Session /\ Sound(q)
  BY DEF AllSound
<1>2. session'[s] = done
  BY DEF Census, Becomes, AllSound
<1>3. /\ done \in Session /\ done.bites = {} /\ done.place = q.place /\ done.open = q.open
      /\ done.hp = q.hp /\ done.mind = q.mind /\ done.grave = q.grave
      /\ done.target = q.target /\ done.away = q.away /\ done.opened = q.opened
  <2> HIDE DEF q
  <2>1. QED
    BY <1>1 DEF Session
<1>4. Sound(done)
  <2> HIDE DEF q, done
  <2>1. QED
    BY <1>1, <1>3, SameIsSound
<1>5. QED
  BY <1>2, <1>3, <1>4

\* An edge into a scene without a roster, or into the one that is open.
LEMMA WildEdgeIsSound ==
  ASSUME NEW s \in Sessions, AllSound, Edge(s),
         session[s].place \in {Wild, session[s].open}
  PROVE  /\ Sound(session'[s])
         /\ session'[s].grave = session[s].grave
         /\ session'[s].opened = session[s].opened
<1> DEFINE q    == session[s]
           done == [[q EXCEPT !.edge = q.place] EXCEPT !.bites = {}]
<1>1. q \in Session /\ Sound(q)
  BY DEF AllSound
<1>2. session'[s] = done
  BY DEF Edge, Becomes, AllSound
<1>3. /\ done \in Session /\ done.bites = {} /\ done.place = q.place /\ done.open = q.open
      /\ done.hp = q.hp /\ done.mind = q.mind /\ done.grave = q.grave
      /\ done.target = q.target /\ done.away = q.away /\ done.opened = q.opened
  <2> HIDE DEF q
  <2>1. QED
    BY <1>1 DEF Session
<1>4. Sound(done)
  <2> HIDE DEF q, done
  <2>1. QED
    BY <1>1, <1>3, SameIsSound
<1>5. QED
  BY <1>2, <1>3, <1>4

\* A grave is taken off the book.
LEMMA ForgetIsSound ==
  ASSUME NEW s \in Sessions, AllSound, NEW x \in session[s].opened,
         Becomes(s, [session[s] EXCEPT !.opened = @ \ {x}])
  PROVE  /\ Sound(session'[s])
         /\ session'[s].grave = session[s].grave
         /\ session'[s].opened = session[s].opened \ {x}
<1> DEFINE q    == session[s]
           done == [[q EXCEPT !.opened = q.opened \ {x}] EXCEPT !.bites = {}]
<1>1. q \in Session /\ Sound(q)
  BY DEF AllSound
<1>2. session'[s] = done
  BY DEF Becomes, AllSound
<1>3. /\ done \in Session /\ done.bites = {} /\ done.place = q.place /\ done.open = q.open
      /\ done.hp = q.hp /\ done.mind = q.mind /\ done.grave = q.grave
      /\ done.target = q.target /\ done.away = q.away /\ done.opened = q.opened \ {x}
  <2> HIDE DEF q
  <2>1. QED
    BY <1>1 DEF Session
<1>4. Sound(done)
  <2> HIDE DEF q, done
  <2>1. QED
    BY <1>1, <1>3, SameIsSound
<1>5. QED
  BY <1>2, <1>3, <1>4

\* What a sweep leaves: a grave is gone, or it has a date now.
LEMMA SweptFacts ==
  ASSUME NEW grave \in [Monsters -> Ages]
  PROVE  /\ Swept(grave) \in [Monsters -> Ages]
         /\ \A x \in Monsters : grave[x] = None => Swept(grave)[x] = None
         /\ \A x \in Monsters : Swept(grave)[x] # None /\ grave[x] # Undated
                                 => Swept(grave)[x] = grave[x]
         /\ \A x \in Monsters : Swept(grave)[x] # None /\ grave[x] = Undated
                                 => Swept(grave)[x] = 0
         /\ \A x \in Monsters : grave[x] # None /\ Swept(grave)[x] = None
                                 => grave[x] = Delay
<1>1. \A x \in Monsters :
        Swept(grave)[x] = IF grave[x] \in Int /\ grave[x] >= Delay THEN None
                          ELSE IF grave[x] = Undated THEN 0 ELSE grave[x]
  BY DEF Swept, Ripe
<1>2. Swept(grave) \in [Monsters -> Ages]
  BY AgeFacts DEF Swept
<1>3. \A x \in Monsters : grave[x] \in Int /\ grave[x] >= Delay => grave[x] = Delay
  BY AgeFacts, DelayIsANumber
<1>4. QED
  BY <1>1, <1>2, <1>3, AgeFacts

\* The edge into a scene whose roster is not open: sweep, and open it.
LEMMA ReopenedIsSound ==
  ASSUME NEW s \in Sessions, AllSound, MayDispatch(s),
         session[s].place \in Folders, session[s].place # session[s].open
  PROVE  /\ Sound([Reopened(s) EXCEPT !.bites = {}])
         /\ Reopened(s) \in Session
         /\ Reopened(s).grave = Swept(session[s].grave)
         /\ Reopened(s).opened = {x \in Buried(s) : Swept(session[s].grave)[x] = None}
<1> DEFINE q    == session[s]
           f    == q.place
           new  == Swept(q.grave)
           up   == {x \in Buried(s) : new[x] = None}
           away == [x \in Monsters |-> IF x \in up THEN None ELSE q.away[x]]
           hp   == Balances(f, new)
           mind == [m \in Ids |-> "idle"]
           r    == Reopened(s)
           done == [r EXCEPT !.bites = {}]
<1>1. q \in Session /\ Sound(q) /\ q.target = None
  BY DEF AllSound, MayDispatch
<1>2. new \in [Monsters -> Ages]
  BY <1>1, SweptFacts DEF Session
<1>3. up \subseteq Monsters /\ away \in [Monsters -> Ages \ {Undated}]
  BY <1>1, AgeFacts DEF Session, Buried
<1>4. hp \in [Ids -> 0..MaxHp]
  BY HpIsPositive DEF Balances
<1>5. r = [q EXCEPT !.edge = f, !.open = f, !.grave = new, !.hp = hp, !.mind = mind,
                    !.opened = up, !.away = away]
  BY DEF Reopened
<1>6. /\ r \in Session /\ done \in Session
      /\ done.place = f /\ done.open = f /\ done.grave = new /\ done.hp = hp
      /\ done.mind = mind /\ done.opened = up /\ done.away = away
      /\ done.bites = {} /\ done.target = None
      /\ r.grave = new /\ r.opened = up
  <2>1. mind \in [Ids -> {"idle", "aggro", "dead"}]
    OBVIOUS
  <2>2. f \in Places
    BY DEF Places
  <2>3. f \in Folders /\ q.place = f
    OBVIOUS
  <2> HIDE DEF q, f, new, up, away, hp, mind, r
  <2>4. /\ r \in Session
        /\ r.place = f /\ r.open = f /\ r.grave = new /\ r.hp = hp /\ r.mind = mind
        /\ r.opened = up /\ r.away = away /\ r.target = None
    BY <1>1, <1>2, <1>3, <1>4, <1>5, <2>1, <2>2, <2>3 DEF Session
  <2>5. QED
    BY <2>4 DEF Session
<1>7. Balanced(done)
  <2>1. ASSUME NEW m \in Roster[f]
        PROVE  (hp[m] = 0) <=> (new[<<f, m>>] # None)
    <3>1. m \in Ids /\ <<f, m>> \in Monsters
      BY RostersAreMonsters DEF Monsters
    <3>2. hp[m] = IF new[<<f, m>>] # None THEN 0 ELSE MaxHp
      BY <3>1 DEF Balances
    <3> HIDE DEF hp, new
    <3>3. QED
      BY <3>2, HpIsPositive
  <2>2. \A m \in Roster[f] : m # None
    BY RostersAreMonsters, NoneIsNothing
  <2> HIDE DEF hp, new, f, done
  <2>3. QED
    BY <1>6, <2>1, <2>2 DEF Balanced
<1>8. AwayIsOlder(done)
  <2> SUFFICES ASSUME NEW x \in Monsters, new[x] # None
               PROVE  /\ away[x] # None
                      /\ new[x] \in Int => away[x] \in Int /\ new[x] <= away[x]
    BY <1>6 DEF AwayIsOlder
  <2>1. q.grave[x] # None
    BY <1>1, SweptFacts DEF Session
  <2>2. away[x] = q.away[x]
    OBVIOUS
  <2>3. q.away[x] # None
    BY <1>1, <2>1 DEF Sound, AwayIsOlder
  <2>4. q.away[x] \in 0..Delay
    BY <1>1, <2>3, AgeFacts DEF Session
  <2>5. CASE q.grave[x] = Undated
    <3>1. new[x] = 0
      BY <1>1, <2>5, SweptFacts DEF Session
    <3> HIDE DEF new, away, q
    <3>2. QED
      BY <2>2, <2>3, <2>4, <3>1, DelayIsANumber
  <2>6. CASE q.grave[x] # Undated
    <3>1. new[x] = q.grave[x]
      BY <1>1, <2>6, SweptFacts DEF Session
    <3>2. q.grave[x] \in Int => q.away[x] \in Int /\ q.grave[x] <= q.away[x]
      BY <1>1, <2>1 DEF Sound, AwayIsOlder
    <3> HIDE DEF new, away, q
    <3>3. QED
      BY <2>2, <2>3, <3>1, <3>2
  <2>7. QED
    BY <2>5, <2>6
<1>9. OpenedAreUp(done) /\ MindsAreHere(done)
  <2>1. \A x \in up : new[x] = None
    OBVIOUS
  <2>2. \A m \in Ids : mind[m] = "idle"
    OBVIOUS
  <2> HIDE DEF new, up, mind, done
  <2>3. QED
    BY <1>6, <2>1, <2>2 DEF OpenedAreUp, MindsAreHere
<1>10. f # None
  BY NoneIsNothing
<1>11. Sound(done)
  <2> HIDE DEF f, new, up, away, hp, mind, r, done
  <2>1. QED
    BY <1>6, <1>7, <1>8, <1>9, <1>10 DEF Sound, BitesAreAlive, FightIsHere, OutIsBlank
<1>12. QED
  BY <1>6, <1>11

\* A hit takes from the balance; who has none left waits for his burial.
LEMMA HitIsSound ==
  ASSUME NEW s \in Sessions, NEW m \in Ids, AllSound, Hit(s, m)
  PROVE  /\ Sound(session'[s])
         /\ session'[s].grave = session[s].grave
         /\ session'[s].opened = session[s].opened
<1>1. PICK hp : /\ hp \in 0..MaxHp
                /\ Becomes(s, [session[s] EXCEPT
                      !.hp[m] = hp, !.mind[m] = Angered(@),
                      !.target = IF hp = 0 THEN m ELSE None])
  <2>1. PICK damage \in 1..MaxHp :
          Becomes(s, [session[s] EXCEPT
                !.hp[m] = Remaining(session[s].hp[m], damage), !.mind[m] = Angered(@),
                !.target = IF Remaining(session[s].hp[m], damage) = 0 THEN m ELSE None])
    BY DEF Hit
  <2>2. session[s].hp[m] \in 0..MaxHp
    BY DEF AllSound, Session
  <2>3. Remaining(session[s].hp[m], damage) \in 0..MaxHp
    BY <2>2, HpIsPositive DEF Remaining
  <2>4. QED
    BY <2>1, <2>3
<1> DEFINE q      == session[s]
           hps    == [q.hp EXCEPT ![m] = hp]
           minds  == [q.mind EXCEPT ![m] = Angered(@)]
           target == IF hp = 0 THEN m ELSE None
           new    == [q EXCEPT !.hp = hps, !.mind = minds, !.target = target]
           done   == [new EXCEPT !.bites = {}]
<1>2. q \in Session /\ Sound(q)
  BY DEF AllSound
<1>3. /\ q.target = None /\ q.opened = {} /\ q.place = q.open /\ q.place # None
      /\ m \in Roster[q.open] /\ q.hp[m] > 0
  BY DEF Hit, IsTarget, AmongMonsters, InStep, MayDispatch, Live
<1>4. hps \in [Ids -> 0..MaxHp] /\ minds \in [Ids -> {"idle", "aggro", "dead"}]
  BY <1>1, <1>2 DEF Session, Angered
<1>5. session'[s] = done
  BY <1>1 DEF Becomes, AllSound
<1>6. /\ done \in Session
      /\ done.place = q.place /\ done.open = q.open /\ done.hp = hps /\ done.mind = minds
      /\ done.target = target /\ done.bites = {} /\ done.grave = q.grave
      /\ done.opened = q.opened /\ done.away = q.away
  <2>1. target \in Ids \cup {None}
    OBVIOUS
  <2> HIDE DEF q, hps, minds, target, new
  <2>2. /\ new \in Session
        /\ new.place = q.place /\ new.open = q.open /\ new.hp = hps /\ new.mind = minds
        /\ new.target = target /\ new.grave = q.grave
        /\ new.opened = q.opened /\ new.away = q.away
    BY <1>2, <1>4, <2>1 DEF Session, new
  <2>3. QED
    BY <2>2 DEF Session
<1>7. q.open \in Folders /\ Roster[q.open] \subseteq Ids
  BY <1>2, RostersAreMonsters DEF Session
<1>8. Balanced(done)
  <2> SUFFICES ASSUME NEW n \in Roster[q.open]
               PROVE  (hps[n] = 0) <=> (q.grave[<<q.open, n>>] # None \/ target = n)
    BY <1>6 DEF Balanced
  <2>1. (q.hp[n] = 0) <=> (q.grave[<<q.open, n>>] # None)
    BY <1>2, <1>3, <1>7, NoneIsNothing DEF Sound, Balanced
  <2>2. hps[n] = IF n = m THEN hp ELSE q.hp[n]
    BY <1>2, <1>7 DEF Session
  <2>3. n # None /\ q.hp[m] # 0
    BY <1>3, <1>7, NoneIsNothing
  <2> HIDE DEF q, hps
  <2>4. QED
    BY <2>1, <2>2, <2>3
<1>9. MindsAreHere(done)
  <2>1. \A n \in Ids \ Roster[q.open] : minds[n] = q.mind[n]
    BY <1>2, <1>3 DEF Session
  <2>2. QED
    BY <1>2, <1>6, <2>1 DEF Sound, MindsAreHere
<1>10. AwayIsOlder(done)
  BY <1>2, <1>6 DEF Sound, AwayIsOlder
<1>11. Sound(done)
  <2> HIDE DEF q, done
  <2>1. QED
    BY <1>3, <1>6, <1>8, <1>9, <1>10 DEF Sound, BitesAreAlive, FightIsHere, OutIsBlank,
       OpenedAreUp
<1>12. QED
  BY <1>5, <1>6, <1>11

\* The burial: a grave without a date, in the scene where the player is.
LEMMA BuryIsSound ==
  ASSUME NEW s \in Sessions, AllSound, session[s].target # None,
         Becomes(s, Killed(session[s]))
  PROVE  /\ Sound(session'[s])
         /\ session'[s].opened = {} /\ session[s].opened = {}
         /\ <<session[s].open, session[s].target>> \in Monsters
         /\ session'[s].grave
              = [session[s].grave EXCEPT ![<<session[s].open, session[s].target>>] = Undated]
<1> DEFINE q      == session[s]
           x      == <<q.open, q.target>>
           graves == [q.grave EXCEPT ![x] = Undated]
           minds  == [q.mind EXCEPT ![q.target] = "dead"]
           new    == [q EXCEPT !.grave = graves, !.mind = minds, !.target = None]
           done   == [new EXCEPT !.bites = {}]
<1>1. q \in Session /\ Sound(q)
  BY DEF AllSound
<1>2. q.target \in Ids /\ q.open \in Folders /\ x \in Monsters
  BY <1>1 DEF Session, Monsters
<1>3. q.place = q.open /\ q.opened = {} /\ q.place # None
  BY <1>1, <1>2, NoneIsNothing DEF Sound, FightIsHere
<1>4. /\ graves \in [Monsters -> Ages] /\ minds \in [Ids -> {"idle", "aggro", "dead"}]
      /\ \A y \in Monsters : graves[y] = IF y = x THEN Undated ELSE q.grave[y]
      /\ \A n \in Ids : minds[n] \in {q.mind[n], "dead"}
  BY <1>1, <1>2, AgeFacts DEF Session
<1>5. session'[s] = done
  BY DEF Becomes, AllSound, Killed
<1>6. /\ done \in Session
      /\ done.place = q.place /\ done.open = q.open /\ done.hp = q.hp /\ done.mind = minds
      /\ done.target = None /\ done.bites = {} /\ done.grave = graves
      /\ done.opened = q.opened /\ done.away = q.away
  <2> HIDE DEF q, x, graves, minds, new
  <2>1. /\ new \in Session
        /\ new.place = q.place /\ new.open = q.open /\ new.hp = q.hp /\ new.mind = minds
        /\ new.target = None /\ new.grave = graves
        /\ new.opened = q.opened /\ new.away = q.away
    BY <1>1, <1>4 DEF Session, new
  <2>2. QED
    BY <2>1 DEF Session
<1>7. Balanced(done)
  <2> SUFFICES ASSUME NEW n \in Roster[q.open]
               PROVE  (q.hp[n] = 0) <=> (graves[<<q.open, n>>] # None)
    <3>1. \A n \in Roster[q.open] : n # None
      BY <1>2, RostersAreMonsters, NoneIsNothing
    <3> HIDE DEF graves, done
    <3>2. QED
      BY <1>6, <3>1 DEF Balanced
  <2>1. n \in Ids /\ <<q.open, n>> \in Monsters
    BY <1>2, RostersAreMonsters DEF Monsters
  <2>2. (q.hp[n] = 0) <=> (q.grave[<<q.open, n>>] # None \/ q.target = n)
    BY <1>1, <1>3 DEF Sound, Balanced
  <2>3. graves[<<q.open, n>>] = IF n = q.target THEN Undated ELSE q.grave[<<q.open, n>>]
    BY <1>4, <2>1
  <2> HIDE DEF graves, q
  <2>4. QED
    BY <2>2, <2>3, AgeFacts
<1>8. MindsAreHere(done)
  BY <1>1, <1>4, <1>6 DEF Sound, MindsAreHere
<1>9. AwayIsOlder(done)
  <2> SUFFICES ASSUME NEW y \in Monsters, graves[y] # None
               PROVE  /\ q.away[y] = None => y[1] = q.place /\ q.place = q.open
                      /\ graves[y] \in Int => q.away[y] \in Int /\ graves[y] <= q.away[y]
    BY <1>6 DEF AwayIsOlder
  <2>1. CASE y = x
    <3>1. y[1] = q.open /\ graves[y] = Undated
      BY <1>4, <2>1
    <3>2. QED
      BY <1>3, <3>1, AgeFacts
  <2>2. CASE y # x
    <3>1. graves[y] = q.grave[y]
      BY <1>4, <2>2
    <3>2. QED
      BY <1>1, <3>1 DEF Sound, AwayIsOlder
  <2>3. QED
    BY <2>1, <2>2
<1>10. Sound(done)
  <2> HIDE DEF q, graves, done
  <2>1. QED
    BY <1>3, <1>6, <1>7, <1>8, <1>9 DEF Sound, BitesAreAlive, FightIsHere, OutIsBlank,
       OpenedAreUp
<1>11. QED
  BY <1>2, <1>3, <1>5, <1>6, <1>10

\* A tick: who has no balance turns "dead", whatever his mind said, and does not bite.
LEMMA AiTickIsSound ==
  ASSUME NEW s \in Sessions, AllSound, AiTick(s)
  PROVE  /\ Sound(session'[s])
         /\ session'[s].grave = session[s].grave
         /\ session'[s].opened = session[s].opened
<1> DEFINE q           == session[s]
           Minds(near) == [m \in Ids |-> IF m \in Roster[q.open]
                                         THEN Mind(q.mind[m], q.hp[m], m \in near)
                                         ELSE q.mind[m]]
<1>0. PICK near \in SUBSET (Offensive \cap Roster[q.open]) :
        \E bites \in SUBSET {m \in Ids : Minds(near)[m] = "aggro"} :
          session' = [session EXCEPT ![s].mind = Minds(near), ![s].bites = bites]
  BY DEF AiTick
<1> DEFINE minds == Minds(near)
<1>1. PICK bites \in SUBSET {m \in Ids : minds[m] = "aggro"} :
        session' = [session EXCEPT ![s].mind = minds, ![s].bites = bites]
  BY <1>0
<1>2. q \in Session /\ Sound(q)
  BY DEF AllSound
<1>3. q.target = None /\ q.opened = {} /\ q.place = q.open /\ q.place # None
  BY DEF AiTick, AmongMonsters, InStep, MayDispatch, Live
<1>4. /\ minds \in [Ids -> {"idle", "aggro", "dead"}]
      /\ \A m \in Ids \ Roster[q.open] : minds[m] = q.mind[m]
  BY <1>2 DEF Session, Mind
<1>5. \A m \in bites : m \in Ids /\ q.hp[m] > 0
  <2> SUFFICES ASSUME NEW m \in bites
               PROVE  m \in Ids /\ q.hp[m] > 0
    OBVIOUS
  <2>1. m \in Ids /\ minds[m] = "aggro"
    BY <1>1
  <2>2. m \in Roster[q.open]
    BY <1>2, <1>4, <2>1 DEF Sound, MindsAreHere
  <2>3. Mind(q.mind[m], q.hp[m], m \in near) = "aggro"
    BY <2>1, <2>2
  <2>4. q.hp[m] # 0
    BY <2>3 DEF Mind
  <2>5. q.hp[m] \in 0..MaxHp
    BY <1>2, <2>1 DEF Session
  <2>6. QED
    BY <2>1, <2>4, <2>5, HpIsPositive
<1> DEFINE done == [q EXCEPT !.mind = minds, !.bites = bites]
<1>6. session'[s] = done
  BY <1>1 DEF AllSound
<1>7. /\ done \in Session
      /\ done.place = q.place /\ done.open = q.open /\ done.hp = q.hp /\ done.mind = minds
      /\ done.target = None /\ done.bites = bites /\ done.grave = q.grave
      /\ done.opened = q.opened /\ done.away = q.away
  <2>1. bites \subseteq Ids
    BY <1>5
  <2> HIDE DEF q
  <2>2. q.target = None
    BY <1>3
  <2>3. QED
    BY <1>2, <1>4, <2>1, <2>2 DEF Session
<1>8. Balanced(done) /\ AwayIsOlder(done)
  <2> HIDE DEF done
  <2>1. q.target = None
    BY <1>3
  <2>2. QED
    BY <1>2, <1>7, <2>1 DEF Sound, Balanced, AwayIsOlder
<1>9. MindsAreHere(done)
  <2> HIDE DEF done
  <2>1. QED
    BY <1>2, <1>4, <1>7 DEF Sound, MindsAreHere
<1>10. Sound(done)
  <2> HIDE DEF done, q
  <2>1. QED
    BY <1>3, <1>5, <1>7, <1>8, <1>9 DEF Sound, BitesAreAlive, FightIsHere, OutIsBlank,
       OpenedAreUp
<1>11. QED
  BY <1>6, <1>7, <1>10

\* A tick of the clock ages graves and absences alike, and dates none.
LEMMA OlderFacts ==
  /\ \A a \in Ages : /\ Older(a) \in Ages
                     /\ (Older(a) = None) <=> (a = None)
                     /\ Older(a) \in Int <=> a \in Int
                     /\ a # Undated => Older(a) # Undated
  /\ \A a, b \in 0..Delay : a <= b => Older(a) <= Older(b)
<1>1. \A a \in Ages : a \in 0..(Delay - 1) => a + 1 \in 0..Delay
  BY DelayIsANumber
<1>2. ASSUME NEW a \in Ages
      PROVE  /\ Older(a) \in Ages
             /\ (Older(a) = None) <=> (a = None)
             /\ Older(a) \in Int <=> a \in Int
             /\ a # Undated => Older(a) # Undated
  <2>1. CASE a \in 0..(Delay - 1)
    BY <1>1, <2>1, AgeFacts, DelayIsANumber DEF Older, Ages
  <2>2. CASE a \notin 0..(Delay - 1)
    BY <2>2 DEF Older
  <2>3. QED
    BY <2>1, <2>2
<1>3. \A a, b \in 0..Delay : a <= b => Older(a) <= Older(b)
  BY DelayIsANumber DEF Older
<1>4. QED
  BY <1>2, <1>3

\* So it keeps a session sound.
LEMMA TimeIsSound ==
  ASSUME NEW s \in Sessions, AllSound, Time
  PROVE  /\ Sound(session'[s])
         /\ \A x \in Monsters :
              (session'[s].grave[x] = None) <=> (session[s].grave[x] = None)
         /\ session'[s].opened = session[s].opened
         /\ session'[s].place = session[s].place
<1> DEFINE q      == session[s]
           graves == [x \in Monsters |-> Older(q.grave[x])]
           away   == [x \in Monsters |-> Older(q.away[x])]
           done   == [q EXCEPT !.grave = graves, !.away = away]
<1>1. q \in Session /\ Sound(q)
  BY DEF AllSound
<1>2. session'[s] = done
  BY DEF Time
<1>3. ASSUME NEW x \in Monsters
      PROVE  /\ graves[x] \in Ages /\ away[x] \in Ages \ {Undated}
             /\ (graves[x] = None) <=> (q.grave[x] = None)
             /\ (away[x] = None) <=> (q.away[x] = None)
             /\ graves[x] \in Int <=> q.grave[x] \in Int
             /\ away[x] \in Int <=> q.away[x] \in Int
             /\ q.grave[x] \in Int /\ q.away[x] \in Int /\ q.grave[x] <= q.away[x]
                  => graves[x] <= away[x]
  <2>1. q.grave[x] \in Ages /\ q.away[x] \in Ages \ {Undated}
    BY <1>1 DEF Session
  <2>2. graves[x] = Older(q.grave[x]) /\ away[x] = Older(q.away[x])
    OBVIOUS
  <2> HIDE DEF graves, away, q
  <2>3. QED
    BY <2>1, <2>2, OlderFacts, AgeFacts
<1>4. graves \in [Monsters -> Ages] /\ away \in [Monsters -> Ages \ {Undated}]
  BY <1>3
<1>5. /\ done \in Session
      /\ done.place = q.place /\ done.open = q.open /\ done.hp = q.hp /\ done.mind = q.mind
      /\ done.target = q.target /\ done.bites = q.bites /\ done.grave = graves
      /\ done.opened = q.opened /\ done.away = away
  <2> HIDE DEF q, graves, away
  <2>1. QED
    BY <1>1, <1>4 DEF Session
<1> HIDE DEF q, graves, away, done
<1>6. Balanced(done)
  <2>1. q.open \in Folders
    BY <1>1 DEF Session
  <2>2. \A m \in Roster[q.open] : <<q.open, m>> \in Monsters
    BY <2>1, RostersAreMonsters DEF Monsters
  <2>3. QED
    BY <1>1, <1>3, <1>5, <2>2 DEF Sound, Balanced
<1>7. AwayIsOlder(done)
  BY <1>1, <1>3, <1>5 DEF Sound, AwayIsOlder
<1>8. OutIsBlank(done)
  BY <1>1, <1>3, <1>5 DEF Sound, OutIsBlank
<1>9. OpenedAreUp(done)
  <2>1. q.opened \subseteq Monsters
    BY <1>1 DEF Session
  <2>2. QED
    BY <1>1, <1>3, <1>5, <2>1 DEF Sound, OpenedAreUp
<1>10. BitesAreAlive(done) /\ MindsAreHere(done) /\ FightIsHere(done)
  BY <1>1, <1>5 DEF Sound, BitesAreAlive, MindsAreHere, FightIsHere
<1>11. Sound(done)
  BY <1>5, <1>6, <1>7, <1>8, <1>9, <1>10 DEF Sound
<1>12. QED
  BY <1>2, <1>3, <1>5, <1>11 DEF q

\* A server that has just started is sound.
LEMMA InitSound == Init => AllSound
  BY OutIsSound DEF Init, AllSound, Sound

\* So is a session that ends or begins.
LEMMA LoginAndLogoutAreSound ==
  ASSUME NEW s \in Sessions, AllSound, Logout(s) \/ \E p \in Places : Login(s, p)
  PROVE  /\ Sound(session'[s])
         /\ session'[s].opened = {}
         /\ \A x \in Monsters : session'[s].grave[x] = None
<1>1. CASE Logout(s)
  <2>1. session'[s] = [Out EXCEPT !.bites = {}]
    BY <1>1 DEF Logout, Becomes, AllSound
  <2>2. [Out EXCEPT !.bites = {}] = Out
    <3>1. Out \in Session /\ Out.bites = {}
      BY OutIsSound DEF Sound, Out
    <3>2. QED
      BY <3>1 DEF Session
  <2>3. Out.opened = {} /\ \A x \in Monsters : Out.grave[x] = None
    BY DEF Out
  <2>4. QED
    BY <2>1, <2>2, <2>3, OutIsSound
<1>2. ASSUME NEW p \in Places, Login(s, p)
      PROVE  /\ Sound(session'[s])
             /\ session'[s].opened = {}
             /\ \A x \in Monsters : session'[s].grave[x] = None
  <2> DEFINE q == [[Out EXCEPT !.place = p] EXCEPT !.bites = {}]
  <2>1. session'[s] = q
    BY <1>2 DEF Login, Becomes, AllSound
  <2>2. Sound(q)
    BY LoginIsSound
  <2>3. q.opened = {} /\ \A x \in Monsters : q.grave[x] = None
    BY DEF Out
  <2>4. QED
    BY <2>1, <2>2, <2>3
<1>3. QED
  BY <1>1, <1>2

\* A step of one session leaves the others alone.
LEMMA OneSession ==
  ASSUME NEW s \in Sessions, AllSound, Sound(session'[s]),
         \E new : session' = [session EXCEPT ![s] = new]
  PROVE  AllSound' /\ \A t \in Sessions \ {s} : session'[t] = session[t]
<1>1. \A t \in Sessions \ {s} : session'[t] = session[t]
  BY DEF AllSound
<1>2. session' \in [Sessions -> Session]
  BY DEF AllSound, Sound
<1>3. QED
  BY <1>1, <1>2 DEF AllSound

\* The frames a session handles, but for the book.
Frame(s) ==
    \/ \E p \in Places : Login(s, p) \/ Travel(s, p)
    \/ Logout(s) \/ Census(s) \/ Edge(s) \/ Forget(s)
    \/ \E m \in Ids : Hit(s, m)
    \/ Bury(s) \/ AiTick(s)

\* An edge is one of the two kinds.
LEMMA EdgeCases ==
  ASSUME NEW s \in Sessions, AllSound, Edge(s)
  PROVE  \/ session[s].place \in {Wild, session[s].open}
         \/ /\ MayDispatch(s) /\ session[s].place \in Folders
            /\ session[s].place # session[s].open
            /\ session'[s] = [Reopened(s) EXCEPT !.bites = {}]
<1>1. CASE session[s].place \notin {Wild, session[s].open}
  <2>1. session[s].place # None /\ session[s].place \in Places \cup {None}
    BY DEF Edge, MayDispatch, Live, AllSound, Session
  <2>2. session'[s] = [Reopened(s) EXCEPT !.bites = {}]
    BY <1>1 DEF Edge, Becomes, AllSound
  <2>3. QED
    BY <1>1, <2>1, <2>2 DEF Edge, Places
<1>2. QED
  BY <1>1

\* Every frame keeps every session sound.
LEMMA FrameIsSound ==
  ASSUME NEW s \in Sessions, AllSound, Frame(s)
  PROVE  AllSound' /\ \A t \in Sessions \ {s} : session'[t] = session[t]
<1>1. \E new : session' = [session EXCEPT ![s] = new]
  <2>1. CASE AiTick(s)
    <3>1. PICK minds, bites : session' = [session EXCEPT ![s].mind = minds, ![s].bites = bites]
      BY <2>1 DEF AiTick
    <3>2. session' = [session EXCEPT ![s] = [session[s] EXCEPT !.mind = minds, !.bites = bites]]
      BY <3>1
    <3>3. QED
      BY <3>2
  <2>2. CASE ~AiTick(s)
    BY <2>2 DEF Frame, Login, Travel, Logout, Census, Edge, Forget, Hit, Bury, Becomes
  <2>3. QED
    BY <2>1, <2>2
<1>2. Sound(session'[s])
  <2>1. CASE Edge(s)
    BY <2>1, EdgeCases, WildEdgeIsSound, ReopenedIsSound
  <2>2. CASE Forget(s)
    BY <2>2, ForgetIsSound DEF Forget
  <2>3. CASE Bury(s)
    BY <2>3, BuryIsSound DEF Bury
  <2>4. QED
    BY <2>1, <2>2, <2>3, LoginAndLogoutAreSound, TravelIsSound, CensusIsSound, HitIsSound,
       AiTickIsSound DEF Frame
<1>3. QED
  BY <1>1, <1>2, OneSession

\* Every step keeps every session sound.
LEMMA NextSound == AllSound /\ [Next]_vars => AllSound'
<1> SUFFICES ASSUME AllSound, [Next]_vars PROVE AllSound'
  OBVIOUS
<1>1. CASE UNCHANGED vars
  BY <1>1 DEF vars, AllSound
<1>2. CASE Time
  <2>1. \A s \in Sessions : Sound(session'[s])
    BY <1>2, TimeIsSound
  <2>2. session' \in [Sessions -> Session]
    BY <1>2, <2>1 DEF Time, Sound
  <2>3. QED
    BY <2>1, <2>2 DEF AllSound
<1>3. CASE Restart
  BY <1>3, OutIsSound DEF Restart, AllSound, Sound
<1>4. ASSUME NEW s \in Sessions, Frame(s)
      PROVE  AllSound'
  BY <1>4, FrameIsSound
<1>5. QED
  BY <1>1, <1>2, <1>3, <1>4 DEF Next, Frame

\* Every session is sound in every behaviour, with any number of them at once.
THEOREM SessionsAreSound == Spec => []AllSound
  BY InitSound, NextSound, PTL DEF Spec

\* The ledger and the register of a session tell the same monsters dead, through any
\* sequence of kills, journeys, sweeps and logins.
THEOREM BalancesStayTrue == Spec => []BalancesAgree
<1>1. AllSound => BalancesAgree
  BY DEF AllSound, Sound, Balanced, BalancesAgree, Live
<1>2. QED
  BY <1>1, SessionsAreSound, PTL

\* No corpse attacks, and nobody attacks a player who is somewhere else, though the
\* minds of a scene are opened afresh for its dead too.
THEOREM CorpsesDoNotBite == Spec => []OnlyTheLivingBite
<1>1. AllSound => OnlyTheLivingBite
  BY DEF AllSound, Sound, BitesAreAlive, OnlyTheLivingBite
<1>2. QED
  BY <1>1, SessionsAreSound, PTL

-----------------------------------------------------------------------------
(* The book of graves *)

BooksAreTyped == book \subseteq Monsters /\ left \subseteq Monsters /\ alone \in BOOLEAN

OneIsLive == alone => \A s, t \in Live : s = t

Books == BooksAreTyped /\ OneIsLive /\ BooksAgree

\* What a session accounts for in the book.
Held(s) == Buried(s) \cup session[s].opened

\* A session that is not there accounts for nothing.
LEMMA OnlyTheLiveHold ==
  ASSUME AllSound, NEW s \in Sessions, Live \subseteq {s}
  PROVE  UNION {Buried(t) \cup session[t].opened : t \in Sessions} = Held(s)
<1>1. \A t \in Sessions \ {s} : Buried(t) = {} /\ session[t].opened = {}
  BY DEF AllSound, Sound, OutIsBlank, Live, Buried
<1>2. QED
  BY <1>1 DEF Held

\* Served alone, what a session does to the book it does to what it accounts for.
LEMMA OneSessionBooks ==
  ASSUME AllSound, Books, AllSound', NEW s \in Sessions,
         \A t \in Sessions \ {s} : session'[t] = session[t],
         book' \subseteq Monsters, left' \subseteq Monsters,
         alone' = (alone /\ Live \subseteq {s}),
         book = left \cup Held(s) => book' = left' \cup Held(s)'
  PROVE  Books'
<1> SUFFICES ASSUME alone'
             PROVE  OneIsLive' /\ BooksAgree'
  BY DEF Books, BooksAreTyped, OneIsLive, BooksAgree
<1>1. Live \subseteq {s} /\ alone
  OBVIOUS
<1>2. Live' \subseteq {s}
  BY <1>1 DEF Live
<1>3. book = left \cup Held(s)
  BY <1>1, OnlyTheLiveHold DEF Books, BooksAgree
<1>4. UNION {Buried(t)' \cup session'[t].opened : t \in Sessions} = Held(s)'
  <2>1. \A t \in Sessions \ {s} : Buried(t)' = {} /\ session'[t].opened = {}
    BY <1>2 DEF AllSound, Sound, OutIsBlank, Live, Buried
  <2>2. QED
    BY <2>1 DEF Held
<1>5. BooksAgree'
  BY <1>3, <1>4 DEF BooksAgree
<1>6. OneIsLive'
  BY <1>2 DEF OneIsLive
<1>7. QED
  BY <1>5, <1>6

\* What a frame does to the book, to what the session accounts for, and to what ended
\* sessions have left.
BookMoves(s) ==
    \/ UNCHANGED <<book, left>> /\ Held(s)' = Held(s)
    \/ book' = book /\ left' = left \cup Held(s) /\ Held(s)' = {}
    \/ \E x \in Held(s) :
         book' = book \ {x} /\ left' = left \ {x} /\ Held(s)' = Held(s) \ {x}
    \/ \E x \in Monsters :
         book' = book \cup {x} /\ left' = left /\ Held(s)' = Held(s) \cup {x}

\* It does no more.
LEMMA FrameMoves ==
  ASSUME NEW s \in Sessions, AllSound, BooksAreTyped, Frame(s)
  PROVE  /\ BookMoves(s)
         /\ alone' = (alone /\ (s \in Live \/ Live = {}))
<1>1. CASE \E p \in Places : Login(s, p)
  <2>1. Held(s)' = {}
    BY <1>1, LoginAndLogoutAreSound DEF Held, Buried
  <2>2. Held(s) = {}
    BY <1>1 DEF Login, Live, AllSound, Sound, OutIsBlank, Held, Buried
  <2>3. book' = book /\ left' = left /\ alone' = (alone /\ Live = {}) /\ s \notin Live
    BY <1>1 DEF Login
  <2>4. QED
    BY <2>1, <2>2, <2>3 DEF BookMoves, BooksAreTyped
<1>2. CASE Logout(s)
  <2>1. Held(s)' = {} /\ session[s].opened = {}
    BY <1>2, LoginAndLogoutAreSound DEF Held, Buried, Logout, MayDispatch
  <2>2. book' = book /\ left' = left \cup Buried(s) /\ alone' = alone /\ s \in Live
    BY <1>2 DEF Logout, MayDispatch
  <2>3. QED
    BY <2>1, <2>2 DEF BookMoves, Held, BooksAreTyped
<1>3. ASSUME session'[s].grave = session[s].grave, session'[s].opened = session[s].opened
      PROVE  Held(s)' = Held(s)
  BY <1>3 DEF Held, Buried
<1>4. CASE \/ \E p \in Places : Travel(s, p)
           \/ Census(s) \/ AiTick(s) \/ \E m \in Ids : Hit(s, m)
  <2>1. Held(s)' = Held(s)
    BY <1>3, <1>4, TravelIsSound, CensusIsSound, AiTickIsSound, HitIsSound
  <2>2. s \in Live /\ UNCHANGED <<book, left, alone>>
    BY <1>4 DEF Travel, Census, AiTick, Hit, IsTarget, AmongMonsters, InStep, MayDispatch
  <2>3. QED
    BY <2>1, <2>2 DEF BookMoves, BooksAreTyped
<1>5. CASE Edge(s)
  <2>1. Held(s)' = Held(s)
    <3>1. CASE session[s].place \in {Wild, session[s].open}
      BY <1>3, <1>5, <3>1, WildEdgeIsSound
    <3>2. CASE /\ MayDispatch(s) /\ session[s].place \in Folders
               /\ session[s].place # session[s].open
               /\ session'[s] = [Reopened(s) EXCEPT !.bites = {}]
      <4>1. session[s].grave \in [Monsters -> Ages] /\ session[s].opened = {}
        BY <3>2 DEF AllSound, Session, MayDispatch
      <4>2. /\ session'[s].grave = Swept(session[s].grave)
            /\ session'[s].opened = {x \in Buried(s) : Swept(session[s].grave)[x] = None}
        <5>1. Reopened(s) \in Session
          BY <3>2, ReopenedIsSound
        <5>2. /\ session'[s].grave = Reopened(s).grave
              /\ session'[s].opened = Reopened(s).opened
          BY <3>2, <5>1 DEF Session
        <5>3. QED
          BY <3>2, <5>2, ReopenedIsSound
      <4>3. Buried(s)' = {x \in Buried(s) : Swept(session[s].grave)[x] # None}
        BY <4>1, <4>2, SweptFacts DEF Buried
      <4>4. QED
        BY <4>1, <4>2, <4>3 DEF Held
    <3>3. QED
      BY <1>5, <3>1, <3>2, EdgeCases
  <2>2. s \in Live /\ UNCHANGED <<book, left, alone>>
    BY <1>5 DEF Edge, MayDispatch
  <2>3. QED
    BY <2>1, <2>2 DEF BookMoves, BooksAreTyped
<1>6. CASE Forget(s)
  <2>1. PICK x \in session[s].opened :
          /\ book' = book \ {x} /\ left' = left \ {x} /\ alone' = alone
          /\ Becomes(s, [session[s] EXCEPT !.opened = @ \ {x}])
    BY <1>6 DEF Forget, Without
  <2>2. /\ session'[s].grave = session[s].grave
        /\ session'[s].opened = session[s].opened \ {x}
    BY <2>1, ForgetIsSound
  <2>3. x \notin Buried(s)
    BY DEF AllSound, Sound, OpenedAreUp, Buried
  <2>4. Held(s)' = Held(s) \ {x}
    BY <2>2, <2>3 DEF Held, Buried
  <2>5. s \in Live
    BY DEF AllSound, Sound, OutIsBlank, Live
  <2>6. QED
    BY <2>1, <2>4, <2>5 DEF BookMoves, Held, BooksAreTyped
<1>7. CASE Bury(s)
  <2>1. PICK x : x = <<session[s].open, session[s].target>>
    OBVIOUS
  <2>2. /\ session[s].opened = {} /\ session'[s].opened = {} /\ x \in Monsters
        /\ session'[s].grave = [session[s].grave EXCEPT ![x] = Undated]
    BY <1>7, <2>1, BuryIsSound DEF Bury
  <2>3. session[s].grave \in [Monsters -> Ages]
    BY DEF AllSound, Session
  <2>4. Held(s)' = Held(s) \cup {x}
    BY <2>2, <2>3, AgeFacts DEF Held, Buried
  <2>5. s \in Live
    BY <1>7, NoneIsNothing DEF Bury, AllSound, Sound, FightIsHere, Live, Session
  <2>6. book' = book \cup {x} /\ left' = left /\ alone' = alone
    BY <1>7, <2>1 DEF Bury
  <2>7. QED
    BY <2>2, <2>4, <2>5, <2>6 DEF BookMoves, BooksAreTyped
<1>8. QED
  BY <1>1, <1>2, <1>4, <1>5, <1>6, <1>7 DEF Frame

\* A frame keeps register and book in step.
LEMMA FrameKeepsBooks ==
  ASSUME NEW s \in Sessions, AllSound, Books, Frame(s)
  PROVE  Books'
<1>1. AllSound' /\ \A t \in Sessions \ {s} : session'[t] = session[t]
  BY FrameIsSound
<1>2. BookMoves(s) /\ alone' = (alone /\ (s \in Live \/ Live = {}))
  BY FrameMoves DEF Books
<1>3. Held(s) \subseteq Monsters
  BY DEF Held, Buried, AllSound, Session
<1>4. book' \subseteq Monsters /\ left' \subseteq Monsters
  BY <1>2, <1>3 DEF BookMoves, Books, BooksAreTyped
<1>5. book = left \cup Held(s) => book' = left' \cup Held(s)'
  BY <1>2 DEF BookMoves
<1>6. alone' = (alone /\ Live \subseteq {s})
  <2>1. alone => (Live \subseteq {s} <=> s \in Live \/ Live = {})
    BY DEF Books, OneIsLive
  <2>2. QED
    BY <1>2, <2>1
<1>7. QED
  BY <1>1, <1>4, <1>5, <1>6, OneSessionBooks

\* Every step keeps register and book in step.
LEMMA NextBooks == AllSound /\ Books /\ [Next]_vars => Books'
<1> SUFFICES ASSUME AllSound, Books, [Next]_vars PROVE Books'
  OBVIOUS
<1>1. CASE UNCHANGED vars
  BY <1>1 DEF vars, Books, BooksAreTyped, OneIsLive, BooksAgree, Live, Buried
<1>2. CASE Time
  <2>1. \A s \in Sessions : /\ Buried(s)' = Buried(s)
                            /\ session'[s].opened = session[s].opened
                            /\ session'[s].place = session[s].place
    BY <1>2, TimeIsSound DEF Buried
  <2>2. Live' = Live
    BY <2>1 DEF Live
  <2>3. UNCHANGED <<book, left, alone>>
    BY <1>2 DEF Time
  <2>4. UNION {Buried(s)' \cup session'[s].opened : s \in Sessions}
          = UNION {Buried(s) \cup session[s].opened : s \in Sessions}
    BY <2>1
  <2>5. QED
    BY <2>2, <2>3, <2>4 DEF Books, BooksAreTyped, OneIsLive, BooksAgree
<1>3. CASE Restart
  <2>1. \A s \in Sessions : /\ Buried(s)' = {} /\ session'[s].opened = {}
                            /\ session'[s].place = None
    BY <1>3 DEF Restart, Out, Buried
  <2>2. Live' = {}
    BY <2>1 DEF Live
  <2>3. book' = {} /\ left' = {} /\ alone' = alone
    BY <1>3 DEF Restart
  <2>4. UNION {Buried(s)' \cup session'[s].opened : s \in Sessions} = {}
    BY <2>1
  <2>5. QED
    BY <2>2, <2>3, <2>4 DEF Books, BooksAreTyped, OneIsLive, BooksAgree
<1>4. ASSUME NEW s \in Sessions, Frame(s)
      PROVE  Books'
  BY <1>4, FrameKeepsBooks
<1>5. QED
  BY <1>1, <1>2, <1>3, <1>4 DEF Next, Frame

\* An empty book agrees with sessions that are not there.
LEMMA InitBooks == Init => Books
<1> SUFFICES ASSUME Init PROVE Books
  OBVIOUS
<1>1. \A s \in Sessions : /\ Buried(s) = {} /\ session[s].opened = {}
                          /\ session[s].place = None
  BY DEF Init, Out, Buried
<1>2. Live = {}
  BY <1>1 DEF Live
<1>3. UNION {Buried(s) \cup session[s].opened : s \in Sessions} = {}
  BY <1>1
<1>4. QED
  BY <1>2, <1>3 DEF Init, Books, BooksAreTyped, OneIsLive, BooksAgree

\* As long as one session follows another, the book holds the graves of the register
\* and those that ended sessions have left, and no other.
THEOREM BooksStayInStep == Spec => []BooksAgree
<1>1. Books => BooksAgree
  BY DEF Books
<1>2. QED
  BY <1>1, InitSound, InitBooks, NextSound, NextBooks, PTL DEF Spec

\* The half of BooksAgree that two sessions cannot break: the sweep of one may forget
\* the grave of another, but the book holds no grave that nobody knows of.
NoGraveIsInvented == book \subseteq left \cup UNION {Held(s) : s \in Sessions}

\* Every step adds to the book what it adds to a register.
LEMMA NextInvents ==
  ASSUME AllSound, BooksAreTyped, NoGraveIsInvented, [Next]_vars
  PROVE  NoGraveIsInvented'
<1>1. CASE UNCHANGED vars
  BY <1>1 DEF vars, NoGraveIsInvented, Held, Buried
<1>2. CASE Time
  <2>1. \A s \in Sessions : Held(s)' = Held(s)
    BY <1>2, TimeIsSound DEF Held, Buried
  <2>2. book' = book /\ left' = left
    BY <1>2 DEF Time
  <2>3. QED
    BY <2>1, <2>2 DEF NoGraveIsInvented
<1>3. CASE Restart
  BY <1>3 DEF Restart, NoGraveIsInvented
<1>4. ASSUME NEW s \in Sessions, Frame(s) PROVE NoGraveIsInvented'
  <2>1. \A t \in Sessions \ {s} : Held(t)' = Held(t)
    BY <1>4, FrameIsSound DEF Held, Buried
  <2>2. BookMoves(s)
    BY <1>4, FrameMoves
  <2>3. SUFFICES ASSUME NEW x \in book', x \notin left'
                 PROVE  \E t \in Sessions : x \in Held(t)'
    BY DEF NoGraveIsInvented
  <2>4. x \in Held(s)' \/ (x \in book /\ x \notin left /\ x \notin Held(s))
    <3>1. x \in book => x \in left \/ x \notin left
      OBVIOUS
    <3>2. QED
      BY <2>2, <2>3, <3>1 DEF BookMoves
  <2>5. CASE x \in Held(s)'
    BY <2>5
  <2>6. CASE x \in book /\ x \notin left /\ x \notin Held(s)
    <3>1. PICK t \in Sessions : x \in Held(t)
      BY <2>6 DEF NoGraveIsInvented
    <3>2. QED
      BY <2>1, <2>6, <3>1
  <2>7. QED
    BY <2>4, <2>5, <2>6
<1>5. QED
  BY <1>1, <1>2, <1>3, <1>4 DEF Next, Frame

\* With any number of sessions, served at once or not, the book holds only graves that
\* are in a register, or on their way out of one, or were left by a session that ended.
THEOREM BooksInventNothing == Spec => []NoGraveIsInvented
<1>1. Init => AllSound /\ Books /\ NoGraveIsInvented
  BY InitSound, InitBooks DEF Init, NoGraveIsInvented
<1>2. AllSound /\ Books /\ NoGraveIsInvented /\ [Next]_vars
        => AllSound' /\ Books' /\ NoGraveIsInvented'
  BY NextSound, NextBooks, NextInvents DEF Books
<1>3. QED
  BY <1>1, <1>2, PTL DEF Spec

\* The variables keep their types.
THEOREM TypeCorrect == Spec => []TypeOK
<1>1. AllSound /\ Books => TypeOK
  BY DEF AllSound, Books, BooksAreTyped, TypeOK
<1>2. QED
  BY <1>1, InitSound, InitBooks, NextSound, NextBooks, PTL DEF Spec

-----------------------------------------------------------------------------
(* Nobody stands up early *)

\* What StaysDead says of one step.
LEMMA StepStaysDead ==
  ASSUME AllSound, [Next]_vars, NEW s \in Sessions, NEW x \in Monsters,
         session[s].grave[x] # None, session'[s].grave[x] = None,
         session'[s].place # None
  PROVE  session[s].away[x] = Delay
<1> DEFINE q == session[s]
<1>1. q \in Session /\ Sound(q)
  BY DEF AllSound
<1>2. session'[s].grave # session[s].grave
  OBVIOUS
<1>3. ~UNCHANGED vars
  BY <1>2 DEF vars
<1>4. ~Time
  BY TimeIsSound
<1>5. ~Restart
  BY OutIsSound DEF Restart, Out
<1>6. PICK t \in Sessions : Frame(t)
  BY <1>3, <1>4, <1>5 DEF Next, Frame
<1>7. Frame(s)
  BY <1>2, <1>6, FrameIsSound
<1>8. ~\E p \in Places : Login(s, p)
  BY <1>1 DEF Login, Live, Sound, OutIsBlank
<1>9. ~Logout(s)
  <2>1. Logout(s) => session'[s] = [Out EXCEPT !.bites = {}]
    BY DEF Logout, Becomes, AllSound
  <2>2. QED
    BY <2>1 DEF Out
<1>10. ~Bury(s)
  <2> SUFFICES ASSUME Bury(s) PROVE FALSE
    OBVIOUS
  <2>1. session'[s].grave = [q.grave EXCEPT ![<<q.open, q.target>>] = Undated]
    BY BuryIsSound DEF Bury
  <2>2. q.grave \in [Monsters -> Ages]
    BY <1>1 DEF Session
  <2>3. QED
    BY <2>1, <2>2, AgeFacts
<1>11. Edge(s)
  BY <1>2, <1>7, <1>8, <1>9, <1>10, TravelIsSound, CensusIsSound, HitIsSound, AiTickIsSound,
     ForgetIsSound DEF Frame, Forget
<1>12. /\ MayDispatch(s) /\ q.place \in Folders /\ q.place # q.open
       /\ session'[s] = [Reopened(s) EXCEPT !.bites = {}]
  BY <1>2, <1>11, EdgeCases, WildEdgeIsSound
<1>13. session'[s].grave = Swept(q.grave)
  <2>1. Reopened(s) \in Session /\ Reopened(s).grave = Swept(q.grave)
    BY <1>12, ReopenedIsSound
  <2>2. QED
    BY <1>12, <2>1 DEF Session
<1>14. q.grave[x] = Delay
  BY <1>1, <1>13, SweptFacts DEF Session
<1>15. q.away[x] # None /\ q.away[x] \in Int /\ Delay <= q.away[x]
  BY <1>1, <1>12, <1>14, DelayIsANumber DEF Sound, AwayIsOlder
<1>16. q.away[x] \in 0..Delay
  BY <1>1, <1>15, AgeFacts DEF Session
<1>17. QED
  BY <1>15, <1>16, DelayIsANumber

\* A monster stands up again only when the player has been away from its scene and the
\* whole delay has passed since he first went, however often he comes and goes.
THEOREM NobodyStandsUpEarly == Spec => StaysDead
<1>1. AllSound /\ [Next]_vars =>
        [\A s \in Sessions, x \in Monsters :
           session[s].grave[x] # None /\ session'[s].grave[x] = None
               /\ session'[s].place # None
             => session[s].away[x] = Delay]_vars
  BY StepStaysDead
<1>2. QED
  BY <1>1, SessionsAreSound, PTL DEF Spec, StaysDead

-----------------------------------------------------------------------------
(* Nobody stays dead for ever, as far as it is safety *)

\* What a grave has still to wait for: to be dated, and then the ticks of the delay.
Wait(age) == IF age = Undated THEN Delay + 1 ELSE Delay - age

\* A grave that stays never waits longer than before, a tick shortens the wait of one
\* that is dated, and one that stays when another scene is opened is dated by then and
\* not ripe.  So a player who keeps opening other scenes finds every grave opened after
\* the delay.
Ripens(s, x) ==
    LET age == session[s].grave[x]
        new == session'[s].grave[x]
    IN  age # None /\ new # None /\ session'[s].place # None =>
          /\ Wait(new) <= Wait(age)
          /\ Time /\ age \notin {Undated, Delay} => Wait(new) < Wait(age)
          /\ session'[s].open # session[s].open => ~Ripe(age) /\ new # Undated

\* So does every grave in every session.
GravesRipen == [][\A s \in Sessions, x \in Monsters : Ripens(s, x)]_vars

\* A monster that waits for its burial has no grave yet.
Unburied(q) == q.target # None => q.grave[<<q.open, q.target>>] = None

NoGraveTwice == \A s \in Sessions : Unburied(session[s])

\* The frames that stay in the scene that is open, and leave the graves alone.
Stays(s) ==
    /\ session'[s].open = session[s].open
    /\ session'[s].grave = session[s].grave
    /\ session'[s].target = session[s].target

LEMMA FramesStay ==
  ASSUME NEW s \in Sessions, AllSound,
         \/ \E p \in Places : Travel(s, p)
         \/ Census(s) \/ AiTick(s) \/ Forget(s)
         \/ Edge(s) /\ session[s].place \in {Wild, session[s].open}
  PROVE  Stays(s)
<1> DEFINE q == session[s]
<1>1. q \in Session /\ session \in [Sessions -> Session]
  BY DEF AllSound
<1>2. CASE \E p \in Places : Travel(s, p)
  <2>1. PICK p, away : session'[s] = [[q EXCEPT !.place = p, !.shown = FALSE, !.away = away]
                                         EXCEPT !.bites = {}]
    BY <1>1, <1>2 DEF Travel, Becomes
  <2> HIDE DEF q
  <2>2. session'[s].open = q.open /\ session'[s].grave = q.grave /\ session'[s].target = q.target
    BY <1>1, <2>1 DEF Session
  <2>3. QED
    BY <2>2 DEF Stays, q
<1>3. CASE Census(s)
  <2>1. session'[s] = [[q EXCEPT !.shown = TRUE] EXCEPT !.bites = {}]
    BY <1>1, <1>3 DEF Census, Becomes
  <2> HIDE DEF q
  <2>2. session'[s].open = q.open /\ session'[s].grave = q.grave /\ session'[s].target = q.target
    BY <1>1, <2>1 DEF Session
  <2>3. QED
    BY <2>2 DEF Stays, q
<1>4. CASE AiTick(s)
  <2>0. PICK mind, bites : session' = [session EXCEPT ![s].mind = mind, ![s].bites = bites]
    BY <1>4 DEF AiTick
  <2>1. session'[s] = [q EXCEPT !.mind = mind, !.bites = bites]
    BY <1>1, <2>0
  <2> HIDE DEF q
  <2>2. session'[s].open = q.open /\ session'[s].grave = q.grave /\ session'[s].target = q.target
    BY <1>1, <2>1 DEF Session
  <2>3. QED
    BY <2>2 DEF Stays, q
<1>5. CASE Forget(s)
  <2>1. PICK opened : session'[s] = [[q EXCEPT !.opened = opened] EXCEPT !.bites = {}]
    BY <1>1, <1>5 DEF Forget, Becomes
  <2> HIDE DEF q
  <2>2. session'[s].open = q.open /\ session'[s].grave = q.grave /\ session'[s].target = q.target
    BY <1>1, <2>1 DEF Session
  <2>3. QED
    BY <2>2 DEF Stays, q
<1>6. CASE Edge(s) /\ q.place \in {Wild, q.open}
  <2>1. session'[s] = [[q EXCEPT !.edge = q.place] EXCEPT !.bites = {}]
    BY <1>1, <1>6 DEF Edge, Becomes
  <2> HIDE DEF q
  <2>2. session'[s].open = q.open /\ session'[s].grave = q.grave /\ session'[s].target = q.target
    BY <1>1, <2>1 DEF Session
  <2>3. QED
    BY <2>2 DEF Stays, q
<1>7. QED
  BY <1>2, <1>3, <1>4, <1>5, <1>6

\* A hit leaves the graves alone, and who falls had none.
LEMMA HitKeepsGraves ==
  ASSUME NEW s \in Sessions, NEW m \in Ids, AllSound, Hit(s, m)
  PROVE  /\ session'[s].open = session[s].open
         /\ session'[s].grave = session[s].grave
         /\ session'[s].target \in {m, None}
         /\ session[s].grave[<<session[s].open, m>>] = None
<1> DEFINE q == session[s]
<1>1. q \in Session /\ Sound(q)
  BY DEF AllSound
<1>2. PICK hps, minds, target :
        /\ target \in {m, None}
        /\ session'[s] = [[q EXCEPT !.hp = hps, !.mind = minds, !.target = target]
                            EXCEPT !.bites = {}]
  <2>1. PICK damage :
          Becomes(s, [session[s] EXCEPT
                !.hp[m] = Remaining(session[s].hp[m], damage), !.mind[m] = Angered(@),
                !.target = IF Remaining(session[s].hp[m], damage) = 0 THEN m ELSE None])
    BY DEF Hit
  <2> DEFINE hp     == Remaining(q.hp[m], damage)
             hps    == [q.hp EXCEPT ![m] = hp]
             minds  == [q.mind EXCEPT ![m] = Angered(@)]
             target == IF hp = 0 THEN m ELSE None
  <2>2. session'[s] = [[q EXCEPT !.hp = hps, !.mind = minds, !.target = target]
                         EXCEPT !.bites = {}]
    BY <2>1 DEF Becomes, AllSound
  <2>3. target \in {m, None}
    OBVIOUS
  <2> HIDE DEF hps, minds, target, q
  <2>4. QED
    BY <2>2, <2>3
<1>3. q.grave[<<q.open, m>>] = None
  <2>1. /\ q.place # None /\ m \in Roster[q.open] /\ q.hp[m] # 0
    BY DEF Hit, IsTarget, AmongMonsters, InStep, MayDispatch, Live
  <2>2. QED
    BY <1>1, <2>1 DEF Sound, Balanced
<1> HIDE DEF q
<1>4. /\ session'[s].open = q.open /\ session'[s].grave = q.grave
      /\ session'[s].target = target
  BY <1>1, <1>2 DEF Session
<1>5. QED
  BY <1>2, <1>3, <1>4 DEF q

\* A burial stays in the scene that is open, and leaves nobody to bury.
LEMMA BuryStays ==
  ASSUME NEW s \in Sessions, AllSound, Bury(s)
  PROVE  session'[s].open = session[s].open /\ session'[s].target = None
<1> DEFINE q == session[s]
<1>1. q \in Session
  BY DEF AllSound
<1>2. PICK graves, minds :
        session'[s] = [[q EXCEPT !.grave = graves, !.mind = minds, !.target = None]
                         EXCEPT !.bites = {}]
  <2> DEFINE graves == [q.grave EXCEPT ![<<q.open, q.target>>] = Undated]
             minds  == [q.mind EXCEPT ![q.target] = "dead"]
  <2>1. session'[s] = [[q EXCEPT !.grave = graves, !.mind = minds, !.target = None]
                         EXCEPT !.bites = {}]
    BY DEF Bury, Becomes, Killed, AllSound
  <2> HIDE DEF graves, minds, q
  <2>2. QED
    BY <2>1
<1> HIDE DEF q
<1>3. session'[s].open = q.open /\ session'[s].target = None
  BY <1>1, <1>2 DEF Session
<1>4. QED
  BY <1>3 DEF q

\* The edge that opens a roster sweeps the register, and is taken with nobody to bury.
LEMMA ReopenedGraves ==
  ASSUME NEW s \in Sessions, AllSound, MayDispatch(s),
         session[s].place \in Folders, session[s].place # session[s].open,
         session'[s] = [Reopened(s) EXCEPT !.bites = {}]
  PROVE  session'[s].grave = Swept(session[s].grave) /\ session'[s].target = None
<1>1. Reopened(s) \in Session /\ Reopened(s).grave = Swept(session[s].grave)
  BY ReopenedIsSound
<1>2. Reopened(s).target = None
  BY DEF Reopened, MayDispatch, AllSound, Session
<1>3. QED
  BY <1>1, <1>2 DEF Session

\* Nobody is buried twice.
LEMMA NextUnburied == AllSound /\ NoGraveTwice /\ [Next]_vars => NoGraveTwice'
<1> SUFFICES ASSUME AllSound, NoGraveTwice, [Next]_vars, NEW s \in Sessions,
                    session'[s].target # None
             PROVE  session'[s].grave[<<session'[s].open, session'[s].target>>] = None
  BY DEF NoGraveTwice, Unburied
<1> DEFINE q == session[s]
<1>1. q \in Session /\ Sound(q) /\ Unburied(q)
  BY DEF AllSound, NoGraveTwice
<1>2. ASSUME Stays(s)
      PROVE  session'[s].grave[<<session'[s].open, session'[s].target>>] = None
  BY <1>1, <1>2 DEF Stays, Unburied
<1>3. CASE UNCHANGED vars
  BY <1>2, <1>3 DEF vars, Stays
<1>4. CASE Time
  <2>1. /\ session'[s].open = q.open /\ session'[s].target = q.target
    BY <1>1, <1>4 DEF Time, Session
  <2>2. q.target \in Ids /\ q.open \in Folders
    BY <1>1, <2>1 DEF Session
  <2>3. <<q.open, q.target>> \in Monsters
    BY <2>2 DEF Monsters
  <2>4. QED
    BY <1>1, <1>4, <2>1, <2>3, TimeIsSound DEF Unburied
<1>5. CASE Restart
  BY <1>5 DEF Restart, Out
<1>6. ASSUME NEW t \in Sessions \ {s}, Frame(t)
      PROVE  session'[s].grave[<<session'[s].open, session'[s].target>>] = None
  BY <1>2, <1>6, FrameIsSound DEF Stays
<1>7. CASE Frame(s)
  <2>1. CASE Logout(s) \/ \E p \in Places : Login(s, p)
    <3>1. session'[s].target = None
      BY <2>1 DEF Logout, Login, Becomes, Out, AllSound
    <3>2. QED
      BY <3>1
  <2>2. CASE \E m \in Ids : Hit(s, m)
    BY <2>2, HitKeepsGraves
  <2>3. CASE Bury(s)
    BY <2>3, BuryStays
  <2>4. CASE Edge(s) /\ q.place \notin {Wild, q.open}
    BY <2>4, EdgeCases, ReopenedGraves
  <2>5. QED
    BY <1>2, <1>7, <2>1, <2>2, <2>3, <2>4, FramesStay DEF Frame
<1>8. QED
  BY <1>3, <1>4, <1>5, <1>6, <1>7 DEF Next, Frame

\* What GravesRipen says of one step.
LEMMA StepRipens ==
  ASSUME AllSound, NoGraveTwice, [Next]_vars, NEW s \in Sessions, NEW x \in Monsters
  PROVE  Ripens(s, x)
<1> DEFINE q   == session[s]
           age == q.grave[x]
           new == session'[s].grave[x]
<1> SUFFICES ASSUME age # None, new # None, session'[s].place # None
             PROVE  /\ Wait(new) <= Wait(age)
                    /\ Time /\ age \notin {Undated, Delay} => Wait(new) < Wait(age)
                    /\ session'[s].open # session[s].open => ~Ripe(age) /\ new # Undated
  BY DEF Ripens
<1>1. q \in Session /\ Sound(q) /\ Unburied(q) /\ age \in Ages
  BY DEF AllSound, NoGraveTwice, Session
<1>2. Wait(age) \in Int
  BY <1>1, AgeFacts, DelayIsANumber DEF Wait
<1>3. CASE Time
  <2>1. session'[s].open = session[s].open /\ new = Older(age)
    BY <1>1, <1>3 DEF Time, Session
  <2> HIDE DEF age, new, q
  <2>2. Wait(new) <= Wait(age) /\ (age \notin {Undated, Delay} => Wait(new) < Wait(age))
    BY <1>1, <2>1, AgeFacts, DelayIsANumber DEF Wait, Older, Ages
  <2>3. QED
    BY <2>1, <2>2
<1>4. ASSUME ~Time, session'[s].open = session[s].open, new = age
      PROVE  /\ Wait(new) <= Wait(age)
             /\ Time /\ age \notin {Undated, Delay} => Wait(new) < Wait(age)
             /\ session'[s].open # session[s].open => ~Ripe(age) /\ new # Undated
  <2> HIDE DEF age, new
  <2>1. QED
    BY <1>2, <1>4
<1>5. CASE ~Time
  <2>1. ~Restart
    BY DEF Restart, Out
  <2>2. CASE UNCHANGED vars
    BY <1>4, <1>5, <2>2 DEF vars
  <2>3. ASSUME NEW t \in Sessions \ {s}, Frame(t)
        PROVE  session'[s] = session[s]
    BY <2>3, FrameIsSound
  <2>4. CASE Frame(s)
    <3>1. ~Logout(s)
      BY DEF Logout, Becomes, AllSound, Out
    <3>2. ~\E p \in Places : Login(s, p)
      BY <1>1 DEF Login, Live, Sound, OutIsBlank
    <3>3. CASE \E m \in Ids : Hit(s, m)
      BY <1>4, <1>5, <3>3, HitKeepsGraves
    <3>4. CASE Bury(s)
      <4>1. x # <<q.open, q.target>>
        BY <1>1, <3>4 DEF Bury, Unburied
      <4>2. session'[s].grave = [q.grave EXCEPT ![<<q.open, q.target>>] = Undated]
        BY <3>4, BuryIsSound DEF Bury
      <4>3. new = age
        BY <1>1, <4>1, <4>2 DEF Session
      <4>4. QED
        BY <1>4, <1>5, <3>4, <4>3, BuryStays
    <3>5. CASE Edge(s) /\ q.place \notin {Wild, q.open}
      <4>1. session'[s].grave = Swept(q.grave)
        BY <3>5, EdgeCases, ReopenedGraves
      <4>2. q.grave \in [Monsters -> Ages]
        BY <1>1 DEF Session
      <4>3. new = IF age = Undated THEN 0 ELSE age
        BY <4>1, <4>2, SweptFacts
      <4>4. ~Ripe(age)
        BY <4>1 DEF Swept
      <4> HIDE DEF age, new, q
      <4>5. Wait(new) <= Wait(age) /\ new # Undated
        BY <1>2, <4>3, AgeFacts, DelayIsANumber DEF Wait
      <4>6. QED
        BY <1>5, <4>4, <4>5
    <3>6. QED
      BY <1>4, <1>5, <2>4, <3>1, <3>2, <3>3, <3>4, <3>5, FramesStay DEF Frame, Stays
  <2>5. QED
    BY <1>4, <1>5, <2>1, <2>2, <2>3, <2>4 DEF Next, Frame
<1>6. QED
  BY <1>3, <1>5

\* The safety half of ComesBack, for every delay and any number of sessions: no handler
\* dates a grave anew or makes it younger, every tick counts, and a ripe grave does not
\* outlive the opening of another scene.
THEOREM GravesKeepRipening == Spec => GravesRipen
<1>1. Init => AllSound /\ NoGraveTwice
  BY InitSound DEF Init, Out, NoGraveTwice, Unburied
<1>2. AllSound /\ NoGraveTwice /\ [Next]_vars => AllSound' /\ NoGraveTwice'
  BY NextSound, NextUnburied
<1>3. AllSound /\ NoGraveTwice /\ [Next]_vars =>
        [\A s \in Sessions, x \in Monsters : Ripens(s, x)]_vars
  BY StepRipens
<1>4. QED
  BY <1>1, <1>2, <1>3, PTL DEF Spec, GravesRipen
=============================================================================
