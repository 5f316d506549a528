-------------------------- MODULE CharacterSkills --------------------------
(***************************************************************************)
(* Who writes a character's class and skill rows: the creation of the      *)
(* character with its retries (CharacterLifecycle.create), the backfill at *)
(* boot, the GM commands, and a skill learned for points                   *)
(* (skill_learn_roundtrip).                                                *)
(*                                                                         *)
(* Row, class and kit of a new character are a transaction each, and so    *)
(* are the points of a learned skill and its row.  A transaction may fail  *)
(* and the process may die between two.  None of the writers holds a       *)
(* lease.                                                                  *)
(*                                                                         *)
(* One client's characters: one request body, hence one fingerprint and    *)
(* one starting gear.  Left out: levels and undeclared skills, which only  *)
(* add reasons to refuse, and a balance that was never written, which      *)
(* migration 016 has done away with.                                       *)
(***************************************************************************)
EXTENDS Naturals, FiniteSets

CONSTANTS
    Handlers,
    Classes,
    Skills,     \* of the curriculum
    Kit,        \* the starting skills of a class
    Gear,       \* the class the starting gear resolves to, or None
    Cost,       \* points of a skill
    LastRow,    \* bound on the characters
    MaxPoints,  \* bound on what a character has
    MaxFails,   \* bound on failures and crashes
    MaxLive,    \* requests served at once: 1 is the accept loop of v141
    None

ASSUME KitsAreSkills == Classes # {} /\ Kit \in [Classes -> (SUBSET Skills) \ {{}}]
ASSUME GearIsAClass == Gear \in Classes \cup {None}
ASSUME CostsArePositive == Cost \in [Skills -> Nat \ {0}]
ASSUME BoundsAreNumbers ==
    LastRow \in Nat /\ MaxPoints \in Nat /\ MaxFails \in Nat /\ MaxLive \in Nat
ASSUME NoneIsNothing == /\ None \notin Classes \cup Skills /\ None \notin 0..MaxPoints
                        /\ \A S \in SUBSET Skills : S # None
ASSUME FewAtATime == IsFiniteSet(Handlers) /\ IsFiniteSet(Skills)

Rows == 1..LastRow

VARIABLES
    row,   \* the characters
    hand,  \* the handlers
    todo,  \* rows the backfill has listed and not tried; requests wait for it
    paid,  \* history: how often a skill was paid for
    lost,  \* history: how often it was paid for and not written
    alone, \* history: no request has begun while another was under way
    fails  \* how many failures and crashes there were

vars == <<row, hand, todo, paid, lost, alone, fails>>

Sources == {"none", "starting_kit", "learned", "gm_grant"}

Character == [status : {"absent", "live", "deleted"}, class : Classes \cup {None},
              points : 0..MaxPoints, source : [Skills -> Sources]]

Absent == [status |-> "absent", class |-> None, points |-> 0,
           source |-> [s \in Skills |-> "none"]]

Answers == {"none", "learned", "refused", "spent_but_not_granted",
            "spent_but_nothing_was_written", "spend_status_unknown"}

\* at: the transaction that is next.  held and before are what a learn has read, None
\* if it could not; spent and wrote (history) what it did.
Handler ==
    [at : {"idle", "class", "asks skills", "asks class", "kit",
           "reads", "lists", "spends", "grants", "rereads"},
     row : Rows \cup {0}, class : Classes \cup {None}, skill : Skills \cup {None},
     held : (SUBSET Skills) \cup {None}, before : 0..MaxPoints \cup {None},
     spent : BOOLEAN, wrote : BOOLEAN, answer : Answers]

Idle == [at |-> "idle", row |-> 0, class |-> None, skill |-> None, held |-> None,
         before |-> 0, spent |-> FALSE, wrote |-> FALSE, answer |-> "none"]

IsLive(r) == row[r].status = "live"
Held(r) == {s \in Skills : row[r].source[s] # "none"}
Busy == {h \in Handlers : hand[h].at # "idle"}

Fails == fails < MaxFails /\ fails' = fails + 1

\* The server is up, and serves no more requests than it can.
Arrives ==
    /\ todo = {}
    /\ Cardinality(Busy) < MaxLive
    /\ alone' = (alone /\ Busy = {})

MayStart(h) == hand[h].at = "idle" /\ Arrives

Goes(h, place) == hand' = [hand EXCEPT ![h].at = place]
Ends(h) == hand' = [hand EXCEPT ![h] = Idle]

-----------------------------------------------------------------------------
(* CharacterLifecycle.create *)

\* create_character: the live row of this fingerprint, or a new one.
CreateRow(h) ==
    /\ MayStart(h)
    /\ IF \E r \in Rows : IsLive(r)
         THEN \E r \in Rows :
                /\ IsLive(r)
                /\ hand' = [hand EXCEPT ![h] = [Idle EXCEPT !.at = "class", !.row = r]]
                /\ UNCHANGED row
         ELSE \E r \in Rows :
                /\ row[r].status = "absent"
                /\ \A q \in 1..(r - 1) : row[q].status # "absent"
                /\ row' = [row EXCEPT ![r] = [Absent EXCEPT !.status = "live"]]
                /\ hand' = [hand EXCEPT ![h] = [Idle EXCEPT !.at = "class", !.row = r]]
    /\ UNCHANGED <<todo, paid, lost, fails>>

SlipIsUnset(r) == IsLive(r)  \* an unconditional write

\* write_typed_attribute_if_unset.
IsUnset(r) == IsLive(r) /\ row[r].class = None

ClassKnown(h, c) == hand' = [hand EXCEPT ![h].at = "kit", ![h].class = c]

WriteClass(h) ==
    LET r == hand[h].row
    IN  /\ hand[h].at = "class"
        /\ \/ /\ Gear # None /\ IsUnset(r)
              /\ row' = [row EXCEPT ![r].class = Gear]
              /\ ClassKnown(h, Gear)
              /\ UNCHANGED fails
           \/ /\ Gear = None \/ ~IsUnset(r)
              /\ Goes(h, "asks skills")
              /\ UNCHANGED <<row, fails>>
           \/ /\ Fails
              /\ Goes(h, "asks skills")
              /\ UNCHANGED row
        /\ UNCHANGED <<todo, paid, lost, alone>>

SlipHasNoSkills(r) == TRUE  \* a retry that always grants the kit of the class

HasNoSkills(r) == Held(r) = {}

\* _class_id_for_a_retried_skill_grant: first list_character_skills ...
AskSkills(h) ==
    LET r == hand[h].row
    IN  /\ hand[h].at = "asks skills"
        /\ \/ /\ IF IsLive(r) /\ HasNoSkills(r) THEN Goes(h, "asks class") ELSE Ends(h)
              /\ UNCHANGED fails
           \/ Fails /\ Ends(h)
        /\ UNCHANGED <<row, todo, paid, lost, alone>>

\* ... then read_typed_attributes.
SlipAskClass(h) ==  \* only a class this call has written earns a kit
    /\ hand[h].at = "asks class"
    /\ Ends(h)
    /\ UNCHANGED <<row, todo, paid, lost, fails, alone>>

AskClass(h) ==
    LET r == hand[h].row
    IN  /\ hand[h].at = "asks class"
        /\ \/ /\ IF IsLive(r) /\ row[r].class # None
                    THEN ClassKnown(h, row[r].class)
                    ELSE Ends(h)
              /\ UNCHANGED fails
           \/ Fails /\ Ends(h)
        /\ UNCHANGED <<row, todo, paid, lost, alone>>

SlipIsGrantable(r) == row[r].status # "absent"  \* deleted_at not looked at

IsGrantable(r) == IsLive(r)

SlipGranted(r, skills, source) ==  \* INSERT OR REPLACE
    row' = [row EXCEPT ![r].source =
              [s \in Skills |-> IF s \in skills THEN source ELSE @[s]]]

\* INSERT OR IGNORE: a skill that is there keeps its row.
Granted(r, skills, source) ==
    row' = [row EXCEPT ![r].source =
              [s \in Skills |-> IF s \in skills \ Held(r) THEN source ELSE @[s]]]

\* grant_starting_skills, which swallows what it is refused.
GrantKit(h) ==
    LET r == hand[h].row
    IN  /\ hand[h].at = "kit"
        /\ \/ IsGrantable(r) /\ Granted(r, Kit[hand[h].class], "starting_kit")
              /\ UNCHANGED fails
           \/ ~IsGrantable(r) /\ UNCHANGED <<row, fails>>
           \/ Fails /\ UNCHANGED row
        /\ Ends(h)
        /\ UNCHANGED <<todo, paid, lost, alone>>

-----------------------------------------------------------------------------
(* The GM, the game, and the end of a character *)

\* gm/job_command.  Its repair of a class that reads back wrong writes the old class
\* again, which is one more Job.
Job(h) ==
    /\ MayStart(h)
    /\ \E r \in Rows, c \in Classes :
         /\ IsLive(r) /\ row[r].class # c
         /\ row' = [row EXCEPT ![r].class = c]
    /\ UNCHANGED <<hand, todo, paid, lost, fails>>

\* gm/skill_all_command.grant_all; the reads around the grant only count.
GrantAll(h) ==
    /\ MayStart(h)
    /\ \E r \in Rows : IsLive(r) /\ Granted(r, Skills, "gm_grant")
    /\ UNCHANGED <<hand, todo, paid, lost, fails>>

\* A quest or a level gives points.
Gain ==
    /\ \E r \in Rows :
         /\ IsLive(r) /\ row[r].points < MaxPoints
         /\ row' = [row EXCEPT ![r].points = @ + 1]
    /\ Arrives
    /\ UNCHANGED <<hand, todo, paid, lost, fails>>

Delete(h) ==
    /\ MayStart(h)
    /\ \E r \in Rows :
         IsLive(r) /\ row' = [row EXCEPT ![r].status = "deleted"]
    /\ UNCHANGED <<hand, todo, paid, lost, fails>>

-----------------------------------------------------------------------------
(* learn_skill_round_trip *)

\* preflight_refusal.  A list that cannot be read is no reason to refuse.
Preflight(h) ==
    /\ MayStart(h)
    /\ \E r \in Rows, s \in Skills :
         /\ IsLive(r)
         /\ s \notin Held(r)
         /\ hand' = [hand EXCEPT ![h] = [Idle EXCEPT !.at = "reads", !.row = r,
                                                     !.skill = s]]
    /\ UNCHANGED <<row, todo, paid, lost, fails>>

PreflightBlind(h) ==
    /\ MayStart(h)
    /\ Fails
    /\ \E r \in Rows, s \in Skills :
         /\ IsLive(r)
         /\ hand' = [hand EXCEPT ![h] = [Idle EXCEPT !.at = "reads", !.row = r,
                                                     !.skill = s]]
    /\ UNCHANGED <<row, todo, paid, lost>>

\* What get_skill_points and list_character_skills say of a character.
Balance(r) == IF IsLive(r) THEN row[r].points ELSE None
List(r) == IF IsLive(r) THEN Held(r) ELSE None

Reads(h, before) == hand' = [hand EXCEPT ![h].at = "lists", ![h].before = before]

\* _balance_or_none ...
LearnReads(h) ==
    /\ hand[h].at = "reads"
    /\ \/ Reads(h, Balance(hand[h].row)) /\ UNCHANGED fails
       \/ Reads(h, None) /\ Fails
    /\ UNCHANGED <<row, todo, paid, lost, alone>>

Lists(h, held) == hand' = [hand EXCEPT ![h].at = "spends", ![h].held = held]

\* ... then _skills_or_none.
LearnLists(h) ==
    /\ hand[h].at = "lists"
    /\ \/ Lists(h, List(hand[h].row)) /\ UNCHANGED fails
       \/ Lists(h, None) /\ Fails
    /\ UNCHANGED <<row, todo, paid, lost, alone>>

SlipCanSpend(r, cost) == IsLive(r)  \* the balance read earlier is believed

\* spend_skill_points compares the balance it takes from in its own transaction.
CanSpend(r, cost) == IsLive(r) /\ row[r].points >= cost

LearnSpends(h) ==
    LET r == hand[h].row
        s == hand[h].skill
    IN  /\ hand[h].at = "spends"
        /\ \/ /\ CanSpend(r, Cost[s])
              /\ row' = [row EXCEPT ![r].points = @ - Cost[s]]
              /\ paid' = [paid EXCEPT ![r][s] = @ + 1]
              /\ hand' = [hand EXCEPT ![h].at = "grants", ![h].spent = TRUE]
              /\ UNCHANGED fails
           \/ /\ ~CanSpend(r, Cost[s])
              /\ Goes(h, "rereads")
              /\ UNCHANGED <<row, paid, fails>>
           \/ /\ Fails
              /\ Goes(h, "rereads")
              /\ UNCHANGED <<row, paid>>
        /\ UNCHANGED <<todo, lost, alone>>

Answered(h, answer) == hand' = [hand EXCEPT ![h].at = "idle", ![h].answer = answer]

SlipGrew(h, after) == TRUE  \* what the grant returns is not compared

\* The belt behind the preflight: did the set grow?
Grew(h, after) == hand[h].held = None \/ Cardinality(after) > Cardinality(hand[h].held)

LearnGrants(h) ==
    LET r     == hand[h].row
        s     == hand[h].skill
        after == Held(r) \cup {s}
        lost1 == [lost EXCEPT ![r][s] = @ + 1]
    IN  /\ hand[h].at = "grants"
        /\ \/ /\ IsGrantable(r)
              /\ Granted(r, {s}, "learned")
              /\ hand' = [hand EXCEPT
                            ![h].at = "idle", ![h].wrote = s \notin Held(r),
                            ![h].answer = IF Grew(h, after) THEN "learned"
                                          ELSE "spent_but_nothing_was_written"]
              /\ lost' = IF s \in Held(r) THEN lost1 ELSE lost
              /\ UNCHANGED fails
           \/ /\ ~IsGrantable(r)
              /\ Goes(h, "rereads")
              /\ lost' = lost1
              /\ UNCHANGED <<row, fails>>
           \/ /\ Fails
              /\ Goes(h, "rereads")
              /\ lost' = lost1
              /\ UNCHANGED row
        /\ UNCHANGED <<todo, paid, alone>>

SlipOutcome(h, after) ==  \* a balance that cannot be read is taken for the old one
    IF None \notin {hand[h].before, after} /\ after < hand[h].before
      THEN "spent_but_not_granted" ELSE "refused"

\* The balance is read again: it, not the exception, tells what happened.
Outcome(h, after) ==
    IF None \in {hand[h].before, after} THEN "spend_status_unknown"
    ELSE IF after < hand[h].before THEN "spent_but_not_granted" ELSE "refused"

LearnRereads(h) ==
    /\ hand[h].at = "rereads"
    /\ \/ Answered(h, Outcome(h, Balance(hand[h].row))) /\ UNCHANGED fails
       \/ Answered(h, Outcome(h, None)) /\ Fails
    /\ UNCHANGED <<row, todo, paid, lost, alone>>

-----------------------------------------------------------------------------
(* Crash, and backfill_missing_class_ids at the next boot *)

Stranded(h) ==
    IF hand[h].at = "grants" THEN {<<hand[h].row, hand[h].skill>>} ELSE {}

Crash ==
    /\ Fails
    /\ hand' = [h \in Handlers |-> Idle]
    /\ todo' = {r \in Rows : IsLive(r) /\ row[r].class = None}
    /\ lost' = [r \in Rows |-> [s \in Skills |->
                  lost[r][s] + Cardinality({h \in Handlers : <<r, s>> \in Stranded(h)})]]
    /\ UNCHANGED <<row, paid, alone>>

\* Class only: the backfill grants no kit.
Backfill(r) ==
    /\ r \in todo
    /\ todo' = todo \ {r}
    /\ \/ /\ row' = IF Gear # None /\ IsUnset(r) THEN [row EXCEPT ![r].class = Gear]
                    ELSE row
          /\ UNCHANGED fails
       \/ Fails /\ UNCHANGED row
    /\ UNCHANGED <<hand, paid, lost, alone>>

Init ==
    /\ row = [r \in Rows |-> Absent]
    /\ hand = [h \in Handlers |-> Idle]
    /\ todo = {}
    /\ paid = [r \in Rows |-> [s \in Skills |-> 0]]
    /\ lost = [r \in Rows |-> [s \in Skills |-> 0]]
    /\ alone = TRUE
    /\ fails = 0

\* What a handler does once it has begun.
Continue(h) ==
    \/ WriteClass(h) \/ AskSkills(h) \/ AskClass(h) \/ GrantKit(h)
    \/ LearnReads(h) \/ LearnLists(h)
    \/ LearnSpends(h) \/ LearnGrants(h) \/ LearnRereads(h)

Next ==
    \/ \E h \in Handlers :
         \/ CreateRow(h) \/ Continue(h)
         \/ Job(h) \/ GrantAll(h) \/ Delete(h)
         \/ Preflight(h) \/ PreflightBlind(h)
    \/ Gain \/ Crash
    \/ \E r \in Rows : Backfill(r)

Spec == Init /\ [][Next]_vars

\* A begun handler is run to its end, boot is run to its end, and the client sends
\* its request to create again and again.
FairSpec ==
    /\ Spec
    /\ \A h \in Handlers : WF_vars(Continue(h)) /\ SF_vars(CreateRow(h))
    /\ \A r \in Rows : WF_vars(Backfill(r))

-----------------------------------------------------------------------------
(* Properties *)

\* Every variable has its type.
TypeOK ==
    /\ row \in [Rows -> Character]
    /\ hand \in [Handlers -> Handler]
    /\ todo \subseteq Rows
    /\ paid \in [Rows -> [Skills -> Nat]]
    /\ lost \in [Rows -> [Skills -> Nat]]
    /\ alone \in BOOLEAN
    /\ fails \in 0..MaxFails

KitOf(r) == {s \in Skills : row[r].source[s] = "starting_kit"}

\* Served one at a time, requests give a character the kit of one class, whatever
\* fails during its creation, however often that is sent again, and whoever changes
\* the class in between.
OneKit == alone => \A r \in Rows : \E c \in Classes : KitOf(r) \subseteq Kit[c]

\* Served one at a time, the answer to a learn says what became of the points and
\* of the skill.
AnswerIsTrue ==
    alone => \A h \in Handlers :
        /\ hand[h].answer = "learned" => hand[h].spent
        /\ hand[h].answer = "learned" /\ hand[h].held # None => hand[h].wrote
        /\ hand[h].answer = "refused" => ~hand[h].spent
        /\ hand[h].answer \in {"spent_but_not_granted",
                               "spent_but_nothing_was_written"}
             => hand[h].spent /\ ~hand[h].wrote

\* Of what was paid for a skill, all but one payment is known to be lost: no learn
\* is paid twice, and no row is learned for nothing.
EveryPaymentHasItsRow ==
    \A r \in Rows, s \in Skills :
        paid[r][s] = lost[r][s]
                       + (IF row[r].source[s] = "learned" THEN 1 ELSE 0)
                       + Cardinality({h \in Handlers : <<r, s>> \in Stranded(h)})

\* Creation and backfill fill in a class; they never put their own in the place of
\* one that somebody else has written since.
ClassIsFilledInOnly ==
    [][\A r \in Rows :
         row[r].class # None /\ row'[r].class # row[r].class
           => UNCHANGED <<hand, todo>>]_vars

\* Nothing is written to a deleted character by a handler that began before.
DeletedIsLeftAlone ==
    [][\A r \in Rows : row[r].status = "deleted" => row'[r] = row[r]]_vars

\* A failed grant is not for ever: with its class known, a character whose client
\* sends the creation again comes to its skills.
RetryHeals ==
    \A r \in Rows :
        IsLive(r) /\ row[r].class # None ~> ~IsLive(r) \/ Held(r) # {}
=============================================================================
