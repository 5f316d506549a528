----------------------- MODULE CharacterSkillsProofs -----------------------
(***************************************************************************)
(* The safety properties of CharacterSkills for any number of handlers,    *)
(* characters and failures.  What a step may do to one character and to    *)
(* one handler is said first; the invariants are proved from that.         *)
(***************************************************************************)
EXTENDS CharacterSkills, FiniteSetTheorems, TLAPS

\* A row that was never written holds nothing.
AbsentIsBlank == \A r \in Rows : row[r].status = "absent" => row[r] = Absent

\* Where a handler stands says what it has in hand.
Fits(here) ==
    /\ here.at # "idle" => here.row \in Rows
    /\ here.at = "kit" => here.class \in Classes
    /\ here.at \in {"reads", "lists", "spends", "grants", "rereads"} => here.skill \in Skills
    /\ here.at \in {"reads", "lists", "spends"} => ~here.spent
    /\ here.at = "grants" => here.spent

HandsFit == \A h \in Handlers : Fits(hand[h])

\* What may become of a character.
Unset(r)   == /\ row[r].status = "absent"
              /\ row'[r] = [Absent EXCEPT !.status = "live"]
Classed(r) == /\ IsLive(r)
              /\ \E c \in Classes : row'[r] = [row[r] EXCEPT !.class = c]
Skilled(r) == /\ IsLive(r)
              /\ \E f \in [Skills -> Sources] :
                   /\ row'[r] = [row[r] EXCEPT !.source = f]
                   /\ \A s \in Held(r) : f[s] = row[r].source[s]
Pointed(r) == /\ IsLive(r)
              /\ \E p \in 0..MaxPoints : row'[r] = [row[r] EXCEPT !.points = p]
Gone(r)    == IsLive(r) /\ row'[r] = [row[r] EXCEPT !.status = "deleted"]

RowStep(r) == row'[r] = row[r] \/ Unset(r) \/ Classed(r) \/ Skilled(r) \/ Pointed(r) \/ Gone(r)

RowsStep == row' \in [Rows -> Character] /\ \A r \in Rows : RowStep(r)

-----------------------------------------------------------------------------
(* One step of one character *)

\* A row that no one writes.
LEMMA RowsStay ==
  ASSUME row \in [Rows -> Character], row' = row
  PROVE  RowsStep
  BY DEF RowsStep, RowStep

\* The blank character.
LEMMA AbsentIsACharacter == Absent \in Character /\ [Absent EXCEPT !.status = "live"] \in Character
  BY BoundsAreNumbers DEF Absent, Character, Sources

\* One row gets another value.
LEMMA OneRow ==
  ASSUME row \in [Rows -> Character], NEW r \in Rows, NEW new \in Character,
         row' = [row EXCEPT ![r] = new], RowStep(r)
  PROVE  RowsStep
  BY DEF RowsStep, RowStep

\* A class is written.
LEMMA ClassRow ==
  ASSUME row \in [Rows -> Character], NEW r \in Rows, NEW c \in Classes, IsLive(r),
         row' = [row EXCEPT ![r].class = c]
  PROVE  RowsStep
<1>1. [row[r] EXCEPT !.class = c] \in Character
  BY DEF Character
<1>2. row'[r] = [row[r] EXCEPT !.class = c] /\ row' = [row EXCEPT ![r] = [row[r] EXCEPT !.class = c]]
  OBVIOUS
<1>3. RowStep(r)
  BY <1>2 DEF RowStep, Classed
<1>4. QED
  BY <1>1, <1>2, <1>3, OneRow

\* Points are given or taken.
LEMMA PointsRow ==
  ASSUME row \in [Rows -> Character], NEW r \in Rows, NEW p \in 0..MaxPoints, IsLive(r),
         row' = [row EXCEPT ![r].points = p]
  PROVE  RowsStep
<1>1. [row[r] EXCEPT !.points = p] \in Character
  BY DEF Character
<1>2. row'[r] = [row[r] EXCEPT !.points = p] /\ row' = [row EXCEPT ![r] = [row[r] EXCEPT !.points = p]]
  OBVIOUS
<1>3. RowStep(r)
  BY <1>2 DEF RowStep, Pointed
<1>4. QED
  BY <1>1, <1>2, <1>3, OneRow

\* Skills are granted.
LEMMA GrantedRow ==
  ASSUME row \in [Rows -> Character], NEW r \in Rows, NEW skills, NEW source \in Sources,
         IsLive(r), Granted(r, skills, source)
  PROVE  /\ RowsStep
         /\ \A q \in Rows \ {r} : row'[q] = row[q]
         /\ row'[r].status = row[r].status /\ row'[r].class = row[r].class
         /\ row'[r].points = row[r].points
         /\ \A s \in Skills : row'[r].source[s] =
                (IF s \in skills \ Held(r) THEN source ELSE row[r].source[s])
<1> DEFINE f == [s \in Skills |-> IF s \in skills \ Held(r) THEN source ELSE row[r].source[s]]
<1>1. row[r] \in Character /\ f \in [Skills -> Sources]
  BY DEF Character
<1>2. row' = [row EXCEPT ![r].source = f]
  BY DEF Granted
<1>3. \A s \in Held(r) : f[s] = row[r].source[s]
  BY DEF Held
<1>4. \A s \in Skills : f[s] = (IF s \in skills \ Held(r) THEN source ELSE row[r].source[s])
  OBVIOUS
<1> HIDE DEF f
<1>5. [row[r] EXCEPT !.source = f] \in Character
  BY <1>1 DEF Character
<1>6. row'[r] = [row[r] EXCEPT !.source = f] /\ row' = [row EXCEPT ![r] = [row[r] EXCEPT !.source = f]]
  BY <1>2
<1>7. RowStep(r)
  BY <1>1, <1>3, <1>6 DEF RowStep, Skilled
<1>8. RowsStep
  BY <1>5, <1>6, <1>7, OneRow
<1>9. QED
  BY <1>1, <1>2, <1>4, <1>8 DEF Character

\* The actions that write no character.
Untouched ==
    \/ \E h \in Handlers :
         \/ AskSkills(h) \/ AskClass(h) \/ Preflight(h) \/ PreflightBlind(h)
         \/ LearnReads(h) \/ LearnLists(h) \/ LearnRereads(h)
    \/ Crash

\* What a step may do to the characters.
LEMMA NextRows ==
  ASSUME TypeOK, HandsFit, [Next]_vars
  PROVE  RowsStep
<1>1. row \in [Rows -> Character]
  BY DEF TypeOK
<1>2. CASE UNCHANGED vars
  BY <1>1, <1>2, RowsStay DEF vars
<1>3. CASE Untouched
  <2>1. row' = row
    BY <1>3 DEF Untouched, AskSkills, AskClass, Preflight, PreflightBlind, LearnReads, LearnLists,
       LearnRereads, Crash
  <2>2. QED
    BY <1>1, <2>1, RowsStay
<1>4. ASSUME NEW h \in Handlers, CreateRow(h) PROVE RowsStep
  <2>1. CASE row' = row
    BY <1>1, <2>1, RowsStay
  <2>2. CASE \E r \in Rows : /\ row[r].status = "absent"
                             /\ row' = [row EXCEPT ![r] = [Absent EXCEPT !.status = "live"]]
    <3>1. PICK r \in Rows : /\ row[r].status = "absent"
                            /\ row' = [row EXCEPT ![r] = [Absent EXCEPT !.status = "live"]]
      BY <2>2
    <3>2. RowStep(r)
      BY <1>1, <3>1 DEF RowStep, Unset
    <3>3. QED
      BY <1>1, <3>1, <3>2, OneRow, AbsentIsACharacter
  <2>3. QED
    BY <1>4, <2>1, <2>2 DEF CreateRow
<1>5. ASSUME NEW h \in Handlers, WriteClass(h) PROVE RowsStep
  <2>1. CASE row' = row
    BY <1>1, <2>1, RowsStay
  <2>2. CASE row' # row
    <3>1. /\ hand[h].row \in Rows /\ Gear \in Classes /\ IsLive(hand[h].row)
          /\ row' = [row EXCEPT ![hand[h].row].class = Gear]
      BY <1>5, <2>2, GearIsAClass DEF WriteClass, HandsFit, Fits, IsUnset
    <3>2. QED
      BY <1>1, <3>1, ClassRow
  <2>3. QED
    BY <2>1, <2>2
<1>6. ASSUME NEW h \in Handlers, GrantKit(h) \/ LearnGrants(h) PROVE RowsStep
  <2>1. CASE row' = row
    BY <1>1, <2>1, RowsStay
  <2>2. CASE row' # row
    <3>1. PICK source \in Sources :
            IsLive(hand[h].row) /\ \E skills : Granted(hand[h].row, skills, source)
      <4>1. "starting_kit" \in Sources /\ "learned" \in Sources
        BY DEF Sources
      <4>2. QED
        BY <1>6, <2>2, <4>1 DEF GrantKit, LearnGrants, IsGrantable
    <3>2. hand[h].row \in Rows
      BY <1>6 DEF GrantKit, LearnGrants, HandsFit, Fits
    <3>3. QED
      BY <1>1, <3>1, <3>2, GrantedRow
  <2>3. QED
    BY <2>1, <2>2
<1>7. ASSUME NEW h \in Handlers, Job(h) PROVE RowsStep
  BY <1>1, <1>7, ClassRow DEF Job
<1>8. ASSUME NEW h \in Handlers, GrantAll(h) PROVE RowsStep
  <2>1. "gm_grant" \in Sources
    BY DEF Sources
  <2>2. QED
    BY <1>1, <1>8, <2>1, GrantedRow DEF GrantAll
<1>9. ASSUME NEW h \in Handlers, Delete(h) PROVE RowsStep
  <2>1. PICK r \in Rows : IsLive(r) /\ row' = [row EXCEPT ![r].status = "deleted"]
    BY <1>9 DEF Delete
  <2>2. [row[r] EXCEPT !.status = "deleted"] \in Character
    BY <1>1 DEF Character
  <2>3. /\ row'[r] = [row[r] EXCEPT !.status = "deleted"]
        /\ row' = [row EXCEPT ![r] = [row[r] EXCEPT !.status = "deleted"]]
    BY <1>1, <2>1
  <2>4. RowStep(r)
    BY <2>1, <2>3 DEF RowStep, Gone
  <2>5. QED
    BY <1>1, <2>2, <2>3, <2>4, OneRow
<1>10. ASSUME Gain PROVE RowsStep
  <2>1. PICK r \in Rows : /\ IsLive(r) /\ row[r].points < MaxPoints
                          /\ row' = [row EXCEPT ![r].points = row[r].points + 1]
    BY <1>1, <1>10 DEF Gain
  <2>2. row[r].points + 1 \in 0..MaxPoints
    BY <1>1, <2>1, BoundsAreNumbers DEF Character
  <2>3. QED
    BY <1>1, <2>1, <2>2, PointsRow
<1>11. ASSUME NEW h \in Handlers, LearnSpends(h) PROVE RowsStep
  <2>1. CASE row' = row
    BY <1>1, <2>1, RowsStay
  <2>2. CASE row' # row
    <3> DEFINE r == hand[h].row
               s == hand[h].skill
    <3>1. r \in Rows /\ s \in Skills
      BY <1>11 DEF LearnSpends, HandsFit, Fits
    <3>2. /\ IsLive(r) /\ row[r].points >= Cost[s]
          /\ row' = [row EXCEPT ![r].points = row[r].points - Cost[s]]
      BY <1>1, <1>11, <2>2, <3>1 DEF LearnSpends, CanSpend
    <3>3. row[r].points \in 0..MaxPoints /\ Cost[s] \in Nat
      BY <1>1, <3>1, CostsArePositive DEF Character
    <3> HIDE DEF r, s
    <3>4. row[r].points - Cost[s] \in 0..MaxPoints
      BY <3>2, <3>3, BoundsAreNumbers
    <3>5. QED
      BY <1>1, <3>1, <3>2, <3>4, PointsRow
  <2>3. QED
    BY <2>1, <2>2
<1>12. ASSUME NEW r \in Rows, Backfill(r) PROVE RowsStep
  <2>1. CASE row' = row
    BY <1>1, <2>1, RowsStay
  <2>2. CASE row' # row
    <3>1. /\ Gear \in Classes /\ IsLive(r) /\ row' = [row EXCEPT ![r].class = Gear]
      BY <1>12, <2>2, GearIsAClass DEF Backfill, IsUnset
    <3>2. QED
      BY <1>1, <3>1, ClassRow
  <2>3. QED
    BY <2>1, <2>2
<1>13. QED
  BY <1>2, <1>3, <1>4, <1>5, <1>6, <1>7, <1>8, <1>9, <1>10, <1>11, <1>12
     DEF Next, Continue, Untouched

\* What is absent stays blank.
LEMMA NextAbsent ==
  ASSUME AbsentIsBlank, row \in [Rows -> Character], RowsStep
  PROVE  AbsentIsBlank'
<1> SUFFICES ASSUME NEW r \in Rows, row'[r].status = "absent" PROVE row'[r] = Absent
  BY DEF AbsentIsBlank
<1>1. row[r] \in Character /\ RowStep(r)
  BY DEF RowsStep
<1>2. ~Unset(r)
  BY AbsentIsACharacter DEF Unset, Absent
<1>3. ~IsLive(r) \/ row'[r] = row[r]
  BY <1>1, <1>2 DEF RowStep, Classed, Skilled, Pointed, Gone, IsLive, Character
<1>4. QED
  BY <1>1, <1>2, <1>3 DEF AbsentIsBlank, RowStep, Classed, Skilled, Pointed, Gone, IsLive

-----------------------------------------------------------------------------
(* One step of one handler *)

\* Only one handler goes on, to a record that fits.
HandStep(h) ==
    \E new \in Handler : Fits(new) /\ hand' = [hand EXCEPT ![h] = new]

\* A handler with nothing to do.
LEMMA IdleFits == Idle \in Handler /\ Fits(Idle)
  BY BoundsAreNumbers DEF Idle, Handler, Answers, Fits

\* What one handler does leaves all of them fit.
LEMMA OneHand ==
  ASSUME hand \in [Handlers -> Handler], HandsFit, NEW h \in Handlers, HandStep(h)
  PROVE  hand' \in [Handlers -> Handler] /\ HandsFit'
  BY DEF HandStep, HandsFit

\* The first step of a creation and of a learn.
LEMMA BeginStep ==
  ASSUME hand \in [Handlers -> Handler], NEW h \in Handlers, NEW r \in Rows,
         \/ hand' = [hand EXCEPT ![h] = [Idle EXCEPT !.at = "class", !.row = r]]
         \/ \E s \in Skills : hand' = [hand EXCEPT ![h] =
               [Idle EXCEPT !.at = "reads", !.row = r, !.skill = s]]
  PROVE  HandStep(h)
<1>1. CASE hand' = [hand EXCEPT ![h] = [Idle EXCEPT !.at = "class", !.row = r]]
  <2> DEFINE new == [Idle EXCEPT !.at = "class", !.row = r]
  <2>1. new \in Handler /\ new.at = "class" /\ new.row = r
    BY IdleFits DEF Handler
  <2> HIDE DEF new
  <2>2. Fits(new)
    BY <2>1 DEF Fits
  <2>3. QED
    BY <1>1, <2>1, <2>2 DEF HandStep, new
<1>2. ASSUME NEW s \in Skills, hand' = [hand EXCEPT ![h] =
               [Idle EXCEPT !.at = "reads", !.row = r, !.skill = s]]
      PROVE  HandStep(h)
  <2> DEFINE new == [Idle EXCEPT !.at = "reads", !.row = r, !.skill = s]
  <2>1. new \in Handler /\ new.at = "reads" /\ new.row = r /\ new.skill = s /\ ~new.spent
    BY IdleFits DEF Handler, Idle
  <2> HIDE DEF new
  <2>2. Fits(new)
    BY <2>1 DEF Fits
  <2>3. QED
    BY <1>2, <2>1, <2>2 DEF HandStep, new
<1>3. QED
  BY <1>1, <1>2

\* A handler goes on to where it needs nothing more, or ends.
LEMMA GoStep ==
  ASSUME hand \in [Handlers -> Handler], HandsFit, NEW h \in Handlers,
         \/ Ends(h)
         \/ Goes(h, "asks skills") /\ hand[h].at = "class"
         \/ Goes(h, "asks class") /\ hand[h].at = "asks skills"
         \/ Goes(h, "rereads") /\ hand[h].at \in {"spends", "grants"}
         \/ \E c \in Classes : ClassKnown(h, c) /\ hand[h].at \in {"class", "asks class"}
  PROVE  HandStep(h)
<1>1. hand[h] \in Handler /\ Fits(hand[h])
  BY DEF HandsFit
<1>2. CASE Ends(h)
  BY <1>2, IdleFits DEF Ends, HandStep
<1>3. ASSUME NEW place \in {"asks skills", "asks class"}, Goes(h, place),
             hand[h].at \in {"class", "asks skills"}
      PROVE  HandStep(h)
  <2> DEFINE new == [hand[h] EXCEPT !.at = place]
  <2>1. new \in Handler /\ new.at = place /\ new.row = hand[h].row
    BY <1>1 DEF Handler
  <2>2. hand' = [hand EXCEPT ![h] = new]
    BY <1>3 DEF Goes
  <2> HIDE DEF new
  <2>3. Fits(new)
    BY <1>1, <1>3, <2>1 DEF Fits
  <2>4. QED
    BY <2>1, <2>2, <2>3 DEF HandStep
<1>4. CASE Goes(h, "rereads") /\ hand[h].at \in {"spends", "grants"}
  <2> DEFINE new == [hand[h] EXCEPT !.at = "rereads"]
  <2>1. /\ new \in Handler /\ new.at = "rereads" /\ new.row = hand[h].row
        /\ new.skill = hand[h].skill
    BY <1>1 DEF Handler
  <2>2. hand' = [hand EXCEPT ![h] = new]
    BY <1>4 DEF Goes
  <2> HIDE DEF new
  <2>3. Fits(new)
    BY <1>1, <1>4, <2>1 DEF Fits
  <2>4. QED
    BY <2>1, <2>2, <2>3 DEF HandStep
<1>5. ASSUME NEW c \in Classes, ClassKnown(h, c), hand[h].at \in {"class", "asks class"}
      PROVE  HandStep(h)
  <2> DEFINE new == [hand[h] EXCEPT !.at = "kit", !.class = c]
  <2>1. new \in Handler /\ new.at = "kit" /\ new.row = hand[h].row /\ new.class = c
    BY <1>1 DEF Handler
  <2>2. hand' = [hand EXCEPT ![h] = new]
    BY <1>5 DEF ClassKnown
  <2> HIDE DEF new
  <2>3. Fits(new)
    BY <1>1, <1>5, <2>1 DEF Fits
  <2>4. QED
    BY <2>1, <2>2, <2>3 DEF HandStep
<1>6. QED
  BY <1>2, <1>3, <1>4, <1>5

\* The steps of a learn, each with what it leaves in the hand.
LEMMA LearnReadsStep ==
  ASSUME TypeOK, HandsFit, NEW h \in Handlers, LearnReads(h)
  PROVE  /\ HandStep(h)
         /\ hand'[h].at = "lists" /\ hand'[h].row = hand[h].row
         /\ hand'[h].skill = hand[h].skill /\ hand'[h].spent = hand[h].spent
         /\ hand'[h].wrote = hand[h].wrote /\ hand'[h].answer = hand[h].answer
         /\ hand'[h].before \in {row[hand[h].row].points, None}
<1>1. hand[h] \in Handler /\ Fits(hand[h]) /\ hand[h].at = "reads"
  BY DEF TypeOK, HandsFit, LearnReads
<1> DEFINE points == row[hand[h].row].points
<1>2. PICK before \in {points, None} : Reads(h, before)
  BY DEF LearnReads, LearnLists, Balance
<1> DEFINE new == [hand[h] EXCEPT !.at = "lists", !.before = before]
<1>3. before \in 0..MaxPoints \cup {None}
  BY <1>1, <1>2 DEF Fits, TypeOK, Character
<1>4. hand' = [hand EXCEPT ![h] = new]
  BY <1>2 DEF Reads
<1> HIDE DEF points
<1>5. /\ new \in Handler /\ new.at = "lists" /\ new.row = hand[h].row
      /\ new.skill = hand[h].skill /\ new.spent = hand[h].spent
      /\ new.before = before /\ new.wrote = hand[h].wrote /\ new.answer = hand[h].answer
  BY <1>1, <1>3 DEF Handler
<1> HIDE DEF new
<1>6. Fits(new)
  BY <1>1, <1>5 DEF Fits
<1>7. QED
  BY <1>2, <1>4, <1>5, <1>6 DEF HandStep, points, TypeOK

\* And what it reads of the skills.
LEMMA LearnListsStep ==
  ASSUME TypeOK, HandsFit, NEW h \in Handlers, LearnLists(h)
  PROVE  /\ HandStep(h)
         /\ hand'[h].at = "spends" /\ hand'[h].row = hand[h].row
         /\ hand'[h].skill = hand[h].skill /\ hand'[h].spent = hand[h].spent
         /\ hand'[h].wrote = hand[h].wrote /\ hand'[h].answer = hand[h].answer
         /\ hand'[h].held \in {Held(hand[h].row), None}
         /\ hand'[h].before = hand[h].before
<1>1. hand[h] \in Handler /\ Fits(hand[h]) /\ hand[h].at = "lists"
  BY DEF TypeOK, HandsFit, LearnLists
<1>2. PICK held \in {Held(hand[h].row), None} : Lists(h, held)
  BY DEF LearnLists, List
<1> DEFINE new == [hand[h] EXCEPT !.at = "spends", !.held = held]
<1>3. held \in (SUBSET Skills) \cup {None}
  BY <1>2 DEF Held
<1>4. hand' = [hand EXCEPT ![h] = new]
  BY <1>2 DEF Lists
<1>5. /\ new \in Handler /\ new.at = "spends" /\ new.row = hand[h].row
      /\ new.skill = hand[h].skill /\ new.spent = hand[h].spent /\ new.held = held
      /\ new.before = hand[h].before /\ new.wrote = hand[h].wrote
      /\ new.answer = hand[h].answer
  BY <1>1, <1>3 DEF Handler
<1> HIDE DEF new
<1>6. Fits(new)
  BY <1>1, <1>5 DEF Fits
<1>7. QED
  BY <1>2, <1>4, <1>5, <1>6 DEF HandStep, TypeOK

\* The points are taken: the hand says so.
LEMMA LearnSpendsStep ==
  ASSUME TypeOK, HandsFit, NEW h \in Handlers, LearnSpends(h)
  PROVE  /\ HandStep(h)
         /\ hand'[h].row = hand[h].row /\ hand'[h].skill = hand[h].skill
         /\ hand'[h].held = hand[h].held /\ hand'[h].before = hand[h].before
         /\ hand'[h].wrote = hand[h].wrote /\ hand'[h].answer = hand[h].answer
         /\ \/ hand'[h].at = "grants" /\ hand'[h].spent
            \/ hand'[h].at = "rereads" /\ ~hand'[h].spent
<1>1. hand[h] \in Handler /\ Fits(hand[h]) /\ hand[h].at = "spends"
  BY DEF TypeOK, HandsFit, LearnSpends
<1>2. CASE hand' = [hand EXCEPT ![h].at = "grants", ![h].spent = TRUE]
  <2> DEFINE new == [hand[h] EXCEPT !.at = "grants", !.spent = TRUE]
  <2>1. /\ new \in Handler /\ new.at = "grants" /\ new.row = hand[h].row
        /\ new.skill = hand[h].skill /\ new.spent /\ new.held = hand[h].held
        /\ new.before = hand[h].before /\ new.wrote = hand[h].wrote
        /\ new.answer = hand[h].answer
    BY <1>1 DEF Handler
  <2>2. hand' = [hand EXCEPT ![h] = new]
    BY <1>2
  <2> HIDE DEF new
  <2>3. Fits(new)
    BY <1>1, <2>1 DEF Fits
  <2>4. QED
    BY <2>1, <2>2, <2>3 DEF HandStep, TypeOK
<1>3. CASE Goes(h, "rereads")
  <2> DEFINE new == [hand[h] EXCEPT !.at = "rereads"]
  <2>1. /\ new \in Handler /\ new.at = "rereads" /\ new.row = hand[h].row
        /\ new.skill = hand[h].skill /\ new.spent = hand[h].spent
        /\ new.held = hand[h].held /\ new.before = hand[h].before
        /\ new.wrote = hand[h].wrote /\ new.answer = hand[h].answer
    BY <1>1 DEF Handler
  <2>2. hand' = [hand EXCEPT ![h] = new]
    BY <1>3 DEF Goes
  <2> HIDE DEF new
  <2>3. Fits(new) /\ ~new.spent
    BY <1>1, <2>1 DEF Fits
  <2>4. QED
    BY <2>1, <2>2, <2>3 DEF HandStep, TypeOK
<1>4. QED
  BY <1>2, <1>3 DEF LearnSpends

\* The grant answers, or the balance is to be read again.
LEMMA LearnGrantsStep ==
  ASSUME TypeOK, HandsFit, NEW h \in Handlers, LearnGrants(h)
  PROVE  /\ HandStep(h)
         /\ hand'[h].spent
         /\ \/ /\ hand'[h].at = "idle"
               /\ IsLive(hand[h].row) /\ Granted(hand[h].row, {hand[h].skill}, "learned")
               /\ hand'[h].held = hand[h].held
               /\ hand'[h].wrote = (hand[h].skill \notin Held(hand[h].row))
               /\ hand'[h].answer =
                    IF Grew(h, Held(hand[h].row) \cup {hand[h].skill}) THEN "learned"
                    ELSE "spent_but_nothing_was_written"
            \/ /\ hand'[h].at = "rereads" /\ row' = row
               /\ hand'[h].row = hand[h].row /\ hand'[h].before = hand[h].before
               /\ hand'[h].skill = hand[h].skill /\ hand'[h].wrote = hand[h].wrote
               /\ hand'[h].answer = hand[h].answer
<1>1. hand[h] \in Handler /\ Fits(hand[h]) /\ hand[h].at = "grants"
  BY DEF TypeOK, HandsFit, LearnGrants
<1> DEFINE r      == hand[h].row
           s      == hand[h].skill
           wrote  == s \notin Held(r)
           answer == IF Grew(h, Held(r) \cup {s}) THEN "learned"
                     ELSE "spent_but_nothing_was_written"
<1>2. CASE /\ IsLive(r) /\ Granted(r, {s}, "learned")
           /\ hand' = [hand EXCEPT ![h].at = "idle", ![h].wrote = wrote, ![h].answer = answer]
  <2> DEFINE new == [hand[h] EXCEPT !.at = "idle", !.wrote = wrote, !.answer = answer]
  <2>1. wrote \in BOOLEAN /\ answer \in Answers
    BY DEF Answers
  <2>2. hand' = [hand EXCEPT ![h] = new]
    BY <1>2
  <2> HIDE DEF wrote, answer
  <2>3. /\ new \in Handler /\ new.at = "idle" /\ new.wrote = wrote /\ new.answer = answer
        /\ new.spent = hand[h].spent /\ new.held = hand[h].held
    BY <1>1, <2>1 DEF Handler
  <2> HIDE DEF new
  <2>4. Fits(new) /\ new.spent
    BY <1>1, <2>3 DEF Fits
  <2>5. HandStep(h) /\ hand'[h] = new
    BY <2>2, <2>3, <2>4 DEF HandStep, TypeOK
  <2>6. QED
    BY <1>2, <2>3, <2>4, <2>5 DEF wrote, answer
<1>3. CASE Goes(h, "rereads") /\ row' = row
  <2> DEFINE new == [hand[h] EXCEPT !.at = "rereads"]
  <2>1. /\ new \in Handler /\ new.at = "rereads" /\ new.row = hand[h].row
        /\ new.skill = hand[h].skill /\ new.spent = hand[h].spent
        /\ new.before = hand[h].before /\ new.wrote = hand[h].wrote
        /\ new.answer = hand[h].answer
    BY <1>1 DEF Handler
  <2>2. hand' = [hand EXCEPT ![h] = new]
    BY <1>3 DEF Goes
  <2> HIDE DEF new
  <2>3. Fits(new) /\ new.spent
    BY <1>1, <2>1 DEF Fits
  <2>4. QED
    BY <1>3, <2>1, <2>2, <2>3 DEF HandStep, TypeOK
<1>4. QED
  BY <1>2, <1>3 DEF LearnGrants, IsGrantable

\* The last answer of a learn.
LEMMA LearnRereadsStep ==
  ASSUME TypeOK, HandsFit, NEW h \in Handlers, LearnRereads(h)
  PROVE  /\ HandStep(h)
         /\ hand'[h].at = "idle"
         /\ hand'[h].spent = hand[h].spent /\ hand'[h].wrote = hand[h].wrote
         /\ \/ hand'[h].answer = "spend_status_unknown"
            \/ /\ hand[h].before # None
               /\ hand'[h].answer = IF row[hand[h].row].points < hand[h].before
                                    THEN "spent_but_not_granted" ELSE "refused"
<1>1. hand[h] \in Handler /\ Fits(hand[h])
  BY DEF TypeOK, HandsFit
<1>2. PICK answer : /\ hand' = [hand EXCEPT ![h].at = "idle", ![h].answer = answer]
                    /\ \/ answer = "spend_status_unknown"
                       \/ /\ hand[h].before # None
                          /\ answer = IF row[hand[h].row].points < hand[h].before
                                      THEN "spent_but_not_granted" ELSE "refused"
  BY DEF LearnRereads, Answered, Outcome, Balance
<1> DEFINE new == [hand[h] EXCEPT !.at = "idle", !.answer = answer]
<1>3. answer \in Answers
  BY <1>2 DEF Answers
<1>4. /\ new \in Handler /\ new.at = "idle" /\ new.spent = hand[h].spent
      /\ new.wrote = hand[h].wrote /\ new.answer = answer
  BY <1>1, <1>3 DEF Handler
<1>5. hand' = [hand EXCEPT ![h] = new]
  BY <1>2
<1> HIDE DEF new
<1>6. Fits(new)
  BY <1>4 DEF Fits
<1>7. QED
  BY <1>2, <1>4, <1>5, <1>6 DEF HandStep, TypeOK

\* What a handler does once it has begun changes no other hand.
LEMMA ContinueStep ==
  ASSUME TypeOK, HandsFit, NEW h \in Handlers, Continue(h)
  PROVE  HandStep(h)
<1>1. hand \in [Handlers -> Handler]
  BY DEF TypeOK
<1>2. CASE WriteClass(h)
  BY <1>1, <1>2, GoStep, GearIsAClass DEF WriteClass, IsUnset
<1>3. CASE AskSkills(h)
  BY <1>1, <1>3, GoStep DEF AskSkills
<1>4. CASE AskClass(h)
  <2>1. hand[h].row \in Rows
    BY <1>4 DEF AskClass, HandsFit, Fits
  <2>2. row[hand[h].row].class \in Classes \cup {None}
    BY <2>1 DEF TypeOK, Character
  <2>3. QED
    BY <1>1, <1>4, <2>2, GoStep DEF AskClass
<1>5. CASE GrantKit(h)
  BY <1>1, <1>5, GoStep DEF GrantKit
<1>6. QED
  BY <1>2, <1>3, <1>4, <1>5, LearnReadsStep, LearnListsStep, LearnSpendsStep, LearnGrantsStep,
     LearnRereadsStep DEF Continue

\* Every step keeps the hands.
LEMMA NextHands ==
  ASSUME TypeOK, HandsFit, [Next]_vars
  PROVE  hand' \in [Handlers -> Handler] /\ HandsFit'
<1>1. hand \in [Handlers -> Handler]
  BY DEF TypeOK
<1>2. CASE hand' = hand
  BY <1>1, <1>2 DEF HandsFit
<1>3. ASSUME NEW h \in Handlers, CreateRow(h) \/ Preflight(h) \/ PreflightBlind(h)
      PROVE  hand' \in [Handlers -> Handler] /\ HandsFit'
  BY <1>1, <1>3, BeginStep, OneHand DEF CreateRow, Preflight, PreflightBlind
<1>4. ASSUME NEW h \in Handlers, Continue(h)
      PROVE  hand' \in [Handlers -> Handler] /\ HandsFit'
  BY <1>1, <1>4, ContinueStep, OneHand
<1>5. CASE Crash
  BY <1>5, IdleFits DEF Crash, HandsFit
<1>6. QED
  BY <1>2, <1>3, <1>4, <1>5 DEF Next, vars, Job, GrantAll, Delete, Gain, Backfill

-----------------------------------------------------------------------------
(* Types *)

\* Handlers that have taken the points of a skill and not yet granted it.
Waiting(r, s) == {h \in Handlers : <<r, s>> \in Stranded(h)}

\* There are finitely many of them.
LEMMA WaitingIsFinite ==
  ASSUME NEW r \in Rows, NEW s \in Skills
  PROVE  IsFiniteSet(Waiting(r, s)) /\ Cardinality(Waiting(r, s)) \in Nat
<1>1. Waiting(r, s) \subseteq Handlers
  BY DEF Waiting
<1>2. QED
  BY <1>1, FewAtATime, FS_Subset, FS_CardinalityType

\* What is paid, and what is lost.
LEMMA CountSteps ==
  ASSUME TypeOK, HandsFit, [Next]_vars
  PROVE  /\ \/ paid' = paid
            \/ \E h \in Handlers :
                 LearnSpends(h) /\ paid' = [paid EXCEPT ![hand[h].row][hand[h].skill] = @ + 1]
         /\ \/ lost' = lost
            \/ \E h \in Handlers :
                 LearnGrants(h) /\ lost' = [lost EXCEPT ![hand[h].row][hand[h].skill] = @ + 1]
            \/ /\ Crash
               /\ lost' = [r \in Rows |-> [s \in Skills |->
                             lost[r][s] + Cardinality(Waiting(r, s))]]
<1>1. CASE \E h \in Handlers : LearnSpends(h)
  BY <1>1 DEF LearnSpends
<1>2. CASE \E h \in Handlers : LearnGrants(h)
  BY <1>2 DEF LearnGrants
<1>3. CASE Crash
  BY <1>3 DEF Crash, Waiting
<1>4. CASE /\ ~\E h \in Handlers : LearnSpends(h) \/ LearnGrants(h)
           /\ ~Crash
  BY <1>4 DEF Next, vars, Continue, CreateRow, Job, GrantAll, Delete, Preflight,
     PreflightBlind, Gain, Backfill, WriteClass, AskSkills, AskClass, GrantKit, LearnReads, LearnLists,
     LearnRereads
<1>5. QED
  BY <1>1, <1>2, <1>3, <1>4

\* Every step keeps the types of the counts.
LEMMA CountsAreTyped ==
  ASSUME TypeOK, HandsFit, [Next]_vars
  PROVE  paid' \in [Rows -> [Skills -> Nat]] /\ lost' \in [Rows -> [Skills -> Nat]]
<1>1. paid \in [Rows -> [Skills -> Nat]] /\ lost \in [Rows -> [Skills -> Nat]]
  BY DEF TypeOK
<1>2. ASSUME NEW count \in [Rows -> [Skills -> Nat]], NEW r \in Rows, NEW s \in Skills
      PROVE  [count EXCEPT ![r][s] = @ + 1] \in [Rows -> [Skills -> Nat]]
  OBVIOUS
<1>3. \A h \in Handlers : LearnSpends(h) \/ LearnGrants(h) =>
        hand[h].row \in Rows /\ hand[h].skill \in Skills
  BY DEF LearnSpends, LearnGrants, HandsFit, Fits
<1>4. paid' \in [Rows -> [Skills -> Nat]]
  <2>1. CASE paid' = paid
    BY <1>1, <2>1
  <2>2. ASSUME NEW h \in Handlers, LearnSpends(h),
               paid' = [paid EXCEPT ![hand[h].row][hand[h].skill] = @ + 1]
        PROVE  paid' \in [Rows -> [Skills -> Nat]]
    <3>1. hand[h].row \in Rows /\ hand[h].skill \in Skills
      BY <1>3, <2>2
    <3>2. QED
      BY <1>1, <1>2, <2>2, <3>1
  <2>3. QED
    BY <2>1, <2>2, CountSteps
<1>5. [r \in Rows |-> [s \in Skills |-> lost[r][s] + Cardinality(Waiting(r, s))]]
        \in [Rows -> [Skills -> Nat]]
  BY <1>1, WaitingIsFinite
<1>6. lost' \in [Rows -> [Skills -> Nat]]
  <2>1. CASE lost' = lost
    BY <1>1, <2>1
  <2>2. ASSUME NEW h \in Handlers, LearnGrants(h),
               lost' = [lost EXCEPT ![hand[h].row][hand[h].skill] = @ + 1]
        PROVE  lost' \in [Rows -> [Skills -> Nat]]
    <3>1. hand[h].row \in Rows /\ hand[h].skill \in Skills
      BY <1>3, <2>2
    <3>2. QED
      BY <1>1, <1>2, <2>2, <3>1
  <2>3. QED
    BY <1>5, <2>1, <2>2, CountSteps
<1>7. QED
  BY <1>4, <1>6

Blanks == TypeOK /\ HandsFit /\ AbsentIsBlank

\* Initially all is blank.
LEMMA InitBlanks == Init => Blanks
<1> SUFFICES ASSUME Init PROVE Blanks
  OBVIOUS
<1>1. Absent \in Character /\ Idle \in Handler /\ Fits(Idle)
  BY AbsentIsACharacter, IdleFits
<1>2. QED
  BY <1>1, BoundsAreNumbers DEF Init, Blanks, TypeOK, HandsFit, AbsentIsBlank

\* Every step keeps the types.
LEMMA NextBlanks == Blanks /\ [Next]_vars => Blanks'
<1> SUFFICES ASSUME Blanks, [Next]_vars PROVE Blanks'
  OBVIOUS
<1> USE DEF Blanks
<1>1. RowsStep /\ hand' \in [Handlers -> Handler] /\ HandsFit'
  BY NextRows, NextHands
<1>2. row' \in [Rows -> Character] /\ AbsentIsBlank'
  BY <1>1, NextAbsent DEF RowsStep, TypeOK
<1>3. todo' \subseteq Rows
  BY DEF TypeOK, Next, vars, Continue, CreateRow, Job, GrantAll, Delete, Preflight,
     PreflightBlind, Gain, Backfill, WriteClass, AskSkills, AskClass, GrantKit, LearnReads, LearnLists,
     LearnSpends, LearnGrants, LearnRereads, Crash
<1>4. alone' \in BOOLEAN
  BY DEF TypeOK, Next, vars, Continue, CreateRow, Job, GrantAll, Delete, Preflight,
     PreflightBlind, Gain, Backfill, WriteClass, AskSkills, AskClass, GrantKit, LearnReads, LearnLists,
     LearnSpends, LearnGrants, LearnRereads, Crash, MayStart, Arrives
<1>5. fails' \in 0..MaxFails
  <2>1. fails' = fails \/ Fails
    BY DEF Next, vars, Continue, CreateRow, Job, GrantAll, Delete, Preflight,
       PreflightBlind, Gain, Backfill, WriteClass, AskSkills, AskClass, GrantKit, LearnReads, LearnLists,
       LearnSpends, LearnGrants, LearnRereads, Crash
  <2>2. QED
    BY <2>1, BoundsAreNumbers DEF Fails, TypeOK
<1>6. QED
  BY <1>1, <1>2, <1>3, <1>4, <1>5, CountsAreTyped DEF TypeOK

\* The variables keep their types, hands hold what their place needs, and a row nobody
\* has written is blank.
THEOREM BlanksStay == Spec => []Blanks
  BY InitBlanks, NextBlanks, PTL DEF Spec

\* The variables keep their types.
THEOREM TypeCorrect == Spec => []TypeOK
<1>1. Blanks => TypeOK
  BY DEF Blanks
<1>2. QED
  BY <1>1, BlanksStay, PTL

-----------------------------------------------------------------------------
(* Action properties *)

\* Whatever a handler has begun, it writes nothing to a character deleted since.
THEOREM TheDeletedRest == Spec => DeletedIsLeftAlone
<1>1. Blanks /\ [Next]_vars =>
        [\A r \in Rows : row[r].status = "deleted" => row'[r] = row[r]]_vars
  <2> SUFFICES ASSUME Blanks, [Next]_vars, NEW r \in Rows, row[r].status = "deleted"
               PROVE  row'[r] = row[r]
    OBVIOUS
  <2>1. RowStep(r)
    BY NextRows DEF Blanks, RowsStep
  <2>2. QED
    BY <2>1 DEF RowStep, Unset, Classed, Skilled, Pointed, Gone, IsLive
<1>2. QED
  BY <1>1, BlanksStay, PTL DEF Spec, DeletedIsLeftAlone

\* Creation, its retries and the backfill fill in a class; only the GM replaces one.
THEOREM ClassesAreFilledIn == Spec => ClassIsFilledInOnly
<1>1. Blanks /\ [Next]_vars =>
        [\A r \in Rows :
           row[r].class # None /\ row'[r].class # row[r].class
             => UNCHANGED <<hand, todo>>]_vars
  <2> SUFFICES ASSUME Blanks, [Next]_vars, NEW r \in Rows, row[r].class # None,
                      row'[r].class # row[r].class
               PROVE  UNCHANGED <<hand, todo>>
    OBVIOUS
  <2> USE DEF Blanks
  <2>1. row \in [Rows -> Character] /\ row' # row
    BY DEF TypeOK
  <2>2. ASSUME NEW h \in Handlers, CreateRow(h) PROVE FALSE
    <3>1. row[r].status = "absent"
      BY <2>1, <2>2 DEF CreateRow
    <3>2. QED
      BY <3>1 DEF AbsentIsBlank, Absent
  <2>3. ASSUME NEW q \in Rows, IsUnset(q), row' = [row EXCEPT ![q].class = Gear] PROVE FALSE
    BY <2>1, <2>3 DEF IsUnset
  <2>4. ASSUME NEW h \in Handlers, Continue(h) PROVE FALSE
    <3>1. CASE GrantKit(h) \/ LearnGrants(h)
      <4>1. PICK source \in Sources :
              IsLive(hand[h].row) /\ \E skills : Granted(hand[h].row, skills, source)
        <5>1. "starting_kit" \in Sources /\ "learned" \in Sources
          BY DEF Sources
        <5>2. QED
          BY <2>1, <3>1, <5>1 DEF GrantKit, LearnGrants, IsGrantable
      <4>2. hand[h].row \in Rows
        BY <3>1 DEF GrantKit, LearnGrants, HandsFit, Fits
      <4>3. QED
        BY <2>1, <4>1, <4>2, GrantedRow
    <3>2. CASE LearnSpends(h)
      BY <2>1, <3>2 DEF LearnSpends, Character
    <3>3. CASE WriteClass(h)
      <4>1. hand[h].row \in Rows
        BY <3>3 DEF WriteClass, HandsFit, Fits
      <4>2. QED
        BY <2>1, <2>3, <3>3, <4>1 DEF WriteClass
    <3>4. QED
      BY <2>1, <2>4, <3>1, <3>2, <3>3 DEF Continue, AskSkills, AskClass, LearnReads, LearnLists,
         LearnRereads
  <2>5. ASSUME NEW q \in Rows, Backfill(q) PROVE FALSE
    BY <2>1, <2>3, <2>5 DEF Backfill
  <2>6. QED
    BY <2>1, <2>2, <2>4, <2>5 DEF Next, vars, Job, GrantAll, Delete, Preflight,
       PreflightBlind, Gain, Crash
<1>2. QED
  BY <1>1, BlanksStay, PTL DEF Spec, ClassIsFilledInOnly

-----------------------------------------------------------------------------
(* What was paid for *)

IsOf(r, s, k) == row[r].source[s] = k

IsLearned(r, s) == IsOf(r, s, "learned")

\* Only a learn writes a learned skill, and only a creation one of the kit.
LEMMA OnlyTheirOwn ==
  ASSUME Blanks, [Next]_vars, NEW k \in {"learned", "starting_kit"},
         k = "learned" => ~\E h \in Handlers : LearnGrants(h),
         k = "starting_kit" => ~\E h \in Handlers : GrantKit(h),
         NEW r \in Rows, NEW s \in Skills
  PROVE  IsOf(r, s, k)' <=> IsOf(r, s, k)
<1> USE DEF Blanks
<1>1. row \in [Rows -> Character]
  BY DEF TypeOK
<1>2. CASE row' = row
  BY <1>2 DEF IsOf
<1>3. ASSUME NEW h \in Handlers, CreateRow(h) PROVE IsOf(r, s, k)' <=> IsOf(r, s, k)
  <2>1. PICK q \in Rows : \/ row' = row
                          \/ /\ row[q].status = "absent"
                             /\ row' = [row EXCEPT ![q] = [Absent EXCEPT !.status = "live"]]
    BY <1>3 DEF CreateRow
  <2>2. row[q].status = "absent" => row[q] = Absent
    BY DEF AbsentIsBlank
  <2>3. [Absent EXCEPT !.status = "live"].source = Absent.source
    BY DEF Absent
  <2>4. QED
    BY <1>1, <2>1, <2>2, <2>3 DEF IsOf
<1>4. ASSUME NEW q \in Rows, NEW skills, NEW source \in Sources, source # k,
             IsLive(q), Granted(q, skills, source)
      PROVE  IsOf(r, s, k)' <=> IsOf(r, s, k)
  <2>1. \A x \in Rows \ {q} : row'[x] = row[x]
    BY <1>1, <1>4, GrantedRow
  <2>2. \A x \in Skills : row'[q].source[x] =
                (IF x \in skills \ Held(q) THEN source ELSE row[q].source[x])
    BY <1>1, <1>4, GrantedRow
  <2>3. s \notin Held(q) => row[q].source[s] = "none"
    BY DEF Held
  <2>4. QED
    BY <1>4, <2>1, <2>2, <2>3 DEF IsOf
<1>5. "starting_kit" \in Sources /\ "gm_grant" \in Sources
  BY DEF Sources
<1>6. ASSUME NEW h \in Handlers, GrantKit(h) PROVE IsOf(r, s, k)' <=> IsOf(r, s, k)
  <2>1. hand[h].row \in Rows
    BY <1>6 DEF GrantKit, HandsFit, Fits
  <2>2. /\ k = "learned"
        /\ \/ row' = row
           \/ IsLive(hand[h].row) /\ \E skills : Granted(hand[h].row, skills, "starting_kit")
    BY <1>6 DEF GrantKit, IsGrantable
  <2>3. QED
    BY <1>2, <1>4, <1>5, <2>1, <2>2
<1>7. ASSUME NEW h \in Handlers, GrantAll(h) PROVE IsOf(r, s, k)' <=> IsOf(r, s, k)
  BY <1>4, <1>5, <1>7 DEF GrantAll
<1>8. ASSUME NEW q \in Rows,
             \/ \E c : row' = [row EXCEPT ![q].class = c]
             \/ \E p : row' = [row EXCEPT ![q].points = p]
             \/ row' = [row EXCEPT ![q].status = "deleted"]
      PROVE  IsOf(r, s, k)' <=> IsOf(r, s, k)
  <2>1. ASSUME NEW c, row' = [row EXCEPT ![q].class = c]
        PROVE  IsOf(r, s, k)' <=> IsOf(r, s, k)
    BY <1>1, <2>1 DEF IsOf, Character
  <2>2. ASSUME NEW p, row' = [row EXCEPT ![q].points = p]
        PROVE  IsOf(r, s, k)' <=> IsOf(r, s, k)
    BY <1>1, <2>2 DEF IsOf, Character
  <2>3. CASE row' = [row EXCEPT ![q].status = "deleted"]
    BY <1>1, <2>3 DEF IsOf, Character
  <2>4. QED
    BY <1>8, <2>1, <2>2, <2>3
<1>9. ASSUME NEW h \in Handlers, WriteClass(h) \/ LearnSpends(h)
      PROVE  IsOf(r, s, k)' <=> IsOf(r, s, k)
  <2>1. hand[h].row \in Rows
    BY <1>9 DEF WriteClass, LearnSpends, HandsFit, Fits
  <2>2. \/ row' = row
        \/ \E c : row' = [row EXCEPT ![hand[h].row].class = c]
        \/ \E p : row' = [row EXCEPT ![hand[h].row].points = p]
    <3>1. CASE WriteClass(h)
      BY <3>1 DEF WriteClass
    <3>2. CASE LearnSpends(h)
      BY <1>1, <2>1, <3>2 DEF LearnSpends
    <3>3. QED
      BY <1>9, <3>1, <3>2
  <2>3. QED
    BY <1>2, <1>8, <2>1, <2>2
<1>10. ASSUME NEW h \in Handlers, Job(h) \/ Delete(h)
       PROVE  IsOf(r, s, k)' <=> IsOf(r, s, k)
  BY <1>8, <1>10 DEF Job, Delete
<1>11. ASSUME Gain PROVE IsOf(r, s, k)' <=> IsOf(r, s, k)
  <2>1. \E q \in Rows : \E p : row' = [row EXCEPT ![q].points = p]
    BY <1>1, <1>11 DEF Gain
  <2>2. QED
    BY <1>8, <2>1
<1>12. ASSUME NEW q \in Rows, Backfill(q) PROVE IsOf(r, s, k)' <=> IsOf(r, s, k)
  BY <1>2, <1>8, <1>12 DEF Backfill
<1>13. ASSUME NEW h \in Handlers, LearnGrants(h)
       PROVE  IsOf(r, s, k)' <=> IsOf(r, s, k)
  <2>1. hand[h].row \in Rows /\ k = "starting_kit" /\ "learned" \in Sources
    BY <1>13 DEF LearnGrants, HandsFit, Fits, Sources
  <2>2. \/ row' = row
        \/ IsLive(hand[h].row) /\ \E skills : Granted(hand[h].row, skills, "learned")
    BY <1>13 DEF LearnGrants, IsGrantable
  <2>3. QED
    BY <1>2, <1>4, <2>1, <2>2
<1>14. QED
  BY <1>2, <1>3, <1>6, <1>7, <1>9, <1>10, <1>11, <1>12, <1>13 DEF Next, vars, Continue,
     Preflight, PreflightBlind, AskSkills, AskClass, LearnReads, LearnLists, LearnRereads, Crash

\* Only a learn writes a learned skill.
LEMMA OnlyLearnsAreLearned ==
  ASSUME Blanks, [Next]_vars, ~\E h \in Handlers : LearnGrants(h),
         NEW r \in Rows, NEW s \in Skills
  PROVE  IsLearned(r, s)' <=> IsLearned(r, s)
  BY OnlyTheirOwn DEF IsLearned

\* A handler waits only from the payment to the grant.
LEMMA WaitingSteps ==
  ASSUME Blanks, [Next]_vars, ~Crash, NEW r \in Rows, NEW s \in Skills,
         ~\E h \in Handlers : LearnSpends(h) \/ LearnGrants(h)
  PROVE  Waiting(r, s)' = Waiting(r, s)
<1> USE DEF Blanks
<1>1. CASE hand' = hand
  BY <1>1 DEF Waiting, Stranded
<1>2. ASSUME NEW h \in Handlers, NEW new, hand' = [hand EXCEPT ![h] = new],
             hand[h].at # "grants", new.at # "grants"
      PROVE  Waiting(r, s)' = Waiting(r, s)
  <2>1. hand'[h] = new /\ \A g \in Handlers \ {h} : hand'[g] = hand[g]
    BY <1>2 DEF TypeOK
  <2>2. \A g \in Handlers : Stranded(g)' = Stranded(g)
    BY <1>2, <2>1 DEF Stranded
  <2>3. QED
    BY <2>2 DEF Waiting
<1>3. ASSUME NEW h \in Handlers, CreateRow(h) \/ Preflight(h) \/ PreflightBlind(h)
      PROVE  Waiting(r, s)' = Waiting(r, s)
  <2>1. hand[h].at = "idle"
    BY <1>3 DEF CreateRow, Preflight, PreflightBlind, MayStart
  <2>2. \E new : hand' = [hand EXCEPT ![h] = new] /\ new.at \in {"class", "reads"}
    <3>1. \A q : [Idle EXCEPT !.at = "class", !.row = q].at = "class"
      BY DEF Idle
    <3>2. \A q, t : [Idle EXCEPT !.at = "reads", !.row = q, !.skill = t].at = "reads"
      BY DEF Idle
    <3>3. QED
      <4>1. CASE CreateRow(h)
        BY <3>1, <4>1 DEF CreateRow
      <4>2. CASE Preflight(h) \/ PreflightBlind(h)
        BY <3>2, <4>2 DEF Preflight, PreflightBlind
      <4>3. QED
        BY <1>3, <4>1, <4>2
  <2>3. QED
    BY <1>2, <2>1, <2>2
<1>4. ASSUME NEW h \in Handlers,
             WriteClass(h) \/ AskSkills(h) \/ AskClass(h) \/ GrantKit(h)
      PROVE  Waiting(r, s)' = Waiting(r, s)
  <2>1. hand[h].at \in {"class", "asks skills", "asks class", "kit"} /\ hand[h] \in Handler
    BY <1>4 DEF WriteClass, AskSkills, AskClass, GrantKit, TypeOK
  <2>2. \/ \E place \in {"asks skills", "asks class"} : Goes(h, place)
        \/ Ends(h)
        \/ \E c : ClassKnown(h, c)
    BY <1>4 DEF WriteClass, AskSkills, AskClass, GrantKit
  <2>3. \E new : hand' = [hand EXCEPT ![h] = new] /\ new.at # "grants"
    <3>1. ASSUME NEW place \in {"asks skills", "asks class"}, Goes(h, place)
          PROVE  \E new : hand' = [hand EXCEPT ![h] = new] /\ new.at # "grants"
      <4>1. hand' = [hand EXCEPT ![h] = [hand[h] EXCEPT !.at = place]]
        BY <3>1 DEF Goes
      <4>2. [hand[h] EXCEPT !.at = place].at = place
        BY <2>1 DEF Handler
      <4>3. QED
        BY <4>1, <4>2
    <3>2. ASSUME Ends(h)
          PROVE  \E new : hand' = [hand EXCEPT ![h] = new] /\ new.at # "grants"
      <4>1. hand' = [hand EXCEPT ![h] = Idle] /\ Idle.at = "idle"
        BY <3>2 DEF Ends, Idle
      <4>2. QED
        BY <4>1
    <3>3. ASSUME NEW c, ClassKnown(h, c)
          PROVE  \E new : hand' = [hand EXCEPT ![h] = new] /\ new.at # "grants"
      <4>1. hand' = [hand EXCEPT ![h] = [hand[h] EXCEPT !.at = "kit", !.class = c]]
        BY <3>3 DEF ClassKnown
      <4>2. [hand[h] EXCEPT !.at = "kit", !.class = c].at = "kit"
        BY <2>1 DEF Handler
      <4>3. QED
        BY <4>1, <4>2
    <3>4. QED
      BY <2>2, <3>1, <3>2, <3>3
  <2>4. QED
    BY <1>2, <2>1, <2>3
<1>5. ASSUME NEW h \in Handlers, LearnReads(h) \/ LearnLists(h) \/ LearnRereads(h)
      PROVE  Waiting(r, s)' = Waiting(r, s)
  <2>1. hand[h].at \in {"reads", "lists", "rereads"}
    BY <1>5 DEF LearnReads, LearnLists, LearnRereads
  <2>2. HandStep(h) /\ hand'[h].at # "grants"
    BY <1>5, LearnReadsStep, LearnListsStep, LearnRereadsStep
  <2>3. PICK new : hand' = [hand EXCEPT ![h] = new] /\ new = hand'[h]
    BY <2>2 DEF HandStep, TypeOK
  <2>4. QED
    BY <1>2, <2>1, <2>2, <2>3
<1>6. QED
  BY <1>1, <1>3, <1>4, <1>5 DEF Next, vars, Continue, Job, GrantAll, Delete, Gain, Backfill

\* The points are taken: one more handler waits.
LEMMA SpendingWaits ==
  ASSUME Blanks, NEW h \in Handlers, LearnSpends(h), NEW r \in Rows, NEW s \in Skills
  PROVE  IF r = hand[h].row /\ s = hand[h].skill /\ paid' # paid
           THEN /\ h \notin Waiting(r, s) /\ Waiting(r, s)' = Waiting(r, s) \cup {h}
                /\ paid'[r][s] = paid[r][s] + 1
           ELSE /\ Waiting(r, s)' = Waiting(r, s)
                /\ paid'[r][s] = paid[r][s]
<1> USE DEF Blanks
<1>1. hand \in [Handlers -> Handler] /\ paid \in [Rows -> [Skills -> Nat]]
  BY DEF TypeOK
<1>2. hand[h].at = "spends" /\ hand[h].row \in Rows /\ hand[h].skill \in Skills
  BY DEF LearnSpends, HandsFit, Fits
<1>3. /\ HandStep(h) /\ hand'[h].row = hand[h].row /\ hand'[h].skill = hand[h].skill
  BY LearnSpendsStep
<1>4. \A g \in Handlers \ {h} : hand'[g] = hand[g]
  BY <1>1, <1>3 DEF HandStep
<1>5. h \notin Waiting(r, s)
  BY <1>2 DEF Waiting, Stranded
<1>6. \A g \in Handlers \ {h} : g \in Waiting(r, s)' <=> g \in Waiting(r, s)
  BY <1>4 DEF Waiting, Stranded
<1>7. CASE /\ paid' = [paid EXCEPT ![hand[h].row][hand[h].skill] = @ + 1]
           /\ hand' = [hand EXCEPT ![h].at = "grants", ![h].spent = TRUE]
  <2>1. hand'[h].at = "grants"
    <3>1. hand' = [hand EXCEPT ![h] = [hand[h] EXCEPT !.at = "grants", !.spent = TRUE]]
      BY <1>7
    <3>2. hand[h] \in Handler
      BY <1>1
    <3>3. [hand[h] EXCEPT !.at = "grants", !.spent = TRUE].at = "grants"
      BY <3>2 DEF Handler
    <3>4. QED
      BY <1>1, <3>1, <3>3
  <2>2. h \in Waiting(r, s)' <=> (r = hand[h].row /\ s = hand[h].skill)
    BY <1>3, <2>1 DEF Waiting, Stranded
  <2>3. Waiting(r, s)' \subseteq Handlers /\ Waiting(r, s) \subseteq Handlers
    BY DEF Waiting
  <2>4. paid'[hand[h].row][hand[h].skill] = paid[hand[h].row][hand[h].skill] + 1
    BY <1>1, <1>2, <1>7
  <2>5. paid' # paid
    BY <1>1, <1>2, <2>4
  <2>6. (r = hand[h].row /\ s = hand[h].skill) \/ paid'[r][s] = paid[r][s]
    BY <1>1, <1>2, <1>7
  <2>7. CASE r = hand[h].row /\ s = hand[h].skill
    BY <1>5, <1>6, <2>2, <2>3, <2>4, <2>5, <2>7
  <2>8. CASE ~(r = hand[h].row /\ s = hand[h].skill)
    BY <1>5, <1>6, <2>2, <2>3, <2>6, <2>8
  <2>9. QED
    BY <2>7, <2>8
<1>8. CASE paid' = paid /\ Goes(h, "rereads")
  <2>1. hand'[h].at = "rereads"
    <3>1. hand' = [hand EXCEPT ![h] = [hand[h] EXCEPT !.at = "rereads"]]
      BY <1>8 DEF Goes
    <3>2. [hand[h] EXCEPT !.at = "rereads"].at = "rereads"
      BY <1>1 DEF Handler
    <3>3. QED
      BY <1>1, <3>1, <3>2
  <2>2. h \notin Waiting(r, s)'
    BY <2>1 DEF Waiting, Stranded
  <2>3. QED
    BY <1>5, <1>6, <1>8, <2>2 DEF Waiting
<1>9. QED
  BY <1>7, <1>8 DEF LearnSpends

\* The grant is over: nobody waits, and the row is written or the payment lost.
LEMMA GrantingAccounts ==
  ASSUME Blanks, NEW h \in Handlers, LearnGrants(h), NEW r \in Rows, NEW s \in Skills
  PROVE  IF r = hand[h].row /\ s = hand[h].skill
           THEN /\ h \in Waiting(r, s) /\ Waiting(r, s)' = Waiting(r, s) \ {h}
                /\ \/ /\ ~IsLearned(r, s) /\ IsLearned(r, s)' /\ lost' = lost
                   \/ /\ IsLearned(r, s)' <=> IsLearned(r, s)
                      /\ lost'[r][s] = lost[r][s] + 1
           ELSE /\ Waiting(r, s)' = Waiting(r, s)
                /\ IsLearned(r, s)' <=> IsLearned(r, s)
                /\ lost'[r][s] = lost[r][s]
<1> USE DEF Blanks
<1>1. /\ hand \in [Handlers -> Handler] /\ lost \in [Rows -> [Skills -> Nat]]
      /\ row \in [Rows -> Character]
  BY DEF TypeOK
<1> DEFINE q == hand[h].row
           t == hand[h].skill
<1>2. hand[h].at = "grants" /\ q \in Rows /\ t \in Skills
  BY DEF LearnGrants, HandsFit, Fits
<1>3. HandStep(h) /\ hand'[h].at # "grants"
  BY LearnGrantsStep
<1>4. \A g \in Handlers \ {h} : hand'[g] = hand[g]
  BY <1>1, <1>3 DEF HandStep
<1>5. h \in Waiting(r, s) <=> (r = q /\ s = t)
  BY <1>2 DEF Waiting, Stranded
<1>6. Waiting(r, s)' = Waiting(r, s) \ {h}
  BY <1>3, <1>4 DEF Waiting, Stranded
<1>7. /\ lost' = lost \/ lost' = [lost EXCEPT ![q][t] = @ + 1]
      /\ \/ row' = row /\ lost' = [lost EXCEPT ![q][t] = @ + 1]
         \/ /\ IsLive(q) /\ Granted(q, {t}, "learned")
            /\ lost' = IF t \in Held(q) THEN [lost EXCEPT ![q][t] = @ + 1] ELSE lost
  BY DEF LearnGrants, IsGrantable
<1>8. lost' = [lost EXCEPT ![q][t] = @ + 1] =>
        /\ lost'[q][t] = lost[q][t] + 1
        /\ ~(r = q /\ s = t) => lost'[r][s] = lost[r][s]
  BY <1>1, <1>2
<1>9. CASE row' = row /\ lost' = [lost EXCEPT ![q][t] = @ + 1]
  <2>1. IsLearned(r, s)' <=> IsLearned(r, s)
    BY <1>9 DEF IsLearned, IsOf
  <2> HIDE DEF q, t
  <2>2. QED
    BY <1>5, <1>6, <1>8, <1>9, <2>1 DEF q, t
<1>10. CASE /\ IsLive(q) /\ Granted(q, {t}, "learned")
            /\ lost' = IF t \in Held(q) THEN [lost EXCEPT ![q][t] = @ + 1] ELSE lost
  <2>1. "learned" \in Sources
    BY DEF Sources
  <2>2. /\ \A x \in Rows \ {q} : row'[x] = row[x]
        /\ \A x \in Skills : row'[q].source[x] =
                (IF x \in {t} \ Held(q) THEN "learned" ELSE row[q].source[x])
    <3> HIDE DEF q, t
    <3>1. QED
      BY <1>1, <1>2, <1>10, <2>1, GrantedRow
  <2>3. \A x \in Skills : x \in Held(q) <=> row[q].source[x] # "none"
    BY DEF Held
  <2>4. ~(r = q /\ s = t) => (IsLearned(r, s)' <=> IsLearned(r, s))
    <3> HIDE DEF q, t
    <3>1. QED
      BY <1>1, <2>2 DEF IsLearned, IsOf
  <2>5. r = q /\ s = t /\ t \in Held(q) => (IsLearned(r, s)' <=> IsLearned(r, s))
    <3> HIDE DEF q, t
    <3>1. QED
      BY <1>1, <1>2, <2>2 DEF IsLearned, IsOf
  <2>6. r = q /\ s = t /\ t \notin Held(q) => ~IsLearned(r, s) /\ IsLearned(r, s)'
    <3> HIDE DEF q, t
    <3>1. QED
      BY <1>1, <1>2, <2>2, <2>3 DEF IsLearned, IsOf
  <2> HIDE DEF q, t
  <2>7. QED
    BY <1>5, <1>6, <1>8, <1>10, <2>4, <2>5, <2>6 DEF q, t
<1>11. QED
  BY <1>7, <1>9, <1>10

Owed(r, s) == IF IsLearned(r, s) THEN 1 ELSE 0

Accounted(r, s) == paid[r][s] = lost[r][s] + Owed(r, s) + Cardinality(Waiting(r, s))

\* Every step keeps the account of one skill of one character.
LEMMA NextAccounted ==
  ASSUME Blanks, [Next]_vars, NEW r \in Rows, NEW s \in Skills, Accounted(r, s)
  PROVE  Accounted(r, s)'
<1> USE DEF Blanks
<1>1. /\ IsFiniteSet(Waiting(r, s)) /\ Cardinality(Waiting(r, s)) \in Nat
      /\ lost[r][s] \in Nat /\ paid[r][s] \in Nat /\ Owed(r, s) \in {0, 1}
  BY WaitingIsFinite DEF TypeOK, Owed
<1>2. ASSUME UNCHANGED <<paid[r][s], lost[r][s], Waiting(r, s)>>,
             IsLearned(r, s)' <=> IsLearned(r, s)
      PROVE  Accounted(r, s)'
  BY <1>2 DEF Accounted, Owed
<1>3. ASSUME NEW h \in Handlers, LearnSpends(h) PROVE Accounted(r, s)'
  <2>1. lost' = lost /\ ~LearnGrants(h)
    BY <1>3 DEF LearnSpends, LearnGrants
  <2>2. IsLearned(r, s)' <=> IsLearned(r, s)
    <3>1. CASE \E g \in Handlers : LearnGrants(g)
      <4>1. PICK g \in Handlers : LearnGrants(g)
        BY <3>1
      <4>2. hand'[h].at \in {"grants", "rereads"} /\ hand[h].at = "spends"
        BY <1>3, LearnSpendsStep DEF LearnSpends
      <4>3. g # h /\ hand'[h] = hand[h]
        BY <2>1, <4>1, LearnGrantsStep DEF HandStep, TypeOK
      <4>4. QED
        BY <4>2, <4>3
    <3>2. CASE ~\E g \in Handlers : LearnGrants(g)
      BY <3>2, OnlyLearnsAreLearned
    <3>3. QED
      BY <3>1, <3>2
  <2>3. CASE r = hand[h].row /\ s = hand[h].skill /\ paid' # paid
    <3>1. /\ h \notin Waiting(r, s) /\ Waiting(r, s)' = Waiting(r, s) \cup {h}
          /\ paid'[r][s] = paid[r][s] + 1
      BY <1>3, <2>3, SpendingWaits
    <3>2. Cardinality(Waiting(r, s))' = Cardinality(Waiting(r, s)) + 1
      BY <1>1, <3>1, FS_AddElement
    <3>3. Owed(r, s)' = Owed(r, s)
      BY <2>2 DEF Owed
    <3>4. QED
      BY <1>1, <2>1, <3>1, <3>2, <3>3 DEF Accounted
  <2>4. CASE ~(r = hand[h].row /\ s = hand[h].skill /\ paid' # paid)
    BY <1>2, <1>3, <2>1, <2>2, <2>4, SpendingWaits
  <2>5. QED
    BY <2>3, <2>4
<1>4. ASSUME NEW h \in Handlers, LearnGrants(h) PROVE Accounted(r, s)'
  <2>1. paid' = paid
    BY <1>4 DEF LearnGrants
  <2>2. CASE r = hand[h].row /\ s = hand[h].skill
    <3>1. /\ h \in Waiting(r, s) /\ Waiting(r, s)' = Waiting(r, s) \ {h}
          /\ \/ /\ ~IsLearned(r, s) /\ IsLearned(r, s)' /\ lost' = lost
             \/ /\ IsLearned(r, s)' <=> IsLearned(r, s)
                /\ lost'[r][s] = lost[r][s] + 1
      BY <1>4, <2>2, GrantingAccounts
    <3>2. Cardinality(Waiting(r, s))' = Cardinality(Waiting(r, s)) - 1
      BY <1>1, <3>1, FS_RemoveElement
    <3>3. lost'[r][s] + Owed(r, s)' = lost[r][s] + Owed(r, s) + 1
      BY <1>1, <3>1 DEF Owed
    <3>4. lost'[r][s] \in Nat /\ Owed(r, s)' \in {0, 1}
      BY <1>1, <3>1 DEF Owed
    <3>5. QED
      BY <1>1, <2>1, <3>2, <3>3, <3>4 DEF Accounted
  <2>3. CASE ~(r = hand[h].row /\ s = hand[h].skill)
    BY <1>2, <1>4, <2>1, <2>3, GrantingAccounts
  <2>4. QED
    BY <2>2, <2>3
<1>5. CASE Crash
  <2>1. /\ paid' = paid /\ row' = row /\ \A h \in Handlers : hand'[h].at = "idle"
        /\ lost'[r][s] = lost[r][s] + Cardinality(Waiting(r, s))
    BY <1>5 DEF Crash, Idle, Waiting
  <2>2. Waiting(r, s)' = {}
    BY <2>1 DEF Waiting, Stranded
  <2>3. Cardinality(Waiting(r, s))' = 0
    BY <2>2, FS_EmptySet
  <2>4. Owed(r, s)' = Owed(r, s)
    BY <2>1 DEF Owed, IsLearned, IsOf
  <2>5. QED
    BY <1>1, <2>1, <2>3, <2>4 DEF Accounted
<1>6. CASE ~Crash /\ ~\E h \in Handlers : LearnSpends(h) \/ LearnGrants(h)
  BY <1>2, <1>6, OnlyLearnsAreLearned, WaitingSteps, CountSteps
<1>7. QED
  BY <1>3, <1>4, <1>5, <1>6

AllAccounted == \A r \in Rows, s \in Skills : Accounted(r, s)

\* Initially nothing is paid, and nobody waits.
LEMMA InitAccounted == Init => AllAccounted
<1> SUFFICES ASSUME Init, NEW r \in Rows, NEW s \in Skills PROVE Accounted(r, s)
  BY DEF AllAccounted
<1>1. Waiting(r, s) = {}
  BY DEF Init, Idle, Waiting, Stranded
<1>2. Cardinality(Waiting(r, s)) = 0
  BY <1>1, FS_EmptySet
<1>3. ~IsLearned(r, s)
  BY DEF Init, Absent, IsLearned, IsOf
<1>4. QED
  BY <1>2, <1>3 DEF Init, Accounted, Owed

\* Of what was paid for a skill all but one payment is known to be lost, with any number
\* of learns under way at once and whatever fails: the row is paid for, and once.
THEOREM PaymentsAreAccounted == Spec => []EveryPaymentHasItsRow
<1>1. AllAccounted => EveryPaymentHasItsRow
  BY DEF AllAccounted, Accounted, Owed, IsLearned, IsOf, Waiting, EveryPaymentHasItsRow
<1>2. Blanks /\ AllAccounted /\ [Next]_vars => AllAccounted'
  BY NextAccounted DEF AllAccounted
<1>3. QED
  BY <1>1, <1>2, InitAccounted, BlanksStay, PTL DEF Spec

-----------------------------------------------------------------------------
(* Requests served one at a time *)

\* What a request alone on the server can rely on from one transaction to the next.
SoloHand(h) ==
    LET here == hand[h]
        r    == here.row
    IN  /\ here.at = "kit" => row[r].class # None
        /\ here.at \in {"asks class", "kit"} => KitOf(r) = {}
        /\ here.at \in {"reads", "lists", "spends", "grants", "rereads"} =>
               IsLive(r) /\ ~here.wrote
        /\ here.at \in {"spends", "grants"} => here.held \in {Held(r), None}
        /\ here.before # None =>
             /\ here.at \in {"lists", "spends"} => row[r].points = here.before
             /\ here.at = "grants" => row[r].points < here.before
             /\ here.at = "rereads" => (here.spent <=> row[r].points < here.before)
        /\ here.at # "idle" => here.answer = "none"

\* What the answer of a handler says.
TrueAnswer(here) ==
    /\ here.answer = "learned" => here.spent
    /\ here.answer = "learned" /\ here.held # None => here.wrote
    /\ here.answer = "refused" => ~here.spent
    /\ here.answer \in {"spent_but_not_granted", "spent_but_nothing_was_written"}
         => here.spent /\ ~here.wrote

KitsAreOne ==
    \A r \in Rows : /\ row[r].class = None => KitOf(r) = {}
                    /\ \E c \in Classes : KitOf(r) \subseteq Kit[c]

Solo ==
    alone => /\ \A g, h \in Busy : g = h
             /\ \A h \in Handlers : SoloHand(h) /\ TrueAnswer(hand[h])
             /\ KitsAreOne

NoneWaits == todo # {} => Busy = {}

\* Nobody is served until the backfill is done.
LEMMA NextNoneWaits ==
  ASSUME Blanks, NoneWaits, [Next]_vars
  PROVE  NoneWaits'
<1>1. CASE hand' = hand /\ (todo' = todo \/ todo' \subseteq todo)
  BY <1>1 DEF NoneWaits, Busy
<1>2. CASE todo = {} /\ todo' = todo
  BY <1>2 DEF NoneWaits
<1>3. CASE Crash
  BY <1>3 DEF Crash, NoneWaits, Busy, Idle
<1>4. ASSUME NEW h \in Handlers, Continue(h)
      PROVE  todo = {} /\ todo' = todo
  BY <1>4 DEF Continue, WriteClass, AskSkills, AskClass, GrantKit, LearnReads, LearnLists, LearnSpends,
     LearnGrants, LearnRereads, NoneWaits, Busy
<1>5. QED
  BY <1>1, <1>2, <1>3, <1>4 DEF Next, vars, CreateRow, Job, GrantAll, Delete, Preflight,
     PreflightBlind, Gain, Backfill, MayStart, Arrives

\* Alone, a request is disturbed by nobody: a step is one of its own, or nobody is
\* served when it is taken.
LEMMA SoloSteps ==
  ASSUME Blanks, NoneWaits, Solo, [Next]_vars, alone'
  PROVE  /\ alone
         /\ \/ UNCHANGED vars
            \/ Crash
            \/ \E h \in Handlers : Busy = {h} /\ Continue(h)
            \/ /\ Busy = {}
               /\ hand' = hand /\ \A h \in Handlers : ~Continue(h)
            \/ /\ Busy = {}
               /\ \E h \in Handlers : CreateRow(h) \/ Preflight(h) \/ PreflightBlind(h)
<1>1. alone
  BY DEF Blanks, TypeOK, Next, vars, Continue, CreateRow, Job, GrantAll, Delete, Preflight,
     PreflightBlind, Gain, Backfill, WriteClass, AskSkills, AskClass, GrantKit, LearnReads, LearnLists,
     LearnSpends, LearnGrants, LearnRereads, Crash, MayStart, Arrives
<1>2. ASSUME NEW h \in Handlers, Continue(h) PROVE Busy = {h}
  <2>1. h \in Busy
    BY <1>2 DEF Continue, WriteClass, AskSkills, AskClass, GrantKit, LearnReads, LearnLists,
       LearnSpends, LearnGrants, LearnRereads, Busy
  <2>2. QED
    BY <1>1, <2>1 DEF Solo
<1>3. ASSUME NEW h \in Handlers, CreateRow(h) \/ Preflight(h) \/ PreflightBlind(h)
      PROVE  Busy = {}
  BY <1>3 DEF CreateRow, Preflight, PreflightBlind, MayStart, Arrives
<1>4. ASSUME \/ \E h \in Handlers : Job(h) \/ GrantAll(h) \/ Delete(h)
             \/ Gain \/ \E r \in Rows : Backfill(r)
      PROVE  Busy = {} /\ hand' = hand
  BY <1>4 DEF Job, GrantAll, Delete, Gain, Backfill, MayStart, Arrives, NoneWaits
<1>5. QED
  BY <1>1, <1>2, <1>3, <1>4 DEF Next

\* What was found of the kit stays, but for a creation that grants it.
LEMMA KitSteps ==
  ASSUME Blanks, [Next]_vars, NEW r \in Rows
  PROVE  \/ KitOf(r)' = KitOf(r)
         \/ \E h \in Handlers : GrantKit(h) /\ row' # row
<1>1. CASE row' = row
  BY <1>1 DEF KitOf
<1>2. CASE ~\E h \in Handlers : GrantKit(h)
  <2>1. \A s \in Skills : IsOf(r, s, "starting_kit")' <=> IsOf(r, s, "starting_kit")
    BY <1>2, OnlyTheirOwn
  <2>2. QED
    BY <2>1 DEF IsOf, KitOf
<1>3. QED
  BY <1>1, <1>2

\* The kit is granted: all of it, and of one class.
LEMMA GrantKitStep ==
  ASSUME Blanks, NEW h \in Handlers, GrantKit(h), row' # row
  PROVE  /\ \A q \in Rows \ {hand[h].row} : KitOf(q)' = KitOf(q)
         /\ \A q \in Rows : row'[q].class = row[q].class
         /\ KitOf(hand[h].row) = {} =>
              \E c \in Classes : \A q \in Rows : q = hand[h].row => KitOf(q)' \subseteq Kit[c]
<1> USE DEF Blanks
<1> DEFINE r == hand[h].row
           c == hand[h].class
<1>1. /\ r \in Rows /\ c \in Classes /\ "starting_kit" \in Sources
      /\ row \in [Rows -> Character]
  BY DEF GrantKit, HandsFit, Fits, Sources, TypeOK
<1>2. IsLive(r) /\ Granted(r, Kit[c], "starting_kit")
  BY DEF GrantKit, IsGrantable
<1> HIDE DEF r, c
<1>3. /\ \A q \in Rows \ {r} : row'[q] = row[q]
      /\ row'[r].class = row[r].class
      /\ \A s \in Skills : row'[r].source[s] =
             (IF s \in Kit[c] \ Held(r) THEN "starting_kit" ELSE row[r].source[s])
  BY <1>1, <1>2, GrantedRow
<1>4. \A q \in Rows \ {r} : KitOf(q)' = KitOf(q)
  BY <1>3 DEF KitOf
<1>5. \A q \in Rows : q = r /\ KitOf(q) = {} => KitOf(q)' \subseteq Kit[c]
  BY <1>3 DEF KitOf
<1>6. QED
  BY <1>1, <1>3, <1>4, <1>5 DEF r

\* Alone, the kit is granted once, of one class, and never taken away from a class.
LEMMA NextKits ==
  ASSUME Blanks, NoneWaits, Solo, [Next]_vars, alone'
  PROVE  KitsAreOne'
<1> USE DEF Blanks
<1>1. alone /\ KitsAreOne /\ RowsStep /\ row \in [Rows -> Character]
  BY SoloSteps, NextRows DEF Solo, TypeOK
<1>2. ASSUME NEW r \in Rows, row'[r].class = None PROVE row[r].class = None
  <2>1. RowStep(r) /\ row[r] \in Character
    BY <1>1 DEF RowsStep
  <2>2. Unset(r) => row[r].class = None
    BY DEF Unset, AbsentIsBlank, Absent
  <2>3. ~Classed(r)
    BY <1>2, <2>1, NoneIsNothing DEF Classed, Character
  <2>4. QED
    BY <1>2, <2>1, <2>2, <2>3 DEF RowStep, Skilled, Pointed, Gone, Character
<1>3. CASE \A r \in Rows : KitOf(r)' = KitOf(r)
  BY <1>1, <1>2, <1>3 DEF KitsAreOne
<1>4. ASSUME NEW h \in Handlers, GrantKit(h), row' # row PROVE KitsAreOne'
  <2>1. SoloHand(h) /\ hand[h].at = "kit" /\ hand[h].row \in Rows
    BY <1>1, <1>4 DEF Solo, GrantKit, HandsFit, Fits
  <2>2. row[hand[h].row].class # None /\ KitOf(hand[h].row) = {}
    BY <2>1 DEF SoloHand
  <2>3. /\ \A q \in Rows \ {hand[h].row} : KitOf(q)' = KitOf(q)
        /\ \A q \in Rows : row'[q].class = row[q].class
        /\ \E c \in Classes : \A q \in Rows : q = hand[h].row => KitOf(q)' \subseteq Kit[c]
    BY <1>4, <2>2, GrantKitStep
  <2>4. SUFFICES ASSUME NEW r \in Rows
                 PROVE  /\ row'[r].class = None => KitOf(r)' = {}
                        /\ \E c \in Classes : KitOf(r)' \subseteq Kit[c]
    BY DEF KitsAreOne
  <2>5. CASE r = hand[h].row
    BY <2>2, <2>3, <2>5
  <2>6. CASE r # hand[h].row
    BY <1>1, <2>3, <2>6 DEF KitsAreOne
  <2>7. QED
    BY <2>5, <2>6
<1>5. QED
  BY <1>3, <1>4, KitSteps

\* Alone, a creation knows at each of its transactions that the kit is not there yet.
LEMMA CreationIsSolo ==
  ASSUME Blanks, NoneWaits, Solo, [Next]_vars, alone', NEW h \in Handlers, Busy = {h},
         WriteClass(h) \/ AskSkills(h) \/ AskClass(h) \/ GrantKit(h)
  PROVE  SoloHand(h)' /\ TrueAnswer(hand'[h])
<1> USE DEF Blanks
<1>1. /\ alone /\ SoloHand(h) /\ KitsAreOne /\ hand[h] \in Handler
      /\ hand \in [Handlers -> Handler] /\ row \in [Rows -> Character]
  BY SoloSteps DEF Solo, TypeOK
<1> DEFINE r == hand[h].row
<1>2. r \in Rows /\ hand[h].at # "idle" /\ hand[h].answer = "none"
  BY <1>1 DEF WriteClass, AskSkills, AskClass, GrantKit, HandsFit, Fits, SoloHand
<1>3. CASE Ends(h)
  <2>1. hand'[h] = Idle
    BY <1>1, <1>3 DEF Ends
  <2>2. QED
    BY <2>1 DEF Idle, SoloHand, TrueAnswer
<1>4. CASE Goes(h, "asks skills")
  <2>1. hand'[h].at = "asks skills" /\ hand'[h].answer = "none"
    BY <1>1, <1>2, <1>4 DEF Goes, Handler
  <2>2. QED
    BY <2>1 DEF SoloHand, TrueAnswer
<1>5. CASE AskSkills(h) /\ Goes(h, "asks class")
  <2>1. hand'[h].at = "asks class" /\ hand'[h].answer = "none" /\ hand'[h].row = r
    BY <1>1, <1>2, <1>5 DEF Goes, Handler
  <2>2. Held(r) = {} /\ row' = row
    <3>1. ~Ends(h)
      <4>1. Ends(h) => hand'[h] = Idle
        BY <1>1 DEF Ends
      <4>2. Idle.at = "idle"
        BY DEF Idle
      <4>3. QED
        BY <2>1, <4>1, <4>2
    <3>2. QED
      BY <1>5, <3>1 DEF AskSkills, HasNoSkills
  <2>3. KitOf(r) = {}
    BY <2>2 DEF Held, KitOf
  <2>4. KitOf(hand[h].row)' = {}
    BY <2>1, <2>2, <2>3 DEF KitOf
  <2>5. QED
    BY <2>1, <2>4 DEF SoloHand, TrueAnswer
<1>6. ASSUME NEW c, ClassKnown(h, c), row'[r].class # None, KitOf(r) = {}, ~GrantKit(h)
      PROVE  SoloHand(h)' /\ TrueAnswer(hand'[h])
  <2>1. hand'[h].at = "kit" /\ hand'[h].answer = "none" /\ hand'[h].row = r
    <3>1. hand' = [hand EXCEPT ![h] = [hand[h] EXCEPT !.at = "kit", !.class = c]]
      BY <1>6 DEF ClassKnown
    <3>2. hand'[h] = [hand[h] EXCEPT !.at = "kit", !.class = c]
      BY <1>1, <3>1
    <3>3. QED
      BY <1>1, <1>2, <3>2 DEF Handler
  <2>2. \A g \in Handlers : ~GrantKit(g)
    <3>1. \A g \in Handlers : GrantKit(g) => hand[g].at = "kit"
      BY DEF GrantKit
    <3>2. \A g \in Handlers : hand[g].at = "kit" => g = h
      BY DEF Busy
    <3>3. QED
      BY <1>6, <3>1, <3>2
  <2>3. \A q \in Rows : KitOf(q)' = KitOf(q)
    BY <2>2, KitSteps
  <2>4. KitOf(hand[h].row)' = {}
    BY <1>2, <1>6, <2>1, <2>3
  <2>5. QED
    BY <1>6, <2>1, <2>4 DEF SoloHand, TrueAnswer
<1>7. CASE WriteClass(h) /\ ClassKnown(h, Gear) /\ ~Goes(h, "asks skills")
  <2>1. IsUnset(r) /\ row' = [row EXCEPT ![r].class = Gear] /\ Gear # None
    BY <1>7 DEF WriteClass
  <2>2. row'[r].class # None /\ KitOf(r) = {}
    BY <1>1, <1>2, <2>1 DEF Character, IsUnset, KitsAreOne
  <2>3. ~GrantKit(h)
    BY <1>7 DEF WriteClass, GrantKit
  <2>4. QED
    BY <1>6, <1>7, <2>2, <2>3
<1>8. CASE AskClass(h) /\ ~Ends(h)
  <2>1. ClassKnown(h, row[r].class) /\ row[r].class # None /\ row' = row
    BY <1>8 DEF AskClass
  <2>2. KitOf(r) = {} /\ ~GrantKit(h)
    BY <1>1, <1>8 DEF SoloHand, AskClass, GrantKit
  <2>3. QED
    BY <1>6, <2>1, <2>2
<1>9. QED
  BY <1>3, <1>4, <1>5, <1>7, <1>8 DEF WriteClass, AskSkills, AskClass, GrantKit

\* Alone, a learn finds the balance and the skills as it has left them, so that its
\* answer is true.
LEMMA LearnIsSolo ==
  ASSUME Blanks, NoneWaits, Solo, [Next]_vars, alone', NEW h \in Handlers, Busy = {h},
         \/ LearnReads(h) \/ LearnLists(h)
         \/ LearnSpends(h) \/ LearnGrants(h) \/ LearnRereads(h)
  PROVE  SoloHand(h)' /\ TrueAnswer(hand'[h])
<1> USE DEF Blanks
<1>1. /\ alone /\ SoloHand(h) /\ hand[h] \in Handler /\ Fits(hand[h])
      /\ hand \in [Handlers -> Handler] /\ row \in [Rows -> Character]
  BY SoloSteps DEF Solo, TypeOK, HandsFit
<1> DEFINE r == hand[h].row
           s == hand[h].skill
<1>2. /\ r \in Rows /\ s \in Skills /\ IsLive(r) /\ ~hand[h].wrote /\ hand[h].answer = "none"
  BY <1>1 DEF LearnReads, LearnLists, LearnSpends, LearnGrants, LearnRereads, Fits, SoloHand
<1>3. row[r].points \in Nat /\ Cost[s] \in Nat \ {0} /\ hand[h].before \in Nat \cup {None}
  <2>1. row[r] \in Character /\ Cost[s] \in Nat \ {0}
    BY <1>1, <1>2, CostsArePositive
  <2> HIDE DEF r, s
  <2>2. row[r].points \in 0..MaxPoints
    BY <2>1 DEF Character
  <2>3. hand[h].before \in 0..MaxPoints \cup {None}
    BY <1>1 DEF Handler
  <2>4. QED
    BY <2>1, <2>2, <2>3, BoundsAreNumbers
<1>4. CASE LearnReads(h)
  <2>1. /\ hand'[h].at = "lists" /\ hand'[h].row = r /\ ~hand'[h].wrote
        /\ hand'[h].answer = "none" /\ hand'[h].before \in {row[r].points, None}
    BY <1>2, <1>4, LearnReadsStep
  <2>2. row' = row
    BY <1>4 DEF LearnReads
  <2>3. IsLive(hand[h].row)'
    BY <1>2, <2>1, <2>2 DEF IsLive
  <2>4. QED
    BY <2>1, <2>2, <2>3 DEF SoloHand, TrueAnswer
<1>9. CASE LearnLists(h)
  <2>1. /\ hand'[h].at = "spends" /\ hand'[h].row = r /\ ~hand'[h].wrote
        /\ hand'[h].answer = "none" /\ hand'[h].held \in {Held(r), None}
        /\ hand'[h].before = hand[h].before
    BY <1>2, <1>9, LearnListsStep
  <2>2. row' = row
    BY <1>9 DEF LearnLists
  <2>3. IsLive(hand[h].row)' /\ hand'[h].held \in {Held(hand[h].row)', None}
    BY <1>2, <2>1, <2>2 DEF IsLive, Held
  <2>4. hand[h].before # None => row[r].points = hand[h].before
    BY <1>1, <1>9 DEF SoloHand, LearnLists
  <2>5. QED
    BY <2>1, <2>2, <2>3, <2>4 DEF SoloHand, TrueAnswer
<1>5. CASE LearnSpends(h)
  <2>1. /\ hand'[h].row = r /\ hand'[h].held = hand[h].held
        /\ hand'[h].before = hand[h].before /\ ~hand'[h].wrote /\ hand'[h].answer = "none"
        /\ \/ hand'[h].at = "grants" /\ hand'[h].spent
           \/ hand'[h].at = "rereads" /\ ~hand'[h].spent
    BY <1>2, <1>5, LearnSpendsStep
  <2>2. /\ hand[h].held \in {Held(r), None}
        /\ hand[h].before # None => row[r].points = hand[h].before
    BY <1>1, <1>5 DEF SoloHand, LearnSpends
  <2>3. CASE row' = row
    <3>1. hand'[h].at = "rereads"
      <4>1. \/ row' = [row EXCEPT ![r].points = @ - Cost[s]] \/ Goes(h, "rereads")
        BY <1>5 DEF LearnSpends
      <4>2. Goes(h, "rereads") => hand'[h].at = "rereads"
        BY <1>1 DEF Goes, Handler
      <4>3. row' # [row EXCEPT ![r].points = @ - Cost[s]]
        <5>1. \A p : [row[r] EXCEPT !.points = p].points = p
          BY <1>1, <1>2 DEF Character
        <5>2. \A p : [row EXCEPT ![r].points = p][r] = [row[r] EXCEPT !.points = p]
          BY <1>1, <1>2
        <5>3. row[r].points # row[r].points - Cost[s]
          BY <1>3
        <5> HIDE DEF r, s
        <5>4. QED
          BY <2>3, <5>1, <5>2, <5>3
      <4>4. QED
        BY <4>1, <4>2, <4>3
    <3>2. /\ IsLive(hand[h].row)'
          /\ hand'[h].before # None => row'[hand'[h].row].points = hand'[h].before
      BY <1>2, <2>1, <2>2, <2>3 DEF IsLive
    <3>3. hand'[h].before # None => ~(row'[hand'[h].row].points < hand'[h].before)
      BY <1>3, <2>1, <3>2
    <3>4. QED
      BY <2>1, <3>1, <3>2, <3>3 DEF SoloHand, TrueAnswer
  <2>4. CASE row' # row
    <3>1. row' = [row EXCEPT ![r].points = @ - Cost[s]]
      BY <1>5, <2>4 DEF LearnSpends
    <3>2. /\ row'[r].points = row[r].points - Cost[s]
          /\ row'[r].status = row[r].status /\ row'[r].source = row[r].source
      BY <1>1, <1>2, <3>1 DEF Character
    <3>3. hand'[h].at = "grants"
      <4>1. hand' = [hand EXCEPT ![h].at = "grants", ![h].spent = TRUE]
        BY <1>5, <2>4 DEF LearnSpends
      <4>2. hand'[h] = [hand[h] EXCEPT !.at = "grants", !.spent = TRUE]
        BY <1>1, <4>1
      <4>3. QED
        BY <1>1, <4>2 DEF Handler
    <3>4. hand'[h].before # None => row'[hand'[h].row].points < hand'[h].before
      BY <1>3, <2>1, <2>2, <3>2
    <3>5. IsLive(hand[h].row)' /\ hand'[h].held \in {Held(hand[h].row)', None}
      BY <1>2, <2>1, <2>2, <3>2 DEF IsLive, Held
    <3>6. QED
      BY <2>1, <3>3, <3>4, <3>5 DEF SoloHand, TrueAnswer
  <2>5. QED
    BY <2>3, <2>4
<1>6. CASE LearnGrants(h)
  <2>1. /\ hand[h].held \in {Held(r), None} /\ hand'[h].spent
        /\ hand[h].before # None => row[r].points < hand[h].before
    BY <1>1, <1>6, LearnGrantsStep DEF SoloHand, LearnGrants
  <2>2. CASE /\ hand'[h].at = "idle" /\ hand'[h].held = hand[h].held
             /\ hand'[h].wrote = (s \notin Held(r))
             /\ hand'[h].answer = IF Grew(h, Held(r) \cup {s}) THEN "learned"
                                  ELSE "spent_but_nothing_was_written"
    <3>1. IsFiniteSet(Held(r)) /\ Cardinality(Held(r)) \in Nat
      BY FewAtATime, FS_Subset, FS_CardinalityType DEF Held
    <3>2. hand[h].held # None => (Grew(h, Held(r) \cup {s}) <=> s \notin Held(r))
      <4>1. Cardinality(Held(r) \cup {s})
              = IF s \in Held(r) THEN Cardinality(Held(r)) ELSE Cardinality(Held(r)) + 1
        BY <3>1, FS_AddElement
      <4> HIDE DEF r, s
      <4>2. QED
        BY <2>1, <3>1, <4>1 DEF Grew
    <3>3. hand[h].held = None => Grew(h, Held(r) \cup {s})
      BY DEF Grew
    <3> HIDE DEF r, s
    <3>4. QED
      BY <2>1, <2>2, <3>2, <3>3 DEF SoloHand, TrueAnswer
  <2>3. CASE /\ hand'[h].at = "rereads" /\ row' = row
             /\ hand'[h].row = r /\ hand'[h].before = hand[h].before
             /\ hand'[h].wrote = hand[h].wrote /\ hand'[h].answer = hand[h].answer
    <3>1. /\ IsLive(hand[h].row)'
          /\ hand'[h].before # None => row'[hand'[h].row].points < hand'[h].before
      BY <1>2, <2>1, <2>3 DEF IsLive
    <3>2. QED
      BY <1>2, <2>1, <2>3, <3>1 DEF SoloHand, TrueAnswer
  <2>4. QED
    BY <1>6, <2>2, <2>3, LearnGrantsStep
<1>7. CASE LearnRereads(h)
  <2>1. /\ hand'[h].at = "idle" /\ hand'[h].spent = hand[h].spent /\ ~hand'[h].wrote
        /\ \/ hand'[h].answer = "spend_status_unknown"
           \/ /\ hand[h].before # None
              /\ hand'[h].answer = IF row[r].points < hand[h].before
                                   THEN "spent_but_not_granted" ELSE "refused"
    BY <1>2, <1>7, LearnRereadsStep
  <2>2. hand[h].before # None => (hand[h].spent <=> row[r].points < hand[h].before)
    BY <1>1, <1>7 DEF SoloHand, LearnRereads
  <2>3. QED
    BY <2>1, <2>2 DEF SoloHand, TrueAnswer
<1>8. QED
  BY <1>4, <1>5, <1>6, <1>7, <1>9

\* Alone, every step leaves every request true.
LEMMA NextSolo ==
  ASSUME Blanks, NoneWaits, Solo, [Next]_vars
  PROVE  Solo'
<1> USE DEF Blanks
<1> SUFFICES ASSUME alone'
             PROVE  /\ (\A g, h \in Busy : g = h)'
                    /\ \A h \in Handlers : SoloHand(h)' /\ TrueAnswer(hand'[h])
  BY NextKits DEF Solo
<1>1. /\ alone /\ hand \in [Handlers -> Handler]
      /\ \A h \in Handlers : SoloHand(h) /\ TrueAnswer(hand[h])
  BY SoloSteps DEF Solo, TypeOK
<1>2. \A h \in Handlers : hand'[h].at = "idle" => SoloHand(h)'
  BY DEF SoloHand
<1>3. CASE UNCHANGED vars
  BY <1>1, <1>3 DEF vars, Solo, Busy, SoloHand, IsLive, Held, KitOf
<1>4. CASE Crash
  <2>1. \A h \in Handlers : hand'[h] = Idle
    BY <1>4 DEF Crash
  <2>2. Idle.at = "idle" /\ TrueAnswer(Idle)
    BY DEF Idle, TrueAnswer
  <2>3. QED
    BY <1>2, <2>1, <2>2 DEF Busy
<1>5. ASSUME NEW h \in Handlers, Busy \subseteq {h},
             \A g \in Handlers \ {h} : hand'[g] = hand[g],
             SoloHand(h)' /\ TrueAnswer(hand'[h])
      PROVE  /\ (\A g, k \in Busy : g = k)'
             /\ \A g \in Handlers : SoloHand(g)' /\ TrueAnswer(hand'[g])
  <2>1. \A g \in Handlers \ {h} : hand'[g].at = "idle"
    BY <1>5 DEF Busy
  <2>2. Busy' \subseteq {h}
    BY <2>1 DEF Busy
  <2>3. QED
    BY <1>1, <1>2, <1>5, <2>1, <2>2
<1>6. ASSUME NEW h \in Handlers, Busy = {h}, Continue(h)
      PROVE  /\ (\A g, k \in Busy : g = k)'
             /\ \A g \in Handlers : SoloHand(g)' /\ TrueAnswer(hand'[g])
  <2>1. \A g \in Handlers \ {h} : hand'[g] = hand[g]
    BY <1>1, <1>6, ContinueStep DEF HandStep
  <2>2. SoloHand(h)' /\ TrueAnswer(hand'[h])
    BY <1>6, CreationIsSolo, LearnIsSolo DEF Continue
  <2>3. QED
    BY <1>5, <1>6, <2>1, <2>2
<1>7. CASE Busy = {} /\ hand' = hand
  <2>1. \A g \in Handlers : hand'[g].at = "idle"
    BY <1>7 DEF Busy
  <2>2. QED
    BY <1>1, <1>2, <1>7, <2>1 DEF Busy
<1>8. ASSUME Busy = {}, NEW h \in Handlers, CreateRow(h)
      PROVE  /\ (\A g, k \in Busy : g = k)'
             /\ \A g \in Handlers : SoloHand(g)' /\ TrueAnswer(hand'[g])
  <2>1. PICK r \in Rows : hand' = [hand EXCEPT ![h] = [Idle EXCEPT !.at = "class", !.row = r]]
    BY <1>8 DEF CreateRow
  <2>2. hand'[h].at = "class" /\ hand'[h].answer = "none"
    BY <1>1, <2>1 DEF Idle
  <2>3. SoloHand(h)' /\ TrueAnswer(hand'[h])
    BY <2>2 DEF SoloHand, TrueAnswer
  <2>4. QED
    BY <1>1, <1>5, <1>8, <2>1, <2>3
<1>9. ASSUME Busy = {}, NEW h \in Handlers, Preflight(h) \/ PreflightBlind(h)
      PROVE  /\ (\A g, k \in Busy : g = k)'
             /\ \A g \in Handlers : SoloHand(g)' /\ TrueAnswer(hand'[g])
  <2>1. PICK r \in Rows, s \in Skills :
          /\ IsLive(r)
          /\ hand' = [hand EXCEPT ![h] = [Idle EXCEPT !.at = "reads", !.row = r, !.skill = s]]
    BY <1>9 DEF Preflight, PreflightBlind
  <2>2. /\ hand'[h].at = "reads" /\ hand'[h].answer = "none" /\ hand'[h].row = r
        /\ ~hand'[h].wrote
    <3>1. hand'[h] = [Idle EXCEPT !.at = "reads", !.row = r, !.skill = s]
      BY <1>1, <2>1
    <3>2. QED
      BY <3>1 DEF Idle
  <2>3. row' = row
    BY <1>9 DEF Preflight, PreflightBlind
  <2>4. SoloHand(h)' /\ TrueAnswer(hand'[h])
    BY <2>1, <2>2, <2>3 DEF SoloHand, TrueAnswer, IsLive
  <2>5. QED
    BY <1>1, <1>5, <1>9, <2>1, <2>4
<1>10. QED
  BY <1>3, <1>4, <1>6, <1>7, <1>8, <1>9, SoloSteps

\* Initially nobody is served.
LEMMA InitSolo == Init => NoneWaits /\ Solo
<1> SUFFICES ASSUME Init PROVE NoneWaits /\ Solo
  OBVIOUS
<1>1. Idle.at = "idle" /\ TrueAnswer(Idle)
  BY DEF Idle, TrueAnswer
<1>2. Busy = {} /\ NoneWaits
  BY <1>1 DEF Init, Busy, NoneWaits
<1>3. \A h \in Handlers : hand[h] = Idle /\ SoloHand(h)
  BY <1>1 DEF Init, SoloHand
<1>4. \A r \in Rows : KitOf(r) = {}
  BY DEF Init, Absent, KitOf
<1>5. KitsAreOne
  BY <1>4, KitsAreSkills DEF KitsAreOne
<1>6. QED
  BY <1>1, <1>2, <1>3, <1>5 DEF Solo

\* What the argument about single requests needs holds in every behaviour.
LEMMA SoloStays == Spec => [](NoneWaits /\ Solo)
<1>1. Blanks /\ NoneWaits /\ Solo /\ [Next]_vars => (NoneWaits /\ Solo)'
  BY NextNoneWaits, NextSolo
<1>2. QED
  BY <1>1, InitSolo, BlanksStay, PTL DEF Spec

\* Served one at a time, requests give a character the kit of one class and no other,
\* whatever fails, however often a creation is sent again, whoever changes the class.
THEOREM OneKitIsGranted == Spec => []OneKit
<1>1. Solo => OneKit
  BY DEF Solo, KitsAreOne, OneKit
<1>2. QED
  BY <1>1, SoloStays, PTL

\* Served one at a time, the answer to a learn says what became of the points and of the
\* skill, whichever of its transactions has failed.
THEOREM AnswersAreTrue == Spec => []AnswerIsTrue
<1>1. Solo => AnswerIsTrue
  BY DEF Solo, TrueAnswer, AnswerIsTrue
<1>2. QED
  BY <1>1, SoloStays, PTL

-----------------------------------------------------------------------------
(* Retries heal, as far as it is safety *)

\* The transactions a request may still come to.
Later(at) ==
    IF at = "class" THEN {"asks skills", "asks class", "kit", "idle"}
    ELSE IF at = "asks skills" THEN {"asks class", "kit", "idle"}
    ELSE IF at = "asks class" THEN {"kit", "idle"}
    ELSE IF at = "reads" THEN {"lists", "spends", "grants", "rereads", "idle"}
    ELSE IF at = "lists" THEN {"spends", "grants", "rereads", "idle"}
    ELSE IF at = "spends" THEN {"grants", "rereads", "idle"}
    ELSE IF at = "grants" THEN {"rereads", "idle"}
    ELSE {"idle"}

\* A request that has begun goes forward or is left where it is, whoever takes a step.
GoesForward(h) ==
    hand[h].at # "idle" => hand'[h] = hand[h] \/ hand'[h].at \in Later(hand[h].at)

\* A creation that ends without a failure in its last transaction leaves no character
\* that is live, has a class and has no skill.
Heals(h) ==
    \A r \in Rows :
        /\ hand[h].row = r
        /\ hand[h].at \in {"class", "asks skills", "asks class", "kit"}
        /\ hand'[h].at = "idle" /\ fails' = fails
        /\ IsLive(r)' /\ row'[r].class # None
        => Held(r)' # {}

\* Requests go forward, creations heal, and skills once granted stay.
RequestsSettle ==
    [][/\ \A h \in Handlers : GoesForward(h) /\ Heals(h)
       /\ \A r \in Rows : Held(r) \subseteq Held(r)']_vars

\* The three ways in which a creation leaves a transaction.
LEMMA GoesAndKnows ==
  ASSUME hand \in [Handlers -> Handler], NEW h \in Handlers
  PROVE  /\ \A place : Goes(h, place) => hand'[h].at = place
         /\ \A c : ClassKnown(h, c) => hand'[h].at = "kit"
         /\ Ends(h) => hand'[h].at = "idle"
<1>1. \A place, c : /\ [hand[h] EXCEPT !.at = place].at = place
                    /\ [hand[h] EXCEPT !.at = "kit", !.class = c].at = "kit"
  <2>1. hand[h] \in Handler
    OBVIOUS
  <2>2. QED
    BY <2>1 DEF Handler
<1>2. ASSUME NEW place, Goes(h, place) PROVE hand'[h].at = place
  <2>1. hand'[h] = [hand[h] EXCEPT !.at = place]
    BY <1>2 DEF Goes
  <2>2. QED
    BY <1>1, <2>1
<1>3. ASSUME NEW c, ClassKnown(h, c) PROVE hand'[h].at = "kit"
  <2>1. hand'[h] = [hand[h] EXCEPT !.at = "kit", !.class = c]
    BY <1>3 DEF ClassKnown
  <2>2. QED
    BY <1>1, <2>1
<1>4. Ends(h) => hand'[h].at = "idle"
  BY DEF Ends, Idle
<1>5. QED
  BY <1>2, <1>3, <1>4

\* What a handler does once it has begun takes it forward.
LEMMA ContinueGoesForward ==
  ASSUME Blanks, NEW h \in Handlers, Continue(h)
  PROVE  GoesForward(h)
<1>1. hand \in [Handlers -> Handler] /\ hand[h] \in Handler
  BY DEF Blanks, TypeOK
<1>3. CASE WriteClass(h)
  <2>1. Goes(h, "asks skills") \/ ClassKnown(h, Gear)
    BY <1>3 DEF WriteClass
  <2>2. hand'[h].at \in {"kit", "asks skills"}
    BY <1>1, <2>1, GoesAndKnows
  <2>3. QED
    BY <1>3, <2>2 DEF WriteClass, GoesForward, Later
<1>4. CASE AskSkills(h)
  <2>1. Goes(h, "asks class") \/ Ends(h)
    BY <1>4 DEF AskSkills
  <2>2. hand'[h].at \in {"asks class", "idle"}
    BY <1>1, <2>1, GoesAndKnows
  <2>3. QED
    BY <1>4, <2>2 DEF AskSkills, GoesForward, Later
<1>5. CASE AskClass(h)
  <2>1. ClassKnown(h, row[hand[h].row].class) \/ Ends(h)
    BY <1>5 DEF AskClass
  <2>2. hand'[h].at \in {"kit", "idle"}
    BY <1>1, <2>1, GoesAndKnows
  <2>3. QED
    BY <1>5, <2>2 DEF AskClass, GoesForward, Later
<1>6. CASE GrantKit(h)
  <2>1. hand'[h].at = "idle"
    BY <1>1, <1>6, GoesAndKnows DEF GrantKit
  <2>2. QED
    BY <1>6, <2>1 DEF GrantKit, GoesForward, Later
<1>7. CASE LearnReads(h)
  <2>1. hand'[h].at = "lists"
    BY <1>7, LearnReadsStep DEF Blanks
  <2>2. QED
    BY <1>7, <2>1 DEF LearnReads, GoesForward, Later
<1>2. CASE LearnLists(h)
  <2>1. hand'[h].at = "spends"
    BY <1>2, LearnListsStep DEF Blanks
  <2>2. QED
    BY <1>2, <2>1 DEF LearnLists, GoesForward, Later
<1>8. CASE LearnSpends(h)
  <2>1. hand'[h].at \in {"grants", "rereads"}
    BY <1>8, LearnSpendsStep DEF Blanks
  <2>2. QED
    BY <1>8, <2>1 DEF LearnSpends, GoesForward, Later
<1>9. CASE LearnGrants(h)
  <2>1. hand'[h].at \in {"rereads", "idle"}
    BY <1>9, LearnGrantsStep DEF Blanks
  <2>2. QED
    BY <1>9, <2>1 DEF LearnGrants, GoesForward, Later
<1>10. CASE LearnRereads(h)
  <2>1. hand'[h].at = "idle"
    BY <1>10, LearnRereadsStep DEF Blanks
  <2>2. QED
    BY <1>10, <2>1 DEF LearnRereads, GoesForward, Later
<1>11. QED
  BY <1>2, <1>3, <1>4, <1>5, <1>6, <1>7, <1>8, <1>9, <1>10 DEF Continue

\* A step that moves a handler that has begun is its own, or the death of the process.
LEMMA WhoMovesTheHand ==
  ASSUME Blanks, [Next]_vars, NEW h \in Handlers, hand[h].at # "idle", hand'[h] # hand[h]
  PROVE  Continue(h) \/ Crash
<1>1. hand \in [Handlers -> Handler]
  BY DEF Blanks, TypeOK
<1>2. ASSUME NEW g \in Handlers, CreateRow(g) \/ Preflight(g) \/ PreflightBlind(g)
      PROVE  FALSE
  <2>1. hand[g].at = "idle"
    BY <1>2 DEF CreateRow, Preflight, PreflightBlind, MayStart
  <2>2. \E new : hand' = [hand EXCEPT ![g] = new]
    BY <1>2 DEF CreateRow, Preflight, PreflightBlind
  <2>3. QED
    BY <1>1, <2>1, <2>2
<1>3. ASSUME NEW g \in Handlers, Continue(g)
      PROVE  g = h
  BY <1>1, <1>3, ContinueStep DEF Blanks, HandStep
<1>4. QED
  BY <1>2, <1>3 DEF Next, vars, Job, GrantAll, Delete, Gain, Backfill

\* So it goes forward.
LEMMA NextGoesForward ==
  ASSUME Blanks, [Next]_vars, NEW h \in Handlers
  PROVE  GoesForward(h)
<1> SUFFICES ASSUME hand[h].at # "idle", hand'[h] # hand[h]
             PROVE  hand'[h].at \in Later(hand[h].at)
  BY DEF GoesForward
<1>1. CASE Continue(h)
  BY <1>1, ContinueGoesForward DEF GoesForward
<1>2. CASE Crash
  BY <1>2 DEF Crash, Idle, Later
<1>3. QED
  BY <1>1, <1>2, WhoMovesTheHand

\* A count that is raised changes.
LEMMA OneMore == \A max \in Nat : \A n \in 0..max : n + 1 # n
  OBVIOUS

\* And a creation that ends without a failure has healed.
LEMMA NextHeals ==
  ASSUME Blanks, [Next]_vars, NEW h \in Handlers
  PROVE  Heals(h)
<1> SUFFICES ASSUME NEW r \in Rows, hand[h].row = r,
                    hand[h].at \in {"class", "asks skills", "asks class", "kit"},
                    hand'[h].at = "idle", fails' = fails,
                    IsLive(r)', row'[r].class # None
             PROVE  Held(r)' # {}
  BY DEF Heals
<1>1. /\ hand \in [Handlers -> Handler] /\ hand[h] \in Handler
      /\ row \in [Rows -> Character] /\ row[r] \in Character
  BY DEF Blanks, TypeOK
<1>2. ~Fails
  <2>1. fails \in 0..MaxFails
    BY DEF Blanks, TypeOK
  <2>2. fails + 1 # fails
    BY <2>1, OneMore, BoundsAreNumbers, Zenon
  <2>3. QED
    BY <2>2 DEF Fails
<1>3. hand'[h] # hand[h]
  OBVIOUS
<1>4. Continue(h)
  BY <1>2, <1>3, WhoMovesTheHand DEF Crash
<1>5. ~WriteClass(h)
  BY <1>1, GoesAndKnows DEF WriteClass
<1>6. CASE AskSkills(h)
  <2>1. row' = row
    BY <1>6 DEF AskSkills
  <2>2. IsLive(r)
    BY <2>1 DEF IsLive
  <2>3. ~Goes(h, "asks class")
    BY <1>1, GoesAndKnows
  <2>4. ~HasNoSkills(r)
    BY <1>2, <1>6, <2>2, <2>3 DEF AskSkills
  <2>5. QED
    BY <2>1, <2>4 DEF HasNoSkills, Held
<1>7. CASE AskClass(h)
  <2>1. row' = row
    BY <1>7 DEF AskClass
  <2>2. IsLive(r) /\ row[r].class # None
    BY <2>1 DEF IsLive
  <2>3. ~ClassKnown(h, row[r].class)
    BY <1>1, GoesAndKnows
  <2>4. QED
    BY <1>2, <1>7, <2>2, <2>3 DEF AskClass
<1>8. CASE GrantKit(h)
  <2>1. IsGrantable(r) /\ Granted(r, Kit[hand[h].class], "starting_kit")
    BY <1>2, <1>8 DEF GrantKit, IsGrantable, IsLive
  <2>2. hand[h].class \in Classes
    BY <1>8 DEF GrantKit, Blanks, HandsFit, Fits
  <2>3. PICK s \in Skills : s \in Kit[hand[h].class]
    BY <2>2, KitsAreSkills
  <2>4. row'[r].source[s] = (IF s \in Kit[hand[h].class] \ Held(r) THEN "starting_kit"
                             ELSE row[r].source[s])
    <3>1. "starting_kit" \in Sources
      BY DEF Sources
    <3>2. QED
      BY <1>1, <2>1, <3>1, GrantedRow DEF IsGrantable
  <2>5. row'[r].source[s] # "none"
    BY <2>3, <2>4 DEF Held
  <2>6. QED
    BY <2>5 DEF Held
<1>9. QED
  BY <1>4, <1>5, <1>6, <1>7, <1>8 DEF Continue, LearnReads, LearnLists, LearnSpends, LearnGrants,
     LearnRereads

\* The safety half of RetryHeals, for any number of requests at once: what has begun
\* comes to its end in at most five transactions, a creation that ends without a failure
\* leaves a character whose class is known with skills, and no skill is ever taken away.
THEOREM RequestsComeToAnEnd == Spec => RequestsSettle
<1>1. ASSUME Blanks, [Next]_vars, NEW r \in Rows PROVE Held(r) \subseteq Held(r)'
  <2>1. RowStep(r)
    BY <1>1, NextRows DEF Blanks, RowsStep
  <2>2. CASE Unset(r)
    <3>1. row[r] = Absent
      BY <1>1, <2>2 DEF Unset, Blanks, AbsentIsBlank
    <3>2. QED
      BY <3>1 DEF Absent, Held
  <2>3. CASE Skilled(r)
    BY <1>1, <2>3 DEF Skilled, Held, Blanks, TypeOK, Character
  <2>4. CASE row'[r] = row[r] \/ Classed(r) \/ Pointed(r) \/ Gone(r)
    BY <1>1, <2>4 DEF Classed, Pointed, Gone, Held, Blanks, TypeOK, Character
  <2>5. QED
    BY <2>1, <2>2, <2>3, <2>4 DEF RowStep
<1>2. Blanks /\ [Next]_vars =>
        [/\ \A h \in Handlers : GoesForward(h) /\ Heals(h)
         /\ \A r \in Rows : Held(r) \subseteq Held(r)']_vars
  BY <1>1, NextGoesForward, NextHeals
<1>3. QED
  BY <1>2, BlanksStay, PTL DEF Spec, RequestsSettle
=============================================================================
