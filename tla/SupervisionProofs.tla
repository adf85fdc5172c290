-------------------------- MODULE SupervisionProofs --------------------------
(***************************************************************************)
(* Proofs about what watches the system and tells its people.              *)
(*                                                                         *)
(* TradingHalt and Watchdogs, for any number of sessions, Owners, items    *)
(* and watchers: a halt is released in two steps, and an alert names       *)
(* something that its watcher did not name before. Both follow from what a *)
(* session has read and what may have changed since.                       *)
(*                                                                         *)
(* NotificationOutbox, for every number of workers, events and people,     *)
(* every batch size and every number of attempts: the types of its state,  *)
(* that nobody is told again of what is recorded or being sent, that a     *)
(* published event has reached all it was owed to, and that giving up is   *)
(* announced. They rest on what an open transaction knows: the rows it has *)
(* locked are pending and nobody else's, and what it has tried is not      *)
(* recorded as received.                                                   *)
(***************************************************************************)
EXTENDS Watchdogs, TradingHalt, NotificationOutbox, TLAPS, FiniteSetTheorems

Sessions == Evaluator \cup Owner

HaltRows == [level : 1 .. 4, active : BOOLEAN]

Judgings ==
    [phase : {"idle", "judged", "looked", "asked"}, bad : BOOLEAN, row : Nat, level : 0 .. 4,
     stale : BOOLEAN]

HaltTypes ==
    /\ cause \in {"limit", "lock", "ledger"} /\ breach \in BOOLEAN
    /\ halts \in Seq(HaltRows) /\ calm \in Seq(BOOLEAN) /\ Len(calm) = Len(halts)
    /\ judging \in [Sessions -> Judgings]

(* uq_trading_halt_active.                                                 *)
OneActive == \A i, k \in Active : i = k

(* What a session holds is a row that there is, and was at that level.     *)
LookedOK ==
    \A s \in Sessions :
        /\ judging[s].row = 0 <=> judging[s].level = 0
        /\ judging[s].row \in 0 .. Len(halts)
        /\ judging[s].phase = "judged" => judging[s].row = 0
        /\ judging[s].phase = "asked" => judging[s].row # 0

(* Only a limit is found to be kept.                                       *)
JudgedOK ==
    \A s \in Sessions :
        judging[s].phase \in {"judged", "looked"} /\ ~judging[s].bad => cause = "limit"

(* A limit's halt gets to the last level by a step down ...                *)
CalmOK == cause = "limit" => \A i \in 1 .. Len(halts) : halts[i].level = 1 => calm[i]

(* ... and a session that read it there knows so, unless it was raised     *)
(* behind its back.                                                        *)
WarnedOK ==
    cause = "limit" =>
        \A s \in Sessions :
            judging[s].level = 1 => calm[judging[s].row] \/ judging[s].stale

HaltInv == HaltTypes /\ OneActive /\ LookedOK /\ JudgedOK /\ CalmOK /\ WarnedOK
-----------------------------------------------------------------------------
(* _find_active_halt finds an active row if there is one.                  *)
LEMMA Found ==
    ASSUME HaltTypes
    PROVE  /\ Active \subseteq 1 .. Len(halts)
           /\ Active = {} => FoundHalt = 0
           /\ Active # {} => FoundHalt \in Active /\ halts[FoundHalt].level \in 1 .. 4
<1>1. DOMAIN halts = 1 .. Len(halts) /\ \A i \in 1 .. Len(halts) : halts[i] \in HaltRows
  BY DEF HaltTypes
<1>2. Active \subseteq 1 .. Len(halts)
  BY <1>1 DEF Active
<1>3. Active # {} => FoundHalt \in Active
  BY DEF FoundHalt
<1> QED BY <1>1, <1>2, <1>3 DEF FoundHalt, HaltRows

(* A sequence with another element, or with one changed.                   *)
LEMMA Appended ==
    ASSUME NEW S, NEW q \in Seq(S), NEW x \in S
    PROVE  /\ Append(q, x) \in Seq(S) /\ Len(Append(q, x)) = Len(q) + 1
           /\ Append(q, x)[Len(q) + 1] = x
           /\ \A i \in 1 .. Len(q) : Append(q, x)[i] = q[i]
OBVIOUS

LEMMA Replaced ==
    ASSUME NEW S, NEW q \in Seq(S), NEW r \in 1 .. Len(q), NEW x \in S
    PROVE  /\ [q EXCEPT ![r] = x] \in Seq(S) /\ Len([q EXCEPT ![r] = x]) = Len(q)
           /\ [q EXCEPT ![r] = x][r] = x
           /\ \A i \in 1 .. Len(q) : i # r => [q EXCEPT ![r] = x][i] = q[i]
OBVIOUS

(* What a session remembers when it has judged, and when it has looked.    *)
JudgedWith(r, b) == [r EXCEPT !.phase = "judged", !.bad = b]
LookedWith(r, p, i, l) == [r EXCEPT !.phase = p, !.row = i, !.level = l]

LEMMA Judged ==
    ASSUME NEW r \in Judgings, NEW b \in BOOLEAN
    PROVE  /\ JudgedWith(r, b) \in Judgings /\ JudgedWith(r, b).phase = "judged"
           /\ JudgedWith(r, b).bad = b /\ JudgedWith(r, b).row = r.row
           /\ JudgedWith(r, b).level = r.level
BY DEF Judgings, JudgedWith

LEMMA Looked ==
    ASSUME NEW r \in Judgings, NEW p \in {"looked", "asked"}, NEW i \in Nat, NEW l \in 0 .. 4
    PROVE  LookedWith(r, p, i, l) \in Judgings
BY DEF Judgings, LookedWith

LEMMA NobodyJudges == NoJudging \in Judgings
BY DEF NoJudging, Judgings

(* A session reads; the rows are as they were.                             *)
LEMMA SessionMoves ==
    ASSUME HaltInv, NEW s \in Sessions, NEW j \in Judgings, judging' = [judging EXCEPT ![s] = j],
           UNCHANGED <<cause, breach, halts, calm>>,
           j.row = 0 <=> j.level = 0, j.row \in 0 .. Len(halts),
           j.phase = "judged" => j.row = 0, j.phase = "asked" => j.row # 0,
           j.phase \in {"judged", "looked"} /\ ~j.bad => cause = "limit",
           cause = "limit" /\ j.level = 1 => calm[j.row] \/ j.stale
    PROVE  HaltInv'
<1> USE DEF HaltInv
<1>1. /\ judging \in [Sessions -> Judgings] /\ judging' \in [Sessions -> Judgings] /\ judging'[s] = j
      /\ \A r \in Sessions : r # s => judging'[r] = judging[r]
  BY DEF HaltTypes
<1>2. HaltTypes'
  BY <1>1 DEF HaltTypes
<1>3. OneActive' /\ CalmOK'
  BY DEF OneActive, Active, CalmOK
<1>4. LookedOK'
  BY <1>1 DEF LookedOK
<1>5. JudgedOK'
  BY <1>1 DEF JudgedOK
<1>6. WarnedOK'
  BY <1>1 DEF WarnedOK
<1> QED BY <1>2, <1>3, <1>4, <1>5, <1>6

LEMMA SessionEnds ==
    ASSUME HaltInv, NEW s \in Sessions, Done(s), UNCHANGED <<cause, breach, halts, calm>>
    PROVE  HaltInv'
<1>1. NoJudging.row = 0 /\ NoJudging.level = 0 /\ NoJudging.phase = "idle"
  BY DEF NoJudging
<1>2. Len(halts) \in Nat
  BY DEF HaltInv, HaltTypes
<1>3. judging' = [judging EXCEPT ![s] = NoJudging]
  BY DEF Done
<1> DEFINE j == NoJudging
<1>4. /\ j \in Judgings /\ (j.row = 0 <=> j.level = 0) /\ j.row \in 0 .. Len(halts)
      /\ j.phase # "judged" /\ j.phase # "asked" /\ j.phase # "looked" /\ j.level # 1
  BY <1>1, <1>2, NobodyJudges
<1> HIDE DEF j
<1> QED BY <1>3, <1>4, SessionMoves DEF j

(* A row is lowered, or released.                                          *)
LEMMA RowLowered ==
    ASSUME HaltInv, NEW s \in Sessions, Done(s), UNCHANGED <<cause, breach>>,
           NEW r \in 1 .. Len(halts), NEW h \in HaltRows, h.active => halts[r].active,
           halts' = [halts EXCEPT ![r] = h], calm' = [calm EXCEPT ![r] = TRUE]
    PROVE  HaltInv'
<1> USE DEF HaltInv
<1>1. /\ Len(halts') = Len(halts) /\ halts' \in Seq(HaltRows) /\ halts'[r] = h
      /\ \A i \in 1 .. Len(halts) : i # r => halts'[i] = halts[i]
  BY DEF HaltTypes
<1>2. /\ Len(calm') = Len(halts) /\ calm' \in Seq(BOOLEAN) /\ calm'[r] = TRUE
      /\ \A i \in 1 .. Len(halts) : i # r => calm'[i] = calm[i]
  BY DEF HaltTypes
<1>3. /\ judging \in [Sessions -> Judgings] /\ judging' \in [Sessions -> Judgings]
      /\ judging'[s] = NoJudging
      /\ \A p \in Sessions : p # s => judging'[p] = judging[p]
  BY NobodyJudges DEF HaltTypes, Done
<1>4. HaltTypes'
  BY <1>1, <1>2, <1>3 DEF HaltTypes
<1>5. \A i \in Active' : i \in Active
  <2>1. DOMAIN halts = 1 .. Len(halts) /\ DOMAIN halts' = 1 .. Len(halts)
    BY <1>1 DEF HaltTypes
  <2> QED BY <1>1, <2>1 DEF Active
<1>6. OneActive'
  BY <1>5 DEF OneActive
<1>7. CalmOK'
  BY <1>1, <1>2 DEF CalmOK
<1>8. LookedOK'
  BY <1>1, <1>3 DEF LookedOK, NoJudging, HaltTypes
<1>9. JudgedOK'
  BY <1>3 DEF JudgedOK, NoJudging
<1>10. \A i \in 1 .. Len(halts) : calm[i] => calm'[i]
  BY <1>2
<1>11. WarnedOK'
  <2> SUFFICES ASSUME cause = "limit", NEW p \in Sessions, judging'[p].level = 1
               PROVE  calm'[judging'[p].row] \/ judging'[p].stale
    BY DEF WarnedOK
  <2>1. p # s
    BY <1>3 DEF NoJudging
  <2>2. judging[p].row \in 1 .. Len(halts)
    BY <1>3, <2>1 DEF LookedOK, HaltTypes
  <2> QED BY <1>3, <1>10, <2>1, <2>2 DEF WarnedOK
<1> QED BY <1>4, <1>6, <1>7, <1>8, <1>9, <1>11

(* Of a session whose row is raised by another, `stale` says so.           *)
LEMMA Raises ==
    ASSUME HaltInv, NEW e \in Evaluator, Activates(e)
    PROVE  HaltInv'
<1> USE DEF HaltInv
<1> DEFINE j == judging[e]
<1>1. /\ e \in Sessions /\ j.row \in 0 .. Len(halts) /\ Len(halts) \in Nat
      /\ Raised \in {2, 4} /\ judging \in [Sessions -> Judgings]
  BY DEF Sessions, HaltTypes, LookedOK, Raised
<1>2. UNCHANGED <<cause, breach>> /\ Admits(j.row) /\ halts' = HaltWith(j.row)
  BY DEF Activates
<1>3. /\ DOMAIN judging = Sessions /\ judging' \in [Sessions -> Judgings] /\ judging'[e] = NoJudging
      /\ \A s \in Sessions : s # e =>
            /\ judging'[s].phase = judging[s].phase /\ judging'[s].bad = judging[s].bad
            /\ judging'[s].row = judging[s].row /\ judging'[s].level = judging[s].level
            /\ judging'[s].stale = (judging[s].stale \/ (judging[s].row = j.row /\ j.row # 0))
  <2>1. /\ DOMAIN judging = Sessions
        /\ judging' = [s \in Sessions |->
                         IF s = e THEN NoJudging
                         ELSE [judging[s] EXCEPT !.stale = @ \/ (judging[s].row = j.row /\ j.row # 0)]]
    BY <1>1 DEF Activates
  <2>2. ASSUME NEW s \in Sessions
        PROVE  [judging[s] EXCEPT !.stale = @ \/ (judging[s].row = j.row /\ j.row # 0)] \in Judgings
    BY <1>1 DEF Judgings
  <2>3. ASSUME NEW s \in Sessions, s # e
        PROVE /\ judging'[s].phase = judging[s].phase /\ judging'[s].bad = judging[s].bad
              /\ judging'[s].row = judging[s].row /\ judging'[s].level = judging[s].level
              /\ judging'[s].stale = (judging[s].stale \/ (judging[s].row = j.row /\ j.row # 0))
    BY <1>1, <2>1, <2>3 DEF Judgings
  <2> QED BY <1>1, <2>1, <2>2, <2>3, NobodyJudges
<1>4. LookedOK' /\ JudgedOK' /\ Len(halts') >= Len(halts)
  <2>1. Len(halts') \in Nat /\ Len(halts') >= Len(halts)
    BY <1>1, <1>2 DEF HaltWith, HaltTypes
  <2>2. LookedOK'
    BY <1>1, <1>3, <2>1 DEF LookedOK, NoJudging
  <2>3. JudgedOK'
    BY <1>2, <1>3 DEF JudgedOK, NoJudging
  <2> QED BY <2>1, <2>2, <2>3
<1>5. CASE j.row = 0
  <2> DEFINE h == [level |-> Raised, active |-> TRUE]
  <2>1. /\ Active = {} /\ halts' = Append(halts, h) /\ calm' = Append(calm, FALSE)
        /\ h \in HaltRows
    BY <1>1, <1>2, <1>5 DEF Admits, HaltWith, HaltRows, Activates
  <2>2. /\ halts' \in Seq(HaltRows) /\ Len(halts') = Len(halts) + 1 /\ halts'[Len(halts) + 1] = h
        /\ \A i \in 1 .. Len(halts) : halts'[i] = halts[i]
    BY <2>1 DEF HaltTypes
  <2>3. /\ calm' \in Seq(BOOLEAN) /\ Len(calm') = Len(halts) + 1
        /\ \A i \in 1 .. Len(halts) : calm'[i] = calm[i]
    <3> DEFINE no == FALSE
    <3>1. calm \in Seq(BOOLEAN) /\ Len(calm) = Len(halts) /\ no \in BOOLEAN
      BY DEF HaltTypes
    <3>2. calm' = Append(calm, no)
      BY <2>1
    <3> HIDE DEF no, h
    <3> QED BY <3>1, <3>2, Appended
  <2>4. h.level = Raised
    OBVIOUS
  <2> HIDE DEF h
  <2>5. HaltTypes'
    BY <1>2, <1>3, <2>2, <2>3 DEF HaltTypes
  <2>6. \A i \in Active' : i = Len(halts) + 1
    <3>1. \A i \in 1 .. Len(halts) : ~halts[i].active
      BY <2>1 DEF Active, HaltTypes
    <3>2. DOMAIN halts' = 1 .. Len(halts) + 1
      BY <2>2
    <3> QED BY <1>1, <2>2, <3>1, <3>2 DEF Active
  <2>7. OneActive'
    BY <2>6 DEF OneActive
  <2>8. CalmOK'
    BY <1>1, <1>2, <2>2, <2>3, <2>4 DEF CalmOK
  <2>9. WarnedOK'
    <3> SUFFICES ASSUME cause = "limit", NEW p \in Sessions, judging'[p].level = 1
                 PROVE  calm'[judging'[p].row] \/ judging'[p].stale
      BY <1>2 DEF WarnedOK
    <3>1. p # e
      BY <1>3 DEF NoJudging
    <3>2. judging[p].row \in 1 .. Len(halts)
      BY <1>1, <1>3, <3>1 DEF LookedOK
    <3> QED BY <1>3, <2>3, <3>1, <3>2 DEF WarnedOK
  <2> QED BY <1>4, <2>5, <2>7, <2>8, <2>9
<1>6. CASE j.row # 0
  <2>1. halts' = [halts EXCEPT ![j.row].level = Raised] /\ calm' = [calm EXCEPT ![j.row] = FALSE]
    BY <1>2, <1>6 DEF HaltWith, Activates
  <2>2. /\ halts' \in Seq(HaltRows) /\ Len(halts') = Len(halts)
        /\ halts'[j.row].level = Raised
        /\ \A i \in 1 .. Len(halts) : halts'[i].active = halts[i].active
        /\ \A i \in 1 .. Len(halts) : i # j.row => halts'[i] = halts[i]
    <3>1. halts[j.row] \in HaltRows
      BY <1>1, <1>6 DEF HaltTypes
    <3>2. [halts[j.row] EXCEPT !.level = Raised] \in HaltRows
      BY <1>1, <3>1 DEF HaltRows
    <3>3. /\ [halts[j.row] EXCEPT !.level = Raised].level = Raised
          /\ [halts[j.row] EXCEPT !.level = Raised].active = halts[j.row].active
      BY <3>1 DEF HaltRows
    <3>4. halts' = [halts EXCEPT ![j.row] = [halts[j.row] EXCEPT !.level = Raised]]
      BY <2>1
    <3> DEFINE h == [halts[j.row] EXCEPT !.level = Raised]
    <3> HIDE DEF h
    <3> QED BY <1>1, <1>6, <3>2, <3>3, <3>4 DEF HaltTypes, h
  <2>3. /\ calm' \in Seq(BOOLEAN) /\ Len(calm') = Len(halts)
        /\ \A i \in 1 .. Len(halts) : i # j.row => calm'[i] = calm[i]
    <3>1. calm \in Seq(BOOLEAN) /\ Len(calm) = Len(halts) /\ FALSE \in BOOLEAN /\ j.row \in 1 .. Len(calm)
      BY <1>1, <1>6 DEF HaltTypes
    <3>2. calm' = [calm EXCEPT ![j.row] = FALSE]
      BY <2>1
    <3> HIDE DEF j
    <3> QED BY <3>1, <3>2, Replaced
  <2>4. HaltTypes'
    BY <1>2, <1>3, <2>2, <2>3 DEF HaltTypes
  <2>5. OneActive'
    <3>1. DOMAIN halts = 1 .. Len(halts) /\ DOMAIN halts' = 1 .. Len(halts)
      BY <2>2 DEF HaltTypes
    <3> QED BY <2>2, <3>1 DEF OneActive, Active
  <2>6. CalmOK'
    BY <1>1, <1>2, <2>2, <2>3 DEF CalmOK
  <2>7. WarnedOK'
    <3> SUFFICES ASSUME cause = "limit", NEW p \in Sessions, judging'[p].level = 1
                 PROVE  calm'[judging'[p].row] \/ judging'[p].stale
      BY <1>2 DEF WarnedOK
    <3>1. p # e
      BY <1>3 DEF NoJudging
    <3>2. judging[p].row \in 1 .. Len(halts)
      BY <1>1, <1>3, <3>1 DEF LookedOK
    <3> QED BY <1>3, <1>6, <2>3, <3>1, <3>2 DEF WarnedOK
  <2> QED BY <1>4, <2>4, <2>5, <2>6, <2>7
<1> QED BY <1>5, <1>6

(* _ONE_STEP_DOWN of a row: it is released at the last level only.         *)
LEMMA SteppedDown ==
    ASSUME NEW old \in HaltRows, NEW level \in 1 .. 4
    PROVE  /\ SteppedRow(old, level) \in HaltRows
           /\ SteppedRow(old, level).active => old.active
           /\ old.active /\ ~SteppedRow(old, level).active => level = 1
<1>1. CASE level = 1
  <2>1. SteppedRow(old, level) = [old EXCEPT !.active = FALSE]
    BY <1>1, Zenon DEF SteppedRow, Stepped
  <2> QED BY <1>1, <2>1 DEF HaltRows
<1>2. CASE level # 1
  <2>1. SteppedRow(old, level) = [old EXCEPT !.level = level - 1]
    BY <1>2 DEF SteppedRow, Stepped
  <2> QED BY <1>2, <2>1 DEF HaltRows
<1> QED BY <1>1, <1>2

(* A step down and the release by an Owner lower the row that was read.    *)
LEMMA Lowers ==
    ASSUME HaltInv, NEW s \in Sessions,
           \/ s \in Evaluator /\ StepsDown(s)
           \/ s \in Owner /\ OwnerReleases(s)
    PROVE  /\ Done(s) /\ UNCHANGED <<cause, breach>>
           /\ judging[s].row \in 1 .. Len(halts) /\ judging[s].level \in 1 .. 4
           /\ calm' = [calm EXCEPT ![judging[s].row] = TRUE]
           /\ \E h \in HaltRows :
                 /\ halts' = [halts EXCEPT ![judging[s].row] = h]
                 /\ h.active => halts[judging[s].row].active
                 /\ halts[judging[s].row].active /\ ~h.active
                       => IF cause = "limit" THEN judging[s].level = 1 ELSE s \in Owner
<1> DEFINE r == judging[s].row
<1> DEFINE old == halts[r]
<1> DEFINE level == judging[s].level
<1>1. /\ r \in 1 .. Len(halts) /\ level \in 1 .. 4
  <2>1. judging[s] \in Judgings /\ r # 0
    BY DEF HaltInv, HaltTypes, LookedOK, StepsDown, OwnerReleases
  <2> QED BY <2>1 DEF HaltInv, LookedOK, Judgings, HaltTypes
<1>2. old \in HaltRows
  BY <1>1 DEF HaltInv, HaltTypes
<1>3. Done(s) /\ UNCHANGED <<cause, breach>> /\ calm' = [calm EXCEPT ![r] = TRUE]
  BY DEF StepsDown, OwnerReleases
<1>4. CASE cause = "limit"
  <2>1. halts' = [halts EXCEPT ![r] = SteppedRow(old, level)]
    BY <1>4 DEF StepsDown, OwnerReleases
  <2> HIDE DEF r, old, level
  <2>2. /\ SteppedRow(old, level) \in HaltRows
        /\ SteppedRow(old, level).active => old.active
        /\ old.active /\ ~SteppedRow(old, level).active => level = 1
    BY <1>1, <1>2, SteppedDown
  <2> QED BY <1>1, <1>3, <1>4, <2>1, <2>2, Zenon DEF r, old, level
<1>5. CASE cause # "limit"
  <2>1. s \in Owner /\ OwnerReleases(s)
    BY <1>5 DEF HaltInv, JudgedOK, StepsDown
  <2>2. halts' = [halts EXCEPT ![r] = [old EXCEPT !.active = FALSE]]
    BY <1>5, <2>1 DEF OwnerReleases
  <2>3. [old EXCEPT !.active = FALSE] \in HaltRows /\ ~[old EXCEPT !.active = FALSE].active
    BY <1>2 DEF HaltRows
  <2> HIDE DEF r, old, level
  <2> QED BY <1>1, <1>3, <1>5, <2>1, <2>2, <2>3, Zenon DEF r, old, level
<1> QED BY <1>4, <1>5

LEMMA HaltPreserved == HaltInv /\ [HaltNext]_haltVars => HaltInv'
<1> SUFFICES ASSUME HaltInv, [HaltNext]_haltVars PROVE HaltInv'
  OBVIOUS
<1> USE DEF HaltInv
<1>1. ASSUME NEW e \in Evaluator, Judges(e) PROVE HaltInv'
  <2> DEFINE j == JudgedWith(NoJudging, breach)
  <2>1. judging' = [judging EXCEPT ![e] = j] /\ UNCHANGED <<cause, breach, halts, calm>>
    BY <1>1 DEF Judges, JudgedWith
  <2>2. NoJudging.row = 0 /\ NoJudging.level = 0
    BY DEF NoJudging
  <2>3. /\ j \in Judgings /\ j.row = 0 /\ j.level = 0 /\ j.phase = "judged" /\ j.bad = breach
    BY <2>2, NobodyJudges, Judged DEF HaltTypes
  <2>4. ~j.bad => cause = "limit"
    <3>1. ~breach => cause = "limit"
      BY <1>1 DEF Judges
    <3> HIDE DEF j
    <3> QED BY <2>3, <3>1, Zenon
  <2>5. 0 \in 0 .. Len(halts) /\ e \in Sessions
    BY DEF HaltTypes, Sessions
  <2> HIDE DEF j, HaltInv
  <2>6. j.level # 1 /\ j.phase # "asked" /\ (j.row = 0 <=> j.level = 0)
    BY <2>3
  <2> QED BY <2>1, <2>3, <2>4, <2>5, <2>6, SessionMoves
<1>2. ASSUME NEW e \in Evaluator, Looks(e) PROVE HaltInv'
  <2>1. PICK i, level : i = FoundHalt /\ level = IF Active = {} THEN 0 ELSE halts[FoundHalt].level
    OBVIOUS
  <2> DEFINE j == LookedWith(judging[e], "looked", i, level)
  <2>2. judging' = [judging EXCEPT ![e] = j] /\ UNCHANGED <<cause, breach, halts, calm>>
    BY <1>2, <2>1 DEF Looks, LookedWith
  <2>3. e \in Sessions /\ judging[e] \in Judgings /\ judging[e].phase = "judged"
    BY <1>2 DEF HaltTypes, Sessions, Looks
  <2>4. i \in 0 .. Len(halts) /\ i \in Nat /\ level \in 0 .. 4 /\ (i = 0 <=> level = 0)
    BY <2>1, Found DEF HaltTypes
  <2>5. cause = "limit" /\ level = 1 => calm[i]
    BY <2>1, Found DEF CalmOK
  <2>6. j \in Judgings /\ j.row = i /\ j.level = level /\ j.phase = "looked" /\ j.bad = judging[e].bad
    <3>1. "looked" \in {"looked", "asked"}
      OBVIOUS
    <3>2. j \in Judgings
      BY <2>3, <2>4, <3>1, Looked
    <3>3. j.row = i
      BY <2>3, <2>4, Zenon DEF LookedWith, Judgings
    <3>4. j.level = level
      BY <2>3, <2>4, Zenon DEF LookedWith, Judgings
    <3>5. j.phase = "looked"
      BY <2>3, <2>4, Zenon DEF LookedWith, Judgings
    <3>6. j.bad = judging[e].bad
      BY <2>3, <2>4, Zenon DEF LookedWith, Judgings
    <3> QED BY <3>2, <3>3, <3>4, <3>5, <3>6
  <2>7. ~judging[e].bad => cause = "limit"
    BY <2>3 DEF JudgedOK
  <2> HIDE DEF j, HaltInv
  <2> QED BY <2>2, <2>3, <2>4, <2>5, <2>6, <2>7, SessionMoves
<1>3. ASSUME NEW o \in Owner, OwnerLooks(o) PROVE HaltInv'
  <2>1. PICK i, level : i = FoundHalt /\ level = halts[FoundHalt].level
    OBVIOUS
  <2> DEFINE j == LookedWith(NoJudging, "asked", i, level)
  <2>2. judging' = [judging EXCEPT ![o] = j] /\ UNCHANGED <<cause, breach, halts, calm>>
    BY <1>3, <2>1 DEF OwnerLooks, LookedWith
  <2>3. i \in 0 .. Len(halts) /\ i \in Nat /\ i # 0 /\ level \in 0 .. 4 /\ level # 0
    BY <1>3, <2>1, Found DEF OwnerLooks, HaltTypes
  <2>4. cause = "limit" /\ level = 1 => calm[i]
    BY <1>3, <2>1, Found DEF CalmOK, OwnerLooks
  <2>5. j \in Judgings /\ j.row = i /\ j.level = level /\ j.phase = "asked"
    <3>1. "asked" \in {"looked", "asked"}
      OBVIOUS
    <3>2. j \in Judgings
      BY <2>3, <3>1, NobodyJudges, Looked
    <3>3. j.row = i
      BY NobodyJudges DEF LookedWith, Judgings
    <3>4. j.level = level
      BY NobodyJudges DEF LookedWith, Judgings
    <3>5. j.phase = "asked"
      BY NobodyJudges DEF LookedWith, Judgings
    <3> QED BY <3>2, <3>3, <3>4, <3>5
  <2>6. o \in Sessions
    BY DEF Sessions
  <2> HIDE DEF j, HaltInv
  <2> QED BY <2>2, <2>3, <2>4, <2>5, <2>6, SessionMoves
<1>4. ASSUME NEW s \in Sessions, NothingToDo(s) \/ SessionFails(s) PROVE HaltInv'
  BY <1>4, SessionEnds DEF NothingToDo, SessionFails
<1>5. ASSUME NEW s \in Sessions,
             \/ s \in Evaluator /\ StepsDown(s)
             \/ s \in Owner /\ OwnerReleases(s)
      PROVE  HaltInv'
  <2> HIDE DEF HaltInv
  <2>1. PICK h \in HaltRows :
           halts' = [halts EXCEPT ![judging[s].row] = h] /\ (h.active => halts[judging[s].row].active)
    BY <1>5, Lowers
  <2>2. /\ Done(s) /\ UNCHANGED <<cause, breach>> /\ judging[s].row \in 1 .. Len(halts)
        /\ calm' = [calm EXCEPT ![judging[s].row] = TRUE]
    BY <1>5, Lowers
  <2> QED BY <2>1, <2>2, RowLowered
<1>6. CASE Swings
  <2>1. UNCHANGED <<cause, halts, calm, judging>> /\ breach' \in BOOLEAN
    BY <1>6 DEF Swings, HaltTypes
  <2> QED BY <2>1 DEF HaltTypes, OneActive, Active, LookedOK, JudgedOK, CalmOK, WarnedOK
<1>7. CASE UNCHANGED haltVars
  BY <1>7 DEF haltVars, HaltTypes, OneActive, Active, LookedOK, JudgedOK, CalmOK, WarnedOK
<1> HIDE DEF HaltInv
<1> QED BY <1>1, <1>2, <1>3, <1>4, <1>5, <1>6, <1>7, Raises DEF HaltNext, Evaluates, Sessions

LEMMA HaltInvariant == HaltSpec => []HaltInv
<1>1. HaltInit => HaltInv
  <2> SUFFICES ASSUME HaltInit PROVE HaltInv
    OBVIOUS
  <2>1. halts = <<>> /\ calm = <<>> /\ judging = [s \in Sessions |-> NoJudging]
    BY DEF HaltInit, Sessions
  <2>2. HaltTypes
    <3>1. judging \in [Sessions -> Judgings]
      BY <2>1, NobodyJudges
    <3>2. halts \in Seq(HaltRows) /\ calm \in Seq(BOOLEAN) /\ Len(calm) = Len(halts)
      BY <2>1
    <3> QED BY <3>1, <3>2 DEF HaltInit, HaltTypes
  <2>3. OneActive /\ CalmOK
    BY <2>1 DEF OneActive, Active, CalmOK
  <2>4. LookedOK /\ JudgedOK /\ WarnedOK
    BY <2>1 DEF LookedOK, JudgedOK, WarnedOK, NoJudging
  <2> QED BY <2>2, <2>3, <2>4 DEF HaltInv
<1> QED BY <1>1, HaltPreserved, PTL DEF HaltSpec

(* TwoStepsDown: whatever sessions read and wrote in between, one cause    *)
(* has one active row, an evaluation or an Owner releases a limit only     *)
(* after two steps down since it was raised, unless it was raised behind   *)
(* that session's back, and other causes go by an Owner's hand.            *)
THEOREM ReleasedInTwoSteps == HaltSpec => TwoStepsDown
<1> DEFINE Released(i) ==
       \E s \in Evaluator \cup Owner :
          /\ judging[s].row = i /\ judging'[s] = NoJudging
          /\ IF cause = "limit" THEN calm[i] \/ judging[s].stale ELSE s \in Owner
<1> DEFINE Valve == Cardinality(Active') <= 1 /\ \A i \in Active : halts'[i].active \/ Released(i)
<1>1. ASSUME HaltInv, HaltInv', [HaltNext]_haltVars PROVE Valve
  <2>1. Cardinality(Active') <= 1
    <3>1. \A i, k \in Active' : i = k
      BY <1>1 DEF HaltInv, OneActive
    <3>2. Active' = {} \/ \E i : Active' = {i}
      BY <3>1
    <3>3. CASE Active' = {}
      BY <3>3, FS_EmptySet
    <3>4. CASE \E i : Active' = {i}
      <4>1. PICK i : Active' = {i}
        BY <3>4
      <4>2. Cardinality({i}) = 1
        BY FS_Singleton
      <4> QED BY <4>1, <4>2
    <3> QED BY <3>2, <3>3, <3>4
  <2>2. ASSUME NEW i \in Active, ~halts'[i].active PROVE Released(i)
    <3>1. i \in 1 .. Len(halts) /\ halts[i].active
      BY <1>1, Found DEF HaltInv, Active
    <3>2. PICK s \in Sessions :
             \/ s \in Evaluator /\ StepsDown(s)
             \/ s \in Owner /\ OwnerReleases(s)
      <4>1. halts' # halts
        BY <2>2, <3>1
      <4>2. ASSUME NEW e \in Evaluator, Activates(e) PROVE FALSE
        <5>1. halts' = HaltWith(judging[e].row)
          BY <4>2 DEF Activates
        <5>2. CASE judging[e].row = 0
          BY <1>1, <2>2, <3>1, <5>1, <5>2 DEF HaltWith, HaltInv, HaltTypes
        <5>3. CASE judging[e].row # 0
          <6>1. halts' = [halts EXCEPT ![judging[e].row].level = Raised]
            BY <5>1, <5>3 DEF HaltWith
          <6>2. halts[i] \in HaltRows
            BY <1>1, <3>1 DEF HaltInv, HaltTypes
          <6> QED BY <1>1, <2>2, <3>1, <6>1, <6>2 DEF HaltRows, HaltInv, HaltTypes
        <5> QED BY <5>2, <5>3
      <4> QED BY <1>1, <4>1, <4>2 DEF HaltNext, haltVars, Evaluates, Judges, Looks, NothingToDo, OwnerLooks,
                                     SessionFails, Swings, Sessions
    <3>3. PICK h \in HaltRows :
             /\ halts' = [halts EXCEPT ![judging[s].row] = h]
             /\ halts[judging[s].row].active /\ ~h.active
                   => IF cause = "limit" THEN judging[s].level = 1 ELSE s \in Owner
      BY <1>1, <3>2, Lowers
    <3>4. judging[s].row = i /\ ~h.active
      BY <1>1, <2>2, <3>1, <3>3 DEF HaltInv, HaltTypes
    <3>5. cause = "limit" => calm[i] \/ judging[s].stale
      BY <1>1, <3>1, <3>3, <3>4 DEF HaltInv, WarnedOK
    <3>6. judging'[s] = NoJudging
      BY <1>1, <3>2, Lowers DEF Done, HaltInv, HaltTypes
    <3> QED BY <3>1, <3>3, <3>4, <3>5, <3>6 DEF Sessions
  <2> QED BY <2>1, <2>2
<1>2. HaltInv /\ HaltInv' /\ [HaltNext]_haltVars => [Valve]_haltVars
  BY <1>1
<1> QED BY <1>2, HaltInvariant, PTL DEF HaltSpec, TwoStepsDown
-----------------------------------------------------------------------------
(* The watchdogs. What a check has read lies in the past of its items.     *)

Watchings(w) ==
    /\ watch[w] = [phase |-> watch[w].phase, at |-> watch[w].at, stale |-> watch[w].stale]
    /\ watch[w].at \in Nat /\ watch[w].at <= minute
    /\ DOMAIN watch[w].stale \subseteq Item
    /\ watch[w].phase # "idle" => DOMAIN watch[w].stale # {}
    /\ \A i \in DOMAIN watch[w].stale :
          /\ watch[w].stale[i] \in Nat /\ watch[w].stale[i] <= item[i].seen
          /\ watch[w].stale[i] < watch[w].at - StaleAfter

DogTypes ==
    /\ watched \in {"bots", "subscriptions"} /\ minute \in Nat
    /\ item \in [Item -> [state : {"on", "off", "broken"}, seen : Nat]]
    /\ \A i \in Item : item[i].seen <= minute + Ahead
    /\ lastAlert \in Nat \cup {Never}
    /\ told \in [Item -> SUBSET Watcher]
    /\ DOMAIN watch = Watcher /\ \A w \in Watcher : Watchings(w)

(* An item that was named had given its last sign before the last alert.   *)
ToldOK == \A i \in Item : told[i] # {} => lastAlert > item[i].seen

(* An alert is raised for an item that gave its last sign after the last   *)
(* alert of this watcher, or has given another since it was read.          *)
RaisingOK ==
    \A w \in Watcher : watch[w].phase = "raising" =>
        \E i \in DOMAIN watch[w].stale : item[i].seen = watch[w].stale[i] => w \notin told[i]

DogInv == DogTypes /\ ToldOK /\ RaisingOK

LEMMA AheadType == Ahead \in Nat
BY DogAssumption DEF Ahead

(* An item gives a sign of life, or is turned on or off.                   *)
LEMMA ItemMoves ==
    ASSUME DogInv, NEW i \in Item, NEW state \in {"on", "off", "broken"}, NEW at \in Nat,
           Stamped(i, state, at), item[i].seen <= at, at <= minute + Ahead
    PROVE  DogInv'
<1> USE DEF DogInv
<1>1. /\ UNCHANGED <<watched, minute, lastAlert, watch>>
      /\ item' \in [Item -> [state : {"on", "off", "broken"}, seen : Nat]] /\ item'[i].seen = at
      /\ \A k \in Item : k # i => item'[k] = item[k]
  BY DEF Stamped, DogTypes
<1>2. /\ told' \in [Item -> SUBSET Watcher]
      /\ told'[i] = IF at = item[i].seen THEN told[i] ELSE {}
      /\ \A k \in Item : k # i => told'[k] = told[k]
  BY DEF Stamped, DogTypes
<1>3. Ahead' = Ahead /\ Ahead \in Nat
  BY <1>1, AheadType DEF Ahead
<1>4. \A k \in Item : item[k].seen \in Nat /\ item'[k].seen \in Nat /\ item[k].seen <= item'[k].seen
  BY <1>1 DEF DogTypes
<1>5. ASSUME NEW w \in Watcher PROVE Watchings(w)'
  <2>1. Watchings(w)
    BY DEF DogTypes
  <2> QED BY <1>1, <1>4, <2>1 DEF Watchings
<1>6. DogTypes'
  BY <1>1, <1>2, <1>3, <1>5 DEF DogTypes
<1>7. ToldOK'
  BY <1>1, <1>2 DEF ToldOK
<1>8. RaisingOK'
  <2> SUFFICES ASSUME NEW w \in Watcher, watch[w].phase = "raising"
               PROVE  \E k \in DOMAIN watch[w].stale : item'[k].seen = watch[w].stale[k] => w \notin told'[k]
    BY <1>1 DEF RaisingOK
  <2>1. PICK k \in DOMAIN watch[w].stale : item[k].seen = watch[w].stale[k] => w \notin told[k]
    BY DEF RaisingOK
  <2>2. k \in Item /\ watch[w].stale[k] \in Nat /\ watch[w].stale[k] <= item[k].seen
    BY DEF DogTypes, Watchings
  <2> QED BY <1>1, <1>2, <1>4, <2>1, <2>2
<1> QED BY <1>6, <1>7, <1>8

(* A watcher goes on to another phase of its check.                        *)
LEMMA WatchMoves ==
    ASSUME DogInv, NEW w \in Watcher, NEW new, watch' = [watch EXCEPT ![w] = new],
           UNCHANGED <<watched, minute, item, lastAlert, told>>, Watchings(w)',
           new.phase = "raising" =>
              \E i \in DOMAIN new.stale : item[i].seen = new.stale[i] => w \notin told[i]
    PROVE  DogInv'
<1> USE DEF DogInv
<1>1. watch'[w] = new /\ DOMAIN watch' = Watcher /\ \A v \in Watcher : v # w => watch'[v] = watch[v]
  BY DEF DogTypes
<1>2. ASSUME NEW v \in Watcher PROVE Watchings(v)'
  <2>1. Watchings(v)
    BY DEF DogTypes
  <2> QED BY <1>1, <2>1 DEF Watchings
<1>3. DogTypes'
  BY <1>1, <1>2 DEF DogTypes, Ahead
<1>4. ToldOK'
  BY DEF ToldOK
<1>5. RaisingOK'
  BY <1>1 DEF RaisingOK
<1> QED BY <1>3, <1>4, <1>5

LEMMA Nothing ==
    ASSUME DogInv, NEW w \in Watcher, watch'[w] = NoWatch, minute' = minute
    PROVE  Watchings(w)'
<1>1. /\ NoWatch = [phase |-> NoWatch.phase, at |-> NoWatch.at, stale |-> NoWatch.stale]
      /\ NoWatch.phase = "idle" /\ NoWatch.at = 0 /\ DOMAIN NoWatch.stale = {}
  BY DEF NoWatch
<1> QED BY <1>1 DEF DogInv, DogTypes, Watchings

LEMMA CheckStarts ==
    ASSUME DogInv, NEW w \in Watcher, CheckReads(w)
    PROVE  DogInv'
<1> DEFINE seen == [i \in Stalled |-> item[i].seen]
<1> DEFINE new == [phase |-> "read", at |-> minute, stale |-> seen]
<1>1. /\ Stalled # {} /\ watch' = [watch EXCEPT ![w] = new]
      /\ UNCHANGED <<watched, minute, item, lastAlert, told>>
  BY DEF CheckReads
<1>2. /\ DOMAIN seen = Stalled /\ Stalled \subseteq Item
      /\ \A i \in Stalled : /\ seen[i] = item[i].seen /\ seen[i] \in Nat
                            /\ seen[i] < minute - StaleAfter
  BY DEF DogInv, DogTypes, Stalled
<1>3. /\ new.phase = "read" /\ new.at = minute /\ new.stale = seen
      /\ new = [phase |-> new.phase, at |-> new.at, stale |-> new.stale]
  OBVIOUS
<1>4. minute \in Nat /\ DOMAIN watch = Watcher
  BY DEF DogInv, DogTypes
<1> HIDE DEF seen, new
<1>5. Watchings(w)'
  BY <1>1, <1>2, <1>3, <1>4 DEF Watchings
<1> QED BY <1>1, <1>3, <1>5, WatchMoves

(* What is not the outage of the last alert is news to its watcher.        *)
LEMMA CheckGoesOn ==
    ASSUME DogInv, NEW w \in Watcher, CheckDecides(w)
    PROVE  DogInv'
<1>1. watch[w].phase = "read" /\ Watchings(w) /\ UNCHANGED <<watched, minute, item, lastAlert, told>>
  BY DEF CheckDecides, DogInv, DogTypes
<1>2. CASE SameOutage(watch[w].stale)
  <2>1. watch' = [watch EXCEPT ![w] = NoWatch]
    BY <1>2 DEF CheckDecides
  <2>2. watch'[w] = NoWatch
    BY <2>1 DEF DogInv, DogTypes
  <2>3. NoWatch.phase # "raising"
    BY DEF NoWatch
  <2> QED BY <1>1, <2>1, <2>2, <2>3, Nothing, WatchMoves
<1>3. CASE ~SameOutage(watch[w].stale)
  <2> DEFINE new == [phase |-> "raising", at |-> watch[w].at, stale |-> watch[w].stale]
  <2>1. [watch[w] EXCEPT !.phase = "raising"] = new
    BY <1>1 DEF Watchings
  <2>2. watch' = [watch EXCEPT ![w] = new]
    BY <1>3, <2>1 DEF CheckDecides
  <2>3. /\ new.phase = "raising" /\ new.at = watch[w].at /\ new.stale = watch[w].stale
        /\ new = [phase |-> new.phase, at |-> new.at, stale |-> new.stale]
    OBVIOUS
  <2> HIDE DEF new
  <2>4. watch'[w] = new
    BY <2>2 DEF DogInv, DogTypes
  <2>5. Watchings(w)'
    BY <1>1, <2>3, <2>4 DEF Watchings
  <2>6. \E i \in DOMAIN watch[w].stale : item[i].seen = watch[w].stale[i] => w \notin told[i]
    <3>1. CASE lastAlert = Never
      <4>1. PICK i \in DOMAIN watch[w].stale : TRUE
        BY <1>1 DEF Watchings
      <4>2. i \in Item /\ item[i].seen \in Nat
        BY <1>1, <4>1 DEF Watchings, DogInv, DogTypes
      <4> QED BY <3>1, <4>1, <4>2 DEF DogInv, ToldOK, Never
    <3>2. CASE lastAlert # Never
      <4>1. PICK i \in DOMAIN watch[w].stale : ~(watch[w].stale[i] <= lastAlert)
        BY <1>3, <3>2 DEF SameOutage
      <4>2. i \in Item /\ item[i].seen \in Nat /\ lastAlert \in Nat
        BY <1>1, <3>2, <4>1 DEF Watchings, DogInv, DogTypes
      <4> QED BY <4>1, <4>2 DEF DogInv, ToldOK
    <3> QED BY <3>1, <3>2
  <2> QED BY <1>1, <2>2, <2>3, <2>5, <2>6, WatchMoves
<1> QED BY <1>2, <1>3

(* The alert is dated after the last sign of each item that it names.      *)
LEMMA AlertRaised ==
    ASSUME DogInv, NEW w \in Watcher, AlertCommits(w)
    PROVE  DogInv'
<1> USE DEF DogInv
<1> DEFINE named == watch[w].stale
<1>1. /\ watch' = [watch EXCEPT ![w] = NoWatch] /\ UNCHANGED <<watched, minute, item>>
      /\ lastAlert' = IF watch[w].at > lastAlert THEN watch[w].at ELSE lastAlert
      /\ told' = [i \in Item |-> IF i \in DOMAIN named /\ named[i] = item[i].seen
                                 THEN told[i] \cup {w} ELSE told[i]]
  BY DEF AlertCommits
<1>2. Watchings(w) /\ StaleAfter \in Nat
  BY DogAssumption DEF DogTypes
<1>3. /\ watch'[w] = NoWatch /\ DOMAIN watch' = Watcher
      /\ \A v \in Watcher : v # w => watch'[v] = watch[v]
  BY <1>1 DEF DogTypes
<1>4. /\ lastAlert' \in Nat \cup {Never} /\ lastAlert' >= lastAlert /\ lastAlert' >= watch[w].at
  BY <1>1, <1>2 DEF DogTypes, Watchings, Never
<1>5. DogTypes'
  <2>1. ASSUME NEW v \in Watcher PROVE Watchings(v)'
    <3>1. Watchings(v)
      BY DEF DogTypes
    <3> QED BY <1>1, <1>3, <3>1, Nothing DEF Watchings
  <2> QED BY <1>1, <1>3, <1>4, <2>1 DEF DogTypes, Ahead
<1>6. ToldOK'
  <2> SUFFICES ASSUME NEW i \in Item, told'[i] # {} PROVE lastAlert' > item[i].seen
    BY <1>1 DEF ToldOK
  <2>1. item[i].seen \in Nat /\ lastAlert \in Int /\ lastAlert' \in Int /\ watch[w].at \in Nat
    BY <1>2, <1>4 DEF DogTypes, Watchings, Never
  <2>2. CASE i \in DOMAIN named /\ named[i] = item[i].seen
    BY <1>2, <1>4, <2>1, <2>2 DEF Watchings
  <2>3. CASE ~(i \in DOMAIN named /\ named[i] = item[i].seen)
    BY <1>1, <1>4, <2>1, <2>3 DEF ToldOK
  <2> QED BY <2>2, <2>3
<1>7. RaisingOK'
  <2> SUFFICES ASSUME NEW v \in Watcher, watch'[v].phase = "raising"
               PROVE  \E i \in DOMAIN watch'[v].stale : item'[i].seen = watch'[v].stale[i] => v \notin told'[i]
    BY DEF RaisingOK
  <2>1. v # w /\ watch'[v] = watch[v]
    BY <1>3 DEF NoWatch
  <2>2. PICK i \in DOMAIN watch[v].stale : item[i].seen = watch[v].stale[i] => v \notin told[i]
    BY <2>1 DEF RaisingOK
  <2>3. i \in Item
    BY DEF DogTypes, Watchings
  <2> QED BY <1>1, <2>1, <2>2, <2>3
<1> QED BY <1>5, <1>6, <1>7

LEMMA DogPreserved == DogInv /\ [DogNext]_dogVars => DogInv'
<1> SUFFICES ASSUME DogInv, [DogNext]_dogVars PROVE DogInv'
  OBVIOUS
<1>1. /\ minute \in Nat /\ minute + Ahead \in Nat /\ minute <= minute + Ahead
      /\ watched = "bots" => Ahead = 0
  BY AheadType DEF DogInv, DogTypes, Ahead
<1>2. ASSUME NEW i \in Item PROVE item[i].seen \in Nat /\ item[i].seen <= minute + Ahead
  BY DEF DogInv, DogTypes
<1>3. ASSUME NEW i \in Item, Attempted(i) \/ Broken(i) \/ TurnedOn(i) \/ TurnedOff(i) PROVE DogInv'
  <2>1. CASE Attempted(i) \/ Broken(i)
    BY <1>1, <1>2, <2>1, ItemMoves DEF Attempted, Broken
  <2>2. CASE TurnedOn(i) /\ watched = "bots"
    <3>1. Stamped(i, "on", minute)
      BY <2>2 DEF TurnedOn
    <3>2. item[i].seen <= minute
      BY <1>1, <1>2, <2>2
    <3> QED BY <1>1, <3>1, <3>2, ItemMoves
  <2>3. CASE (TurnedOn(i) /\ watched # "bots") \/ TurnedOff(i)
    <3>1. PICK state \in {"on", "off"} : Stamped(i, state, item[i].seen)
      BY <2>3 DEF TurnedOn, TurnedOff
    <3> QED BY <1>2, <3>1, ItemMoves
  <2> QED BY <1>3, <2>1, <2>2, <2>3
<1>4. ASSUME NEW w \in Watcher, CheckFails(w) PROVE DogInv'
  <2>1. watch' = [watch EXCEPT ![w] = NoWatch] /\ UNCHANGED <<watched, minute, item, lastAlert, told>>
    BY <1>4 DEF CheckFails
  <2>2. watch'[w] = NoWatch /\ NoWatch.phase # "raising"
    BY <2>1 DEF DogInv, DogTypes, NoWatch
  <2> QED BY <2>1, <2>2, Nothing, WatchMoves
<1>5. CASE MinutePasses \/ UNCHANGED dogVars
  <2>1. /\ UNCHANGED <<watched, item, lastAlert, watch, told>>
        /\ minute' = minute \/ minute' = minute + 1
    BY <1>5 DEF MinutePasses, dogVars
  <2>2. ASSUME NEW w \in Watcher PROVE Watchings(w)'
    BY <1>1, <2>1 DEF DogInv, DogTypes, Watchings
  <2>3. Ahead' = Ahead
    BY <2>1 DEF Ahead
  <2>4. \A i \in Item : item[i].seen <= minute' + Ahead
    BY <1>1, <1>2, <2>1, AheadType
  <2>5. DogTypes'
    BY <2>1, <2>2, <2>3, <2>4 DEF DogInv, DogTypes
  <2>6. ToldOK' /\ RaisingOK'
    BY <2>1 DEF DogInv, ToldOK, RaisingOK
  <2> QED BY <2>5, <2>6 DEF DogInv
<1> QED BY <1>3, <1>4, <1>5, CheckStarts, CheckGoesOn, AlertRaised DEF DogNext, DogUndisturbed

LEMMA DogInvariant == DogSpec => []DogInv
<1>1. DogInit => DogInv
  <2> SUFFICES ASSUME DogInit PROVE DogInv
    OBVIOUS
  <2>1. ASSUME NEW w \in Watcher PROVE watch[w] = NoWatch /\ minute = 0
    BY DEF DogInit
  <2>2. ASSUME NEW w \in Watcher PROVE Watchings(w)
    <3>1. /\ NoWatch = [phase |-> NoWatch.phase, at |-> NoWatch.at, stale |-> NoWatch.stale]
          /\ NoWatch.phase = "idle" /\ NoWatch.at = 0 /\ DOMAIN NoWatch.stale = {}
      BY DEF NoWatch
    <3> QED BY <2>1, <3>1 DEF Watchings
  <2>3. DogTypes
    BY <2>2, AheadType DEF DogInit, DogTypes
  <2>4. ToldOK /\ RaisingOK
    BY <2>1 DEF DogInit, ToldOK, RaisingOK, NoWatch
  <2> QED BY <2>3, <2>4 DEF DogInv
<1> QED BY <1>1, DogPreserved, PTL DEF DogSpec

(* AlertsAreNews: however many workers watch, an alert names an item that  *)
(* its watcher did not name since the item's last sign of life, and the    *)
(* status page shows what it tells unless every item of it has moved.      *)
THEOREM AlertsTellNews == DogSpec => AlertsAreNews
<1> DEFINE News ==
       \A w \in Watcher : AlertCommits(w) =>
          /\ PageAgrees(w)
          /\ \E i \in DOMAIN watch[w].stale : item[i].seen = watch[w].stale[i] => w \notin told[i]
<1>1. ASSUME DogInv PROVE News
  <2> SUFFICES ASSUME NEW w \in Watcher, watch[w].phase = "raising"
               PROVE  /\ PageAgrees(w)
                      /\ \E i \in DOMAIN watch[w].stale :
                            item[i].seen = watch[w].stale[i] => w \notin told[i]
    BY DEF AlertCommits
  <2>1. Watchings(w) /\ minute \in Nat /\ StaleAfter \in Nat
    BY <1>1, DogAssumption DEF DogInv, DogTypes
  <2>2. ASSUME NEW i \in DOMAIN watch[w].stale, item[i].state # "off", item[i].seen = watch[w].stale[i]
        PROVE  Attention
    <3>1. i \in Item /\ item[i].state \in {"on", "broken"} /\ item[i].seen \in Nat
      BY <1>1, <2>1, <2>2 DEF Watchings, DogInv, DogTypes
    <3>2. item[i].seen < minute - StaleAfter
      BY <2>1, <2>2, <3>1 DEF Watchings
    <3>3. CASE item[i].state = "on"
      BY <3>1, <3>2, <3>3 DEF Attention, Status, Stalled
    <3>4. CASE item[i].state = "broken"
      BY <3>1, <3>4 DEF Attention
    <3> QED BY <3>1, <3>3, <3>4
  <2>3. PageAgrees(w)
    BY <2>2 DEF PageAgrees
  <2> QED BY <1>1, <2>3 DEF DogInv, RaisingOK
<1>2. DogInv /\ [DogNext]_dogVars => [News]_dogVars
  BY <1>1
<1> QED BY <1>2, DogInvariant, PTL DEF DogSpec, AlertsAreNews
-----------------------------------------------------------------------------

(* What a transaction has begun, tried and left is of its batch.           *)
SettledTransaction ==
    {t \in Transaction :
        /\ t.left \subseteq t.batch
        /\ t.event # None => t.event \in t.batch \ t.left
        /\ t.todo # {} => t.event # None
        /\ \A n \in t.sent \cup t.unsent : n[1] \in t.batch \ t.left}

WorkersOK == worker \in [Worker -> Transaction] /\ \A w \in Worker : worker[w] \in SettledTransaction

(* The rows a transaction holds wait for it, and for it alone.             *)
LocksOK ==
    /\ \A w \in Worker : \A e \in worker[w].batch : outbox[e].status = "pending"
    /\ \A v, w \in Worker : v # w => worker[v].batch \cap worker[w].batch = {}

OutboxOK ==
    /\ outbox \in [Event -> OutboxRow]
    /\ \A e \in Event : outbox[e].status = "pending" => outbox[e].attempts < MaxAttempts

RestOK ==
    /\ note \in [Event \X Recipient -> {"none", "failed", "sent", "acknowledged"}]
    /\ members \subseteq Person
    /\ owed \in [Event -> SUBSET Person]

(* An event is owed to people who are members all the time since.          *)
MembersOwed == \A e \in Event : owed[e] \subseteq members

(* What a transaction tried was not received before.                       *)
TriedOK == \A w \in Worker : \A n \in Tried(w) : ~HasIt(n)

(* Someone an event is owed to has it, or was tried, or is about to be.    *)
Covered(w, e, r) ==
    \/ HasIt(<<e, r>>)
    \/ <<e, r>> \in Tried(w)
    \/ e = worker[w].event /\ r \in worker[w].todo

CoveredOK ==
    \A w \in Worker : \A e \in worker[w].batch \ worker[w].left :
        \A p \in owed[e], c \in Channel : Covered(w, e, <<p, c>>)

IInv == /\ WorkersOK /\ LocksOK /\ OutboxOK /\ RestOK /\ TriedOK /\ CoveredOK
        /\ PublishedReachesAll /\ FailedIsAnnounced /\ MembersOwed
-----------------------------------------------------------------------------
LEMMA NoTransactionSettled == NoTransaction \in SettledTransaction
BY DEF NoTransaction, SettledTransaction, Transaction

(* One transaction gives way to another.                                   *)
LEMMA WorkerReplaced ==
    ASSUME WorkersOK, NEW w \in Worker, NEW t \in SettledTransaction,
           worker' = [worker EXCEPT ![w] = t]
    PROVE  WorkersOK' /\ worker'[w] = t /\ \A v \in Worker \ {w} : worker'[v] = worker[v]
<1>1. t \in Transaction
  BY DEF SettledTransaction
<1>2. worker' \in [Worker -> Transaction]
  BY <1>1 DEF WorkersOK
<1>3. worker'[w] = t /\ \A v \in Worker \ {w} : worker'[v] = worker[v]
  BY DEF WorkersOK
<1>4. ASSUME NEW v \in Worker PROVE worker'[v] \in SettledTransaction
  BY <1>3 DEF WorkersOK
<1> QED BY <1>2, <1>3, <1>4 DEF WorkersOK

(* A step of a worker that writes no row: what it holds, tried and covers  *)
(* must stay right.                                                        *)
LEMMA WorkerOnly ==
    ASSUME IInv, NEW w \in Worker, NEW t \in SettledTransaction,
           worker' = [worker EXCEPT ![w] = t], UNCHANGED <<outbox, note, members, owed>>,
           \A e \in t.batch : outbox[e].status = "pending",
           \A v \in Worker \ {w} : worker[v].batch \cap t.batch = {},
           \A n \in t.sent \cup t.unsent : ~HasIt(n),
           \A e \in t.batch \ t.left : \A p \in owed[e], c \in Channel :
               \/ HasIt(<<e, <<p, c>>>>)
               \/ <<e, <<p, c>>>> \in t.sent \cup t.unsent
               \/ e = t.event /\ <<p, c>> \in t.todo
    PROVE  IInv'
<1>1. WorkersOK' /\ worker'[w] = t /\ \A v \in Worker \ {w} : worker'[v] = worker[v]
  BY WorkerReplaced DEF IInv
<1>2. OutboxOK' /\ RestOK' /\ PublishedReachesAll' /\ FailedIsAnnounced' /\ MembersOwed'
  BY DEF IInv, MembersOwed, OutboxOK, RestOK, PublishedReachesAll, FailedIsAnnounced, HasIt
<1>3. \A n : HasIt(n)' = HasIt(n)
  BY DEF HasIt
<1>4. LocksOK'
  BY <1>1 DEF IInv, LocksOK
<1>5. TriedOK'
  BY <1>1, <1>3 DEF IInv, TriedOK, Tried
<1>6. CoveredOK'
  <2> SUFFICES ASSUME NEW v \in Worker, NEW e \in worker'[v].batch \ worker'[v].left,
                      NEW p \in owed[e], NEW c \in Channel
               PROVE  Covered(v, e, <<p, c>>)'
    BY DEF CoveredOK
  <2>1. CASE v = w
    BY <1>1, <1>3, <2>1 DEF Covered, Tried
  <2>2. CASE v # w
    <3>1. Covered(v, e, <<p, c>>)
      BY <1>1, <2>2 DEF IInv, CoveredOK
    <3> QED BY <1>1, <1>3, <2>2, <3>1 DEF Covered, Tried
  <2> QED BY <2>1, <2>2
<1> QED BY <1>1, <1>2, <1>4, <1>5, <1>6 DEF IInv

(* claim_pending_outbox_events takes pending rows that nobody holds.       *)
LEMMA ClaimStep ==
    ASSUME IInv, NEW w \in Worker, Claim(w)
    PROVE  IInv'
<1>1. PICK batch \in SUBSET Free \ {{}} :
        worker' = [worker EXCEPT ![w] = [NoTransaction EXCEPT !.batch = batch, !.left = batch]]
  BY DEF Claim
<1> DEFINE t == [NoTransaction EXCEPT !.batch = batch, !.left = batch]
<1>2. batch \subseteq Event
  BY DEF Free, Due
<1>3. t.batch = batch /\ t.left = batch /\ t.event = None /\ t.todo = {} /\ t.sent = {} /\ t.unsent = {}
  BY DEF NoTransaction
<1>4. t \in SettledTransaction
  <2>1. t \in Transaction
    BY <1>2 DEF NoTransaction, Transaction
  <2> HIDE DEF t
  <2> QED BY <1>3, <2>1 DEF SettledTransaction
<1>5. /\ \A e \in batch : outbox[e].status = "pending"
      /\ \A v \in Worker \ {w} : worker[v].batch \cap batch = {}
  BY DEF Free, Due, Locked
<1>6. UNCHANGED <<outbox, note, members, owed>>
  BY DEF Claim
<1> HIDE DEF t
<1> QED BY <1>1, <1>3, <1>4, <1>5, <1>6, WorkerOnly DEF t

LEMMA BeginEventStep ==
    ASSUME IInv, NEW w \in Worker, BeginEvent(w)
    PROVE  IInv'
<1>1. PICK e \in worker[w].left :
        worker' = [worker EXCEPT ![w] = [worker[w] EXCEPT
                      !.event = e, !.left = worker[w].left \ {e}, !.todo = members \X Channel]]
  BY DEF BeginEvent
<1> DEFINE t == [worker[w] EXCEPT
                    !.event = e, !.left = worker[w].left \ {e}, !.todo = members \X Channel]
<1>2. worker[w] \in SettledTransaction /\ worker[w] \in Transaction
  BY DEF IInv, WorkersOK
<1>3. /\ t.batch = worker[w].batch /\ t.left = worker[w].left \ {e} /\ t.event = e
      /\ t.todo = members \X Channel /\ t.sent = worker[w].sent /\ t.unsent = worker[w].unsent
  BY <1>2 DEF Transaction
<1>4. members \X Channel \subseteq Recipient
  BY DEF IInv, RestOK, Recipient
<1>5. t \in SettledTransaction
  <2>1. e \in worker[w].batch /\ e \in Event /\ e # None
    BY <1>2, ConstantsAssumption DEF SettledTransaction, Transaction, Event
  <2>2. t \in Transaction
    BY <1>2, <1>4, <2>1 DEF Transaction
  <2> HIDE DEF t
  <2>3. t.left \subseteq t.batch /\ e \in t.batch \ t.left
    BY <1>2, <1>3, <2>1 DEF SettledTransaction
  <2>4. \A n \in t.sent \cup t.unsent : n[1] \in t.batch \ t.left
    BY <1>2, <1>3 DEF SettledTransaction
  <2> QED BY <1>3, <2>1, <2>2, <2>3, <2>4 DEF SettledTransaction
<1>6. UNCHANGED <<outbox, note, members, owed>>
  BY DEF BeginEvent
<1>7. /\ \A x \in t.batch : outbox[x].status = "pending"
      /\ \A v \in Worker \ {w} : worker[v].batch \cap t.batch = {}
      /\ \A n \in t.sent \cup t.unsent : ~HasIt(n)
  BY <1>3 DEF IInv, LocksOK, TriedOK, Tried
<1>8. ASSUME NEW x \in t.batch \ t.left, NEW p \in owed[x], NEW c \in Channel
      PROVE  \/ HasIt(<<x, <<p, c>>>>)
             \/ <<x, <<p, c>>>> \in t.sent \cup t.unsent
             \/ x = t.event /\ <<p, c>> \in t.todo
  <2>1. CASE x = e
    <3>1. p \in members
      BY <1>2, <2>1 DEF IInv, MembersOwed, SettledTransaction, Transaction
    <3> QED BY <1>3, <2>1, <3>1
  <2>2. CASE x # e
    <3>1. x \in worker[w].batch \ worker[w].left
      BY <1>3, <2>2
    <3>2. Covered(w, x, <<p, c>>)
      BY <3>1 DEF IInv, CoveredOK
    <3>3. worker[w].todo = {}
      BY DEF BeginEvent
    <3> QED BY <1>3, <3>2, <3>3 DEF Covered, Tried
  <2> QED BY <2>1, <2>2
<1> HIDE DEF t
<1> QED BY <1>1, <1>5, <1>6, <1>7, <1>8, WorkerOnly DEF t

(* A recipient that was skipped has it, and one that was tried is          *)
(* remembered.                                                             *)
LEMMA RecipientStep ==
    ASSUME IInv, NEW w \in Worker, NEW r \in worker[w].todo,
           Skip(w, r) \/ SendReturns(w, r) \/ SendFails(w, r)
    PROVE  IInv'
<1> DEFINE n == <<worker[w].event, r>>
<1>1. worker[w] \in SettledTransaction /\ worker[w] \in Transaction
  BY DEF IInv, WorkersOK
<1>2. n \in Event \X Recipient /\ n[1] \in worker[w].batch \ worker[w].left
  BY <1>1 DEF SettledTransaction, Transaction
<1> HIDE DEF n
<1>3. PICK sent \in SUBSET (Event \X Recipient), unsent \in SUBSET (Event \X Recipient) :
        /\ worker' = [worker EXCEPT ![w] = [worker[w] EXCEPT
               !.todo = worker[w].todo \ {r}, !.sent = sent, !.unsent = unsent]]
        /\ Tried(w) \subseteq sent \cup unsent /\ sent \cup unsent \subseteq Tried(w) \cup {n}
        /\ HasIt(n) \/ n \in sent \cup unsent
        /\ HasIt(n) => sent \cup unsent = Tried(w)
  <2>1. CASE Skip(w, r)
    <3>1. worker' = [worker EXCEPT ![w] = [worker[w] EXCEPT
               !.todo = worker[w].todo \ {r}, !.sent = worker[w].sent, !.unsent = worker[w].unsent]]
      BY <1>1, <2>1 DEF Skip, Transaction
    <3> QED BY <1>1, <2>1, <3>1 DEF Skip, Tried, n, Transaction
  <2>2. CASE SendReturns(w, r)
    <3>1. worker' = [worker EXCEPT ![w] = [worker[w] EXCEPT
               !.todo = worker[w].todo \ {r}, !.sent = worker[w].sent \cup {n},
               !.unsent = worker[w].unsent]]
      BY <1>1, <2>2 DEF SendReturns, Transaction, n
    <3>2. worker[w].sent \cup {n} \in SUBSET (Event \X Recipient)
      BY <1>1, <1>2 DEF Transaction
    <3>3. worker[w].unsent \in SUBSET (Event \X Recipient) /\ ~HasIt(n)
      BY <1>1, <2>2 DEF SendReturns, n, Transaction
    <3> DEFINE sent == worker[w].sent \cup {n}
               unsent == worker[w].unsent
    <3>4. sent \cup unsent = Tried(w) \cup {n} /\ n \in sent \cup unsent
      BY DEF Tried
    <3>5. sent \in SUBSET (Event \X Recipient) /\ unsent \in SUBSET (Event \X Recipient)
      BY <3>2, <3>3
    <3>6. worker' = [worker EXCEPT ![w] = [worker[w] EXCEPT
               !.todo = worker[w].todo \ {r}, !.sent = sent, !.unsent = unsent]]
      BY <3>1
    <3> HIDE DEF sent, unsent
    <3> QED BY <3>3, <3>4, <3>5, <3>6
  <2>3. CASE SendFails(w, r)
    <3>1. worker' = [worker EXCEPT ![w] = [worker[w] EXCEPT
               !.todo = worker[w].todo \ {r}, !.sent = worker[w].sent,
               !.unsent = worker[w].unsent \cup {n}]]
      BY <1>1, <2>3 DEF SendFails, Transaction, n
    <3>2. worker[w].unsent \cup {n} \in SUBSET (Event \X Recipient)
      BY <1>1, <1>2 DEF Transaction
    <3>3. worker[w].sent \in SUBSET (Event \X Recipient) /\ ~HasIt(n)
      BY <1>1, <2>3 DEF SendFails, n, Transaction
    <3> DEFINE sent == worker[w].sent
               unsent == worker[w].unsent \cup {n}
    <3>4. sent \cup unsent = Tried(w) \cup {n} /\ n \in sent \cup unsent
      BY DEF Tried
    <3>5. sent \in SUBSET (Event \X Recipient) /\ unsent \in SUBSET (Event \X Recipient)
      BY <3>2, <3>3
    <3>6. worker' = [worker EXCEPT ![w] = [worker[w] EXCEPT
               !.todo = worker[w].todo \ {r}, !.sent = sent, !.unsent = unsent]]
      BY <3>1
    <3> HIDE DEF sent, unsent
    <3> QED BY <3>3, <3>4, <3>5, <3>6
  <2> QED BY <2>1, <2>2, <2>3
<1> DEFINE t == [worker[w] EXCEPT !.todo = worker[w].todo \ {r}, !.sent = sent, !.unsent = unsent]
<1>4. /\ t.batch = worker[w].batch /\ t.left = worker[w].left /\ t.event = worker[w].event
      /\ t.todo = worker[w].todo \ {r} /\ t.sent = sent /\ t.unsent = unsent
  BY <1>1 DEF Transaction
<1>5. t \in Transaction
  BY <1>1, <1>3 DEF Transaction
<1> HIDE DEF t
<1>6. t \in SettledTransaction
  BY <1>1, <1>2, <1>3, <1>4, <1>5 DEF SettledTransaction, Tried
<1>7. UNCHANGED <<outbox, note, members, owed>>
  BY DEF Skip, SendReturns, SendFails
<1>8. /\ \A x \in t.batch : outbox[x].status = "pending"
      /\ \A v \in Worker \ {w} : worker[v].batch \cap t.batch = {}
  BY <1>4 DEF IInv, LocksOK
<1>9. \A m \in t.sent \cup t.unsent : ~HasIt(m)
  BY <1>3, <1>4 DEF IInv, TriedOK
<1>10. ASSUME NEW x \in t.batch \ t.left, NEW p \in owed[x], NEW c \in Channel
       PROVE  \/ HasIt(<<x, <<p, c>>>>)
              \/ <<x, <<p, c>>>> \in t.sent \cup t.unsent
              \/ x = t.event /\ <<p, c>> \in t.todo
  <2>1. Covered(w, x, <<p, c>>)
    BY <1>4 DEF IInv, CoveredOK
  <2>2. CASE x = worker[w].event /\ <<p, c>> = r
    BY <1>3, <1>4, <2>2 DEF n
  <2> QED BY <1>3, <1>4, <2>1, <2>2 DEF Covered
<1> QED BY <1>3, <1>6, <1>7, <1>8, <1>9, <1>10, WorkerOnly DEF t

(* A rollback leaves nothing behind but what was sent.                     *)
LEMMA RollBackStep ==
    ASSUME IInv, NEW w \in Worker, RollBack(w)
    PROVE  IInv'
<1>1. /\ NoTransaction.batch = {} /\ NoTransaction.left = {}
      /\ NoTransaction.sent = {} /\ NoTransaction.unsent = {}
  BY DEF NoTransaction
<1>2. worker' = [worker EXCEPT ![w] = NoTransaction] /\ UNCHANGED <<outbox, note, members, owed>>
  BY DEF RollBack
<1> QED BY <1>1, <1>2, NoTransactionSettled, WorkerOnly
-----------------------------------------------------------------------------
(* What a delivery leaves of a row it had locked.                          *)
LEMMA AfterDeliveryType ==
    ASSUME OutboxOK, NEW w \in Worker, NEW e \in Event, outbox[e].status = "pending"
    PROVE  /\ AfterDelivery(w, e) \in OutboxRow
           /\ AfterDelivery(w, e).status = "pending" => AfterDelivery(w, e).attempts < MaxAttempts
           /\ AfterDelivery(w, e).status = "published" => ~AnyFailed(w, e)
           /\ AfterDelivery(w, e).status = "failed" => GivesUp(w, e)
           /\ GivesUp(w, e) => AfterDelivery(w, e).status = "failed"
           /\ AfterDelivery(w, e).status # "none"
<1> DEFINE attempts == outbox[e].attempts + 1
           backoff == Backoff[attempts]
<1>1. outbox[e] \in OutboxRow /\ attempts \in 1 .. MaxAttempts /\ MaxAttempts \in Nat
  BY ConstantsAssumption DEF OutboxOK, OutboxRow
<1>2. backoff \in Nat
  BY <1>1, ConstantsAssumption
<1>6. attempts \in 0 .. MaxAttempts
  BY <1>1
<1>7. ASSUME NEW a \in 0 .. MaxAttempts
      PROVE  /\ [outbox[e] EXCEPT !.status = "failed", !.attempts = a] \in OutboxRow
             /\ [outbox[e] EXCEPT !.status = "failed", !.attempts = a].status = "failed"
  BY <1>1 DEF OutboxRow
<1>8. ASSUME NEW a \in 0 .. MaxAttempts, NEW b \in Nat
      PROVE  /\ [outbox[e] EXCEPT !.attempts = a, !.delay = b] \in OutboxRow
             /\ [outbox[e] EXCEPT !.attempts = a, !.delay = b].status = "pending"
             /\ [outbox[e] EXCEPT !.attempts = a, !.delay = b].attempts = a
  BY <1>1 DEF OutboxRow
<1> HIDE DEF attempts, backoff
<1>3. CASE ~AnyFailed(w, e)
  <2>1. AfterDelivery(w, e) = [outbox[e] EXCEPT !.status = "published"]
    BY <1>3 DEF AfterDelivery
  <2> QED BY <1>1, <1>3, <2>1 DEF OutboxRow, GivesUp
<1>4. CASE GivesUp(w, e)
  <2>1. AfterDelivery(w, e) = [outbox[e] EXCEPT !.status = "failed", !.attempts = attempts]
    BY <1>4 DEF AfterDelivery, GivesUp, attempts
  <2>2. AnyFailed(w, e)
    BY <1>4 DEF GivesUp
  <2>3. /\ AfterDelivery(w, e) \in OutboxRow /\ AfterDelivery(w, e).status = "failed"
    BY <1>6, <1>7, <2>1
  <2> QED BY <1>4, <2>2, <2>3
<1>5. CASE AnyFailed(w, e) /\ ~GivesUp(w, e)
  <2>1. AfterDelivery(w, e) = [outbox[e] EXCEPT !.attempts = attempts, !.delay = backoff]
    BY <1>5 DEF AfterDelivery, attempts, backoff
  <2>2. attempts < MaxAttempts
    BY <1>1, <1>5 DEF GivesUp, attempts
  <2>3. /\ AfterDelivery(w, e) \in OutboxRow /\ AfterDelivery(w, e).status = "pending"
        /\ AfterDelivery(w, e).attempts < MaxAttempts
    <3>1. /\ [outbox[e] EXCEPT !.attempts = attempts, !.delay = backoff] \in OutboxRow
          /\ [outbox[e] EXCEPT !.attempts = attempts, !.delay = backoff].status = "pending"
          /\ [outbox[e] EXCEPT !.attempts = attempts, !.delay = backoff].attempts = attempts
      BY <1>2, <1>6, <1>8, Zenon
    <3> QED BY <2>1, <2>2, <3>1
  <2> QED BY <1>5, <2>3
<1> QED BY <1>3, <1>4, <1>5

(* The commit of a batch: it writes the rows it had locked and the notices *)
(* of those it gave up, and everyone they are owed to was tried or had it. *)
LEMMA CommitStep ==
    ASSUME IInv, NEW w \in Worker, Commit(w)
    PROVE  IInv'
<1> DEFINE batch == worker[w].batch
<1>1. /\ WorkersOK /\ LocksOK /\ OutboxOK /\ RestOK /\ TriedOK /\ CoveredOK
      /\ PublishedReachesAll /\ FailedIsAnnounced /\ MembersOwed
  BY DEF IInv
<1>2. /\ worker[w].left = {} /\ worker[w].todo = {}
      /\ worker' = [worker EXCEPT ![w] = NoTransaction] /\ members' = members
  BY DEF Commit
<1>3. worker[w] \in SettledTransaction /\ worker[w] \in Transaction /\ batch \subseteq Event
  BY <1>1 DEF WorkersOK, Transaction
<1>4. /\ WorkersOK' /\ worker'[w] = NoTransaction
      /\ \A v \in Worker \ {w} : worker'[v] = worker[v]
  BY <1>1, <1>2, NoTransactionSettled, WorkerReplaced
<1>5. ASSUME NEW e \in Event
      PROVE  /\ e \in batch => outbox'[e] = AfterDelivery(w, e)
             /\ e \notin batch /\ e \in Announced(w) => outbox'[e] = NewRow
             /\ e \notin batch /\ e \notin Announced(w) => outbox'[e] = outbox[e]
             /\ e \in Announced(w) => owed'[e] = members
             /\ e \notin Announced(w) => owed'[e] = owed[e]
  BY DEF Commit
<1>6. ASSUME NEW n \in Event \X Recipient
      PROVE  /\ n \in worker[w].sent => HasIt(n)'
             /\ n \notin Tried(w) => note'[n] = note[n]
             /\ note'[n] \in {"sent", "failed", note[n]}
             /\ HasIt(n) => HasIt(n)'
             /\ HasIt(n)' => HasIt(n) \/ n \in Tried(w)
  BY <1>1 DEF Commit, HasIt, Tried, TriedOK
<1>7. ASSUME NEW e \in batch PROVE outbox[e].status = "pending"
  BY <1>1 DEF LocksOK
<1>8. ASSUME NEW e \in batch
      PROVE  /\ AfterDelivery(w, e) \in OutboxRow
             /\ AfterDelivery(w, e).status = "pending" => AfterDelivery(w, e).attempts < MaxAttempts
             /\ AfterDelivery(w, e).status = "published" => ~AnyFailed(w, e)
             /\ AfterDelivery(w, e).status = "failed" => GivesUp(w, e)
             /\ GivesUp(w, e) => AfterDelivery(w, e).status = "failed"
             /\ AfterDelivery(w, e).status # "none"
  BY <1>1, <1>3, <1>7, AfterDeliveryType
<1>9. NewRow \in OutboxRow /\ NewRow.status = "pending" /\ NewRow.attempts < MaxAttempts
  BY ConstantsAssumption DEF NewRow, OutboxRow
<1> HIDE DEF batch
<1>10. OutboxOK'
  <2>1. outbox' = [e \in Event |-> outbox'[e]]
    BY DEF Commit
  <2>2. ASSUME NEW e \in Event
        PROVE  /\ outbox'[e] \in OutboxRow
               /\ outbox'[e].status = "pending" => outbox'[e].attempts < MaxAttempts
    BY <1>1, <1>5, <1>8, <1>9 DEF OutboxOK
  <2> QED BY <2>1, <2>2 DEF OutboxOK
<1>11. ASSUME NEW e \in Event, e \in Announced(w)
       PROVE  e \notin batch /\ outbox[e].status = "none" /\ \A v \in Worker : e \notin worker[v].batch
  <2>1. PICK s \in Subject : e = Notice(s) /\ Original(s) \in batch
    BY <1>11 DEF Announced, batch
  <2>2. outbox[e].status = "none"
    BY <1>1, <1>7, <2>1 DEF FailedIsAnnounced
  <2> QED BY <1>1, <1>7, <2>2 DEF LocksOK
<1>12. RestOK' /\ MembersOwed'
  <2>1. note' = [n \in Event \X Recipient |-> note'[n]] /\ owed' = [e \in Event |-> owed'[e]]
    BY DEF Commit
  <2>2. ASSUME NEW n \in Event \X Recipient
        PROVE  note'[n] \in {"none", "failed", "sent", "acknowledged"}
    BY <1>1, <1>6 DEF RestOK
  <2>3. ASSUME NEW e \in Event PROVE owed'[e] \in SUBSET Person /\ owed'[e] \subseteq members
    BY <1>1, <1>5 DEF RestOK, MembersOwed
  <2> QED BY <1>1, <1>2, <2>1, <2>2, <2>3 DEF RestOK, MembersOwed
<1>13. ASSUME NEW v \in Worker \ {w}, NEW e \in worker[v].batch
       PROVE  outbox'[e] = outbox[e] /\ owed'[e] = owed[e] /\ e \notin batch /\ e \in Event
  <2>1. e \in Event /\ e \notin batch
    BY <1>1 DEF WorkersOK, Transaction, LocksOK, batch
  <2>2. e \notin Announced(w)
    BY <1>11, <2>1
  <2> QED BY <1>5, <2>1, <2>2
<1>14. NoTransaction.batch = {} /\ NoTransaction.sent = {} /\ NoTransaction.unsent = {}
  BY DEF NoTransaction
<1>15. LocksOK'
  BY <1>1, <1>4, <1>13, <1>14 DEF LocksOK
<1>16. ASSUME NEW v \in Worker \ {w}, NEW n \in Tried(v) PROVE n \in Event \X Recipient /\ n \notin Tried(w) /\ n[1] \in worker[v].batch
  <2>1. worker[v] \in SettledTransaction /\ worker[v] \in Transaction
    BY <1>1 DEF WorkersOK
  <2>2. n \in Event \X Recipient /\ n[1] \in worker[v].batch
    BY <2>1 DEF SettledTransaction, Transaction, Tried
  <2>3. n[1] \notin batch
    BY <1>13, <2>2
  <2> QED BY <1>3, <2>2, <2>3 DEF SettledTransaction, Tried, batch
<1>17. TriedOK'
  <2> SUFFICES ASSUME NEW v \in Worker, NEW n \in Tried(v)' PROVE ~HasIt(n)'
    BY DEF TriedOK
  <2>1. v # w /\ n \in Tried(v)
    BY <1>4, <1>14 DEF Tried
  <2> QED BY <1>1, <1>6, <1>16, <2>1 DEF TriedOK
<1>18. CoveredOK'
  <2> SUFFICES ASSUME NEW v \in Worker, NEW e \in worker'[v].batch \ worker'[v].left,
                      NEW p \in owed'[e], NEW c \in Channel
               PROVE  Covered(v, e, <<p, c>>)'
    BY DEF CoveredOK
  <2>1. v # w /\ worker'[v] = worker[v]
    BY <1>4, <1>14
  <2>2. e \in Event /\ p \in owed[e] /\ p \in Person
    BY <1>1, <1>13, <2>1 DEF RestOK
  <2>3. Covered(v, e, <<p, c>>)
    BY <1>1, <2>1, <2>2 DEF CoveredOK
  <2>4. <<e, <<p, c>>>> \in Event \X Recipient
    BY <2>2 DEF Recipient
  <2> QED BY <1>6, <2>1, <2>3, <2>4 DEF Covered, Tried
<1>19. PublishedReachesAll'
  <2> SUFFICES ASSUME NEW e \in Event, outbox'[e].status = "published",
                      NEW p \in owed'[e], NEW c \in Channel
               PROVE  HasIt(<<e, <<p, c>>>>)'
    BY DEF PublishedReachesAll
  <2>1. e \notin Announced(w)
    BY <1>5, <1>9, <1>11
  <2>2. p \in owed[e] /\ p \in Person
    BY <1>1, <1>5, <2>1 DEF RestOK
  <2>3. <<e, <<p, c>>>> \in Event \X Recipient
    BY <2>2 DEF Recipient
  <2>4. CASE e \notin batch
    BY <1>1, <1>5, <1>6, <2>1, <2>2, <2>3, <2>4 DEF PublishedReachesAll
  <2>5. CASE e \in batch
    <3>1. ~AnyFailed(w, e)
      BY <1>5, <1>8, <2>5
    <3>2. Covered(w, e, <<p, c>>)
      BY <1>1, <1>2, <2>2, <2>5 DEF CoveredOK, batch
    <3>3. HasIt(<<e, <<p, c>>>>) \/ <<e, <<p, c>>>> \in worker[w].sent
      BY <1>2, <3>1, <3>2 DEF Covered, Tried, AnyFailed
    <3> QED BY <1>6, <2>3, <3>3
  <2> QED BY <2>4, <2>5
<1>20. FailedIsAnnounced'
  <2> SUFFICES ASSUME NEW s \in Subject
               PROVE  (outbox'[Original(s)].status = "failed") = (outbox'[Notice(s)].status # "none")
    BY DEF FailedIsAnnounced
  <2>1. Original(s) \in Event /\ Notice(s) \in Event /\ Original(s) # Notice(s)
    BY DEF Event, Original, Notice
  <2>2. \A x \in Subject : (Notice(x) = Notice(s) => x = s) /\ Original(s) # Notice(x)
    BY DEF Original, Notice
  <2>3. Original(s) \notin Announced(w)
    BY <2>2 DEF Announced
  <2>4. Notice(s) \in Announced(w) <=> Original(s) \in batch /\ GivesUp(w, Original(s))
    BY <2>2 DEF Announced, batch
  <2>5. (outbox[Original(s)].status = "failed") = (outbox[Notice(s)].status # "none")
    BY <1>1 DEF FailedIsAnnounced
  <2>6. CASE Notice(s) \in Announced(w)
    <3>1. outbox'[Notice(s)].status = "pending"
      BY <1>5, <1>9, <1>11, <2>1, <2>6
    <3>2. outbox'[Original(s)].status = "failed"
      BY <1>5, <1>8, <2>1, <2>4, <2>6
    <3> QED BY <3>1, <3>2
  <2>7. CASE Notice(s) \notin Announced(w)
    <3>1. outbox'[Original(s)].status = "failed" <=> outbox[Original(s)].status = "failed"
      BY <1>5, <1>7, <1>8, <2>1, <2>3, <2>4, <2>7
    <3>2. outbox'[Notice(s)].status # "none" <=> outbox[Notice(s)].status # "none"
      BY <1>5, <1>7, <1>8, <2>1, <2>7
    <3> QED BY <2>5, <3>1, <3>2
  <2> QED BY <2>6, <2>7
<1> QED BY <1>4, <1>10, <1>12, <1>15, <1>17, <1>18, <1>19, <1>20 DEF IInv
-----------------------------------------------------------------------------
(* Steps of the others: a row no transaction holds is recorded, an outcome *)
(* is read, a member comes or goes, time passes.                           *)
LEMMA PublishStep ==
    ASSUME IInv, NEW s \in Subject, PublishEvent(s)
    PROVE  IInv'
<1>1. /\ WorkersOK /\ LocksOK /\ OutboxOK /\ RestOK /\ TriedOK /\ CoveredOK
      /\ PublishedReachesAll /\ FailedIsAnnounced /\ MembersOwed
  BY DEF IInv
<1>2. /\ outbox[Original(s)].status = "none" /\ outbox' = [outbox EXCEPT ![Original(s)] = NewRow]
      /\ owed' = [owed EXCEPT ![Original(s)] = members]
      /\ note' = note /\ members' = members /\ worker' = worker
  BY DEF PublishEvent
<1>3. Original(s) \in Event /\ Original(s) \notin {Notice(x) : x \in Subject}
  BY DEF Event, Original, Notice
<1>4. NewRow \in OutboxRow /\ NewRow.status = "pending" /\ NewRow.attempts < MaxAttempts
  BY ConstantsAssumption DEF NewRow, OutboxRow
<1>5. outbox'[Original(s)] = NewRow /\ owed'[Original(s)] = members
  BY <1>1, <1>2, <1>3 DEF OutboxOK, RestOK
<1>6. ASSUME NEW e \in Event, e # Original(s) PROVE outbox'[e] = outbox[e] /\ owed'[e] = owed[e]
  BY <1>1, <1>2, <1>6 DEF OutboxOK, RestOK
<1>7. ASSUME NEW w \in Worker, NEW e \in worker[w].batch PROVE e \in Event /\ e # Original(s)
  BY <1>1, <1>2 DEF LocksOK, WorkersOK, Transaction
<1>8. WorkersOK'
  BY <1>1, <1>2 DEF WorkersOK
<1>9. LocksOK'
  BY <1>1, <1>2, <1>6, <1>7 DEF LocksOK
<1>10. OutboxOK'
  <2>1. outbox' \in [Event -> OutboxRow]
    BY <1>1, <1>2, <1>4 DEF OutboxOK
  <2> QED BY <1>1, <1>4, <1>5, <1>6, <2>1 DEF OutboxOK
<1>11. RestOK' /\ MembersOwed'
  BY <1>1, <1>2, <1>5, <1>6 DEF RestOK, MembersOwed
<1>12. \A n : HasIt(n)' = HasIt(n)
  BY <1>2 DEF HasIt
<1>13. TriedOK'
  BY <1>1, <1>2, <1>12 DEF TriedOK, Tried
<1>14. CoveredOK'
  <2> SUFFICES ASSUME NEW w \in Worker, NEW e \in worker'[w].batch \ worker'[w].left,
                      NEW p \in owed'[e], NEW c \in Channel
               PROVE  Covered(w, e, <<p, c>>)'
    BY DEF CoveredOK
  <2>1. worker' = worker /\ e \in worker[w].batch \ worker[w].left
    BY <1>2
  <2>2. e \in Event /\ e # Original(s)
    BY <1>7, <2>1
  <2>3. p \in owed[e]
    BY <1>6, <2>2
  <2>4. Covered(w, e, <<p, c>>)
    BY <1>1, <2>1, <2>3 DEF CoveredOK
  <2> QED BY <1>12, <2>1, <2>4 DEF Covered, Tried
<1>15. PublishedReachesAll'
  BY <1>1, <1>4, <1>5, <1>6, <1>12 DEF PublishedReachesAll
<1>16. FailedIsAnnounced'
  <2> SUFFICES ASSUME NEW x \in Subject
               PROVE  (outbox'[Original(x)].status = "failed") = (outbox'[Notice(x)].status # "none")
    BY DEF FailedIsAnnounced
  <2>1. Original(x) \in Event /\ Notice(x) \in Event
    BY DEF Event, Original, Notice
  <2>2. outbox'[Notice(x)] = outbox[Notice(x)]
    BY <1>3, <1>6, <2>1
  <2>3. (outbox[Original(x)].status = "failed") = (outbox[Notice(x)].status # "none")
    BY <1>1 DEF FailedIsAnnounced
  <2>4. CASE Original(x) = Original(s)
    BY <1>2, <1>4, <1>5, <2>2, <2>3, <2>4
  <2>5. CASE Original(x) # Original(s)
    BY <1>6, <2>1, <2>2, <2>3, <2>5
  <2> QED BY <2>4, <2>5
<1> QED BY <1>8, <1>9, <1>10, <1>11, <1>13, <1>14, <1>15, <1>16 DEF IInv

LEMMA AcknowledgeStep ==
    ASSUME IInv, NEW n \in Event \X Recipient, Acknowledge(n)
    PROVE  IInv'
<1>1. /\ note[n] = "sent" /\ note' = [note EXCEPT ![n] = "acknowledged"]
      /\ UNCHANGED <<outbox, members, owed, worker>>
  BY DEF Acknowledge
<1>2. ASSUME NEW m \in Event \X Recipient PROVE HasIt(m)' <=> HasIt(m)
  BY <1>1 DEF IInv, RestOK, HasIt
<1>3. WorkersOK' /\ LocksOK' /\ OutboxOK' /\ FailedIsAnnounced' /\ MembersOwed'
  BY <1>1 DEF IInv, WorkersOK, LocksOK, OutboxOK, FailedIsAnnounced, MembersOwed
<1>4. RestOK'
  BY <1>1 DEF IInv, RestOK
<1>5. TriedOK'
  <2>1. \A w \in Worker : Tried(w) \subseteq Event \X Recipient
    BY DEF IInv, WorkersOK, Transaction, Tried
  <2> QED BY <1>1, <1>2, <2>1 DEF IInv, TriedOK, Tried
<1>6. ASSUME NEW e \in Event, NEW p \in owed[e], NEW c \in Channel
      PROVE  HasIt(<<e, <<p, c>>>>)' <=> HasIt(<<e, <<p, c>>>>)
  <2>1. <<e, <<p, c>>>> \in Event \X Recipient
    BY DEF IInv, RestOK, Recipient
  <2> QED BY <1>2, <2>1
<1>7. CoveredOK'
  <2>1. \A w \in Worker : worker[w].batch \subseteq Event
    BY DEF IInv, WorkersOK, Transaction
  <2> QED BY <1>1, <1>6, <2>1 DEF IInv, CoveredOK, Covered, Tried
<1>8. PublishedReachesAll'
  BY <1>1, <1>6 DEF IInv, PublishedReachesAll
<1> QED BY <1>3, <1>4, <1>5, <1>7, <1>8 DEF IInv

LEMMA MembersStep ==
    ASSUME IInv, NEW people \in SUBSET Person, ChangeMembers(people)
    PROVE  IInv'
<1>1. /\ members' = people /\ owed' = [e \in Event |-> owed[e] \cap people]
      /\ UNCHANGED <<outbox, note, worker>>
  BY DEF ChangeMembers
<1>2. WorkersOK' /\ LocksOK' /\ OutboxOK' /\ FailedIsAnnounced' /\ TriedOK'
  BY <1>1 DEF IInv, WorkersOK, LocksOK, OutboxOK, FailedIsAnnounced, TriedOK, Tried, HasIt
<1>3. \A e \in Event : owed'[e] = owed[e] \cap people
  BY <1>1
<1>4. RestOK' /\ MembersOwed'
  BY <1>1, <1>3 DEF IInv, RestOK, MembersOwed
<1>5. CoveredOK'
  <2>1. \A w \in Worker : worker[w].batch \subseteq Event
    BY DEF IInv, WorkersOK, Transaction
  <2> SUFFICES ASSUME NEW w \in Worker, NEW e \in worker'[w].batch \ worker'[w].left,
                      NEW p \in owed'[e], NEW c \in Channel
               PROVE  Covered(w, e, <<p, c>>)'
    BY DEF CoveredOK
  <2>2. e \in worker[w].batch \ worker[w].left /\ e \in Event
    BY <1>1, <2>1
  <2>3. p \in owed[e]
    BY <1>3, <2>2
  <2>4. Covered(w, e, <<p, c>>)
    BY <2>2, <2>3 DEF IInv, CoveredOK
  <2> QED BY <1>1, <2>4 DEF Covered, Tried, HasIt
<1>6. PublishedReachesAll'
  BY <1>1, <1>3 DEF IInv, PublishedReachesAll, HasIt
<1> QED BY <1>2, <1>4, <1>5, <1>6 DEF IInv

LEMMA TickStep ==
    ASSUME IInv, Tick
    PROVE  IInv'
<1>1. UNCHANGED <<note, members, owed, worker>>
  BY DEF Tick
<1>2. ASSUME NEW e \in Event
      PROVE  /\ outbox'[e] \in OutboxRow /\ outbox'[e].status = outbox[e].status
             /\ outbox'[e].attempts = outbox[e].attempts
  <2>1. outbox[e] \in OutboxRow
    BY DEF IInv, OutboxOK
  <2>2. outbox'[e] = IF outbox[e].delay = 0 THEN outbox[e]
                     ELSE [outbox[e] EXCEPT !.delay = outbox[e].delay - 1]
    BY DEF Tick
  <2>3. ASSUME NEW d \in Nat
        PROVE  /\ [outbox[e] EXCEPT !.delay = d] \in OutboxRow
               /\ [outbox[e] EXCEPT !.delay = d].status = outbox[e].status
               /\ [outbox[e] EXCEPT !.delay = d].attempts = outbox[e].attempts
    BY <2>1 DEF OutboxRow
  <2>4. CASE outbox[e].delay = 0
    BY <2>1, <2>2, <2>4
  <2>5. CASE outbox[e].delay # 0
    <3> DEFINE d == outbox[e].delay - 1
    <3>1. d \in Nat
      BY <2>1, <2>5 DEF OutboxRow
    <3>2. outbox'[e] = [outbox[e] EXCEPT !.delay = d]
      BY <2>2, <2>5
    <3> HIDE DEF d
    <3> QED BY <2>3, <3>1, <3>2
  <2> QED BY <2>4, <2>5
<1>3. OutboxOK'
  <2>1. outbox' = [e \in Event |-> outbox'[e]]
    BY DEF Tick
  <2> QED BY <1>2, <2>1 DEF IInv, OutboxOK
<1>4. LocksOK'
  <2>1. \A w \in Worker : worker[w].batch \subseteq Event
    BY DEF IInv, WorkersOK, Transaction
  <2> QED BY <1>1, <1>2, <2>1 DEF IInv, LocksOK
<1>5. WorkersOK' /\ RestOK' /\ TriedOK' /\ CoveredOK' /\ MembersOwed'
  <2>1. WorkersOK' /\ RestOK' /\ MembersOwed'
    BY <1>1 DEF IInv, WorkersOK, RestOK, MembersOwed
  <2>2. TriedOK'
    BY <1>1 DEF IInv, TriedOK, Tried, HasIt
  <2>3. ASSUME NEW w \in Worker, NEW e, NEW r PROVE Covered(w, e, r)' <=> Covered(w, e, r)
    BY <1>1 DEF Covered, Tried, HasIt
  <2>4. CoveredOK'
    BY <1>1, <2>3 DEF IInv, CoveredOK
  <2> QED BY <2>1, <2>2, <2>4
<1>6. PublishedReachesAll'
  BY <1>1, <1>2 DEF IInv, PublishedReachesAll, HasIt
<1>7. FailedIsAnnounced'
  <2>1. \A s \in Subject : Original(s) \in Event /\ Notice(s) \in Event
    BY DEF Event, Original, Notice
  <2> QED BY <1>2, <2>1 DEF IInv, FailedIsAnnounced
<1> QED BY <1>3, <1>4, <1>5, <1>6, <1>7 DEF IInv
-----------------------------------------------------------------------------
LEMMA Initial == Init => IInv
<1> SUFFICES ASSUME Init PROVE IInv
  OBVIOUS
<1>1. /\ NoTransaction.batch = {} /\ NoTransaction.left = {}
      /\ NoTransaction.sent = {} /\ NoTransaction.unsent = {}
  BY DEF NoTransaction
<1>2. \A w \in Worker : worker[w] = NoTransaction
  BY DEF Init
<1>3. WorkersOK
  BY <1>2, NoTransactionSettled DEF Init, WorkersOK, SettledTransaction
<1>4. LocksOK /\ TriedOK /\ CoveredOK
  BY <1>1, <1>2 DEF LocksOK, TriedOK, CoveredOK, Tried
<1>5. \A e \in Event : outbox[e] = [status |-> "none", attempts |-> 0, delay |-> 0]
  BY DEF Init
<1>6. OutboxOK
  <2>1. [status |-> "none", attempts |-> 0, delay |-> 0] \in OutboxRow
    BY ConstantsAssumption DEF OutboxRow
  <2> QED BY <1>5, <2>1 DEF Init, OutboxOK
<1>7. RestOK /\ MembersOwed
  BY DEF Init, RestOK, MembersOwed
<1>8. PublishedReachesAll /\ FailedIsAnnounced
  <2>1. \A s \in Subject : Original(s) \in Event /\ Notice(s) \in Event
    BY DEF Event, Original, Notice
  <2> QED BY <1>5, <2>1 DEF PublishedReachesAll, FailedIsAnnounced
<1> QED BY <1>3, <1>4, <1>6, <1>7, <1>8 DEF IInv

LEMMA Inductive == IInv /\ [Next]_vars => IInv'
<1> SUFFICES ASSUME IInv, [Next]_vars PROVE IInv'
  OBVIOUS
<1>1. CASE \E w \in Worker : WorkerStep(w)
  <2>1. PICK w \in Worker : WorkerStep(w)
    BY <1>1
  <2>2. CASE \E r \in worker[w].todo : Skip(w, r) \/ SendReturns(w, r) \/ SendFails(w, r)
    BY <2>2, RecipientStep
  <2> QED BY <2>1, <2>2, ClaimStep, BeginEventStep, CommitStep DEF WorkerStep
<1>2. CASE \E s \in Subject : PublishEvent(s)
  BY <1>2, PublishStep
<1>3. CASE \E n \in Event \X Recipient : Acknowledge(n)
  BY <1>3, AcknowledgeStep
<1>4. CASE \E people \in SUBSET Person : ChangeMembers(people)
  BY <1>4, MembersStep
<1>5. CASE Tick
  BY <1>5, TickStep
<1>6. CASE \E w \in Worker : RollBack(w)
  BY <1>6, RollBackStep
<1>7. CASE UNCHANGED vars
  <2>1. UNCHANGED <<outbox, note, members, owed, worker>>
    BY <1>7 DEF vars
  <2>2. WorkersOK' /\ LocksOK' /\ OutboxOK' /\ RestOK' /\ MembersOwed'
    BY <2>1 DEF IInv, WorkersOK, LocksOK, OutboxOK, RestOK, MembersOwed
  <2>3. TriedOK' /\ CoveredOK' /\ PublishedReachesAll' /\ FailedIsAnnounced'
    BY <2>1 DEF IInv, TriedOK, CoveredOK, Covered, Tried, HasIt, PublishedReachesAll, FailedIsAnnounced
  <2> QED BY <2>2, <2>3 DEF IInv
<1> QED BY <1>1, <1>2, <1>3, <1>4, <1>5, <1>6, <1>7 DEF Next, Undisturbed

LEMMA Invariant == Spec => []IInv
BY Initial, Inductive, PTL DEF Spec
-----------------------------------------------------------------------------
(* The rows, the notifications and the open transactions keep their types; *)
(* an event is never tried more than MAX_ATTEMPTS times.                   *)
THEOREM TypeCorrect == Spec => []TypeOK
<1>1. IInv => TypeOK
  BY DEF IInv, WorkersOK, OutboxOK, RestOK, TypeOK
<1> QED BY <1>1, Invariant, PTL

(* What deliver_pending_notifications publishes has reached everyone it    *)
(* was owed to, whatever was rolled back, retried or acknowledged before.  *)
THEOREM PublishedToAll == Spec => []PublishedReachesAll
<1>1. IInv => PublishedReachesAll
  BY DEF IInv
<1> QED BY <1>1, Invariant, PTL

(* _announce_give_up: an event is given up exactly when its notice is      *)
(* recorded.                                                               *)
THEOREM GiveUpTold == Spec => []FailedIsAnnounced
<1>1. IInv => FailedIsAnnounced
  BY DEF IInv
<1> QED BY <1>1, Invariant, PTL

(* The end of an event is true: published to all it was owed to, or given  *)
(* up with a notice (deliver_pending_notifications, _announce_give_up).    *)
THEOREM EndsTrue == Spec => []EndsAreTrue
<1>1. IInv => PublishedReachesAll
  BY DEF IInv
<1>2. IInv => FailedIsAnnounced
  BY DEF IInv
<1> QED BY <1>1, <1>2, Invariant, PTL DEF EndsAreTrue

(* A step that tries a recipient finds nothing recorded for them, and no   *)
(* other worker holds the event.                                           *)
THEOREM NotToldAgain == Spec => NobodyIsToldAgain
<1>1. ASSUME IInv, [Next]_vars
      PROVE  [\A w \in Worker : \A n \in Tried(w)' \ Tried(w) :
                 ~HasIt(n) /\ \A v \in Worker \ {w} : n \notin Tried(v)]_vars
  <2> SUFFICES ASSUME NEW w \in Worker, NEW n \in Tried(w)' \ Tried(w)
               PROVE  ~HasIt(n) /\ \A v \in Worker \ {w} : n \notin Tried(v)
    OBVIOUS
  <2>1. \A v \in Worker : worker[v] \in SettledTransaction /\ worker[v] \in Transaction
    BY <1>1 DEF IInv, WorkersOK
  <2>2. worker'[w] # worker[w]
    BY DEF Tried
  <2>3. \E x \in Worker : WorkerStep(x) \/ RollBack(x)
    BY <1>1, <2>2 DEF Next, Undisturbed, vars, PublishEvent, Acknowledge, ChangeMembers, Tick
  <2>4. WorkerStep(w) \/ RollBack(w)
    <3>1. PICK x \in Worker : WorkerStep(x) \/ RollBack(x)
      BY <2>3
    <3>2. \E t : worker' = [worker EXCEPT ![x] = t]
      BY <3>1 DEF WorkerStep, RollBack, Claim, BeginEvent, Commit, Skip, SendReturns, SendFails
    <3>3. x = w
      BY <1>1, <2>2, <3>2 DEF IInv, WorkersOK
    <3> QED BY <3>1, <3>3
  <2>5. PICK r \in worker[w].todo :
          n = <<worker[w].event, r>> /\ ~HasIt(n)
    <3>1. ASSUME worker' = [worker EXCEPT ![w] = NoTransaction] PROVE FALSE
      BY <1>1, <3>1 DEF IInv, WorkersOK, Tried, NoTransaction
    <3>2. ASSUME Claim(w) PROVE FALSE
      BY <1>1, <3>2 DEF IInv, WorkersOK, Tried, Claim, NoTransaction
    <3>3. ASSUME BeginEvent(w) PROVE FALSE
      BY <1>1, <2>1, <3>3 DEF IInv, WorkersOK, Tried, BeginEvent, Transaction
    <3>4. PICK r \in worker[w].todo : Skip(w, r) \/ SendReturns(w, r) \/ SendFails(w, r)
      BY <2>4, <3>1, <3>2, <3>3 DEF WorkerStep, RollBack, Commit
    <3>5. CASE Skip(w, r)
      BY <1>1, <2>1, <3>5 DEF IInv, WorkersOK, Tried, Skip, Transaction
    <3>6. CASE SendReturns(w, r)
      BY <1>1, <2>1, <3>6 DEF IInv, WorkersOK, Tried, SendReturns, Transaction
    <3>7. CASE SendFails(w, r)
      BY <1>1, <2>1, <3>7 DEF IInv, WorkersOK, Tried, SendFails, Transaction
    <3> QED BY <3>4, <3>5, <3>6, <3>7
  <2>6. n[1] \in worker[w].batch
    BY <2>1, <2>5 DEF SettledTransaction
  <2>7. ASSUME NEW v \in Worker \ {w} PROVE n \notin Tried(v)
    BY <1>1, <2>1, <2>6 DEF IInv, LocksOK, SettledTransaction, Tried
  <2> QED BY <2>5, <2>7
<1> QED BY <1>1, Invariant, PTL DEF Spec, NobodyIsToldAgain
=============================================================================
