------------------------ MODULE ScheduleServiceProofs ------------------------
(***************************************************************************)
(* What holds of every set of schedules, with any periods up to ten        *)
(* minutes, limits, start and end dates, for any number of overlapping     *)
(* ticks, requests, failing saves and crashes: the types, that limits are  *)
(* kept and that a date fires once per crash, of the executions that begin *)
(* while no other of their schedule is under way.                          *)
(***************************************************************************)
EXTENDS ScheduleService, TLAPS, WellFoundedInduction

Sound(table) ==
  \A s \in Schedules :
    /\ table[s].known => s <= made
    /\ table[s].enabled => table[s].known /\ table[s].next > Never

(* What a restart may load is as sound as what is in memory. *)
Tables == Sound(file.content) /\ \A j \in Jobs : Sound(job[j].snapshot)

(* What a job is at, while it is at something. *)
JobsAreAt ==
  \A j \in Jobs :
    /\ job[j].pc \in {"tick", "trigger"} =>
         job[j].at # None /\ job[j].at <= made
    /\ job[j].pc = "tick" => job[j].now <= clock

DownIsEmpty == ~up => schedule = Empty /\ \A j \in Jobs : job[j] = Idle

IInv == TypeOK /\ Tables /\ JobsAreAt /\ DownIsEmpty
-----------------------------------------------------------------------------
Untouched ==
  \A s \in Schedules : s > made =>
    runs[s] = 0 /\ ran[s] = [d \in Dates |-> 0]

(* The executions that crashes may have made forgotten. *)
Forgotten(s) == Limit[s] * crashes

(* An execution is in its schedule's count or is about to be. *)
WithinCount(s, table, busy) ==
  /\ runs[s] <= Forgotten(s) + Limit[s]
  /\ table[s].known /\ ~busy =>
       /\ runs[s] <= Forgotten(s) + table[s].count
       /\ table[s].enabled => runs[s] < Forgotten(s) + Limit[s]
  /\ table[s].known /\ busy => runs[s] <= Forgotten(s) + table[s].count + 1
  /\ ~up => runs[s] <= Forgotten(s)

Budget ==
  \A s \in Schedules : Limit[s] # 0 => WithinCount(s, schedule, Executing(s))

(* A date that is still to come was fired at most once per crash, and so   *)
(* was the next one, unless it is being executed.                          *)
Ahead(s, table, busy) ==
  \A d \in Dates :
    /\ ran[s][d] <= 1 + crashes
    /\ d > clock \/ ~up => ran[s][d] <= crashes
    /\ table[s].known /\ table[s].next # Never /\ d >= table[s].next
       /\ (busy => d # table[s].next)
          => ran[s][d] <= crashes

FiredBefore ==
  /\ \A s \in Schedules : Ahead(s, schedule, Executing(s))
  /\ \A j \in Jobs : job[j].pc = "tick" =>
       \A d \in Dates : d > job[j].now => ran[job[j].at][d] <= crashes

LInv == Untouched /\ Budget /\ FiredBefore
-----------------------------------------------------------------------------
(* The smallest of some numbers is one of them (Earliest).                 *)
LEMMA EarliestIsOne ==
  ASSUME NEW S \in SUBSET Nat, S # {}
  PROVE  Earliest(S) \in S
<1> DEFINE R == OpToRel(<, Nat)
<1>1. IsWellFoundedOn(R, Nat)
  BY NatLessThanWellFounded
<1>2. PICK x \in S : \A y \in S : ~ (<<y, x>> \in R)
  <2> HIDE DEF R
  <2> QED BY <1>1, WFMin
<1>3. \A y \in S : ~(y < x)
  BY <1>2 DEF OpToRel
<1>4. \A y \in S : x <= y
  BY <1>3
<1> HIDE DEF R
<1> QED BY <1>4, Zenon DEF Earliest

(* The next date is later, and not by more than a period (getNextCronDate). *)
LEMMA NextDateIsLater ==
  ASSUME NEW s \in Schedules, NEW t \in 0..MaxTime
  PROVE  NextDate(s, t) \in Dates /\ NextDate(s, t) > t
<1>1. Period[s] \in 1..10 /\ MaxTime \in Nat
  BY ScheduleAssumption
<1>2. ASSUME NEW p \in 1..10
      PROVE  LET d == ((t \div p) + 1) * p IN d \in Nat /\ d > t /\ d <= t + p
  BY <1>1, SMTT(20)
<1> QED BY <1>1, <1>2 DEF NextDate, Dates

(* What a tick does until its next awaited execution, if there is one: it  *)
(* begins first, and disables what has expired before it (_tick).  It is   *)
(* counted unless another tick is executing first.                         *)
Counts(first, table) ==
  LET alone == {s \in {first} : ~Executing(s)}
  IN /\ runs' = [s \in Schedules |-> IF s \in alone THEN More(runs[s]) ELSE runs[s]]
     /\ ran' = [s \in Schedules |->
          IF s \in alone THEN [ran[s] EXCEPT ![table[s].next] = More(@)] ELSE ran[s]]

ContinuesWith(first, gone, j, last, now, table) ==
  /\ first <= Count => first > last /\ Due(first, now, table)
  /\ schedule' = [s \in Schedules |->
       IF s \in gone THEN [table[s] EXCEPT !.enabled = FALSE, !.next = Never]
                     ELSE table[s]]
  /\ first \notin gone
  /\ job' = [job EXCEPT ![j] = Remaining(first, last, now)]
  /\ Counts(first, table)

(* Continue, whose dates are chosen, is one such step (_tick).              *)
LEMMA ContinueShape ==
  ASSUME NEW j \in Jobs, NEW last \in 0..Count, NEW now, NEW table,
         Continue(j, last, now, table)
  PROVE  \E first \in 1..Count + 1, gone \in SUBSET Schedules :
           ContinuesWith(first, gone, j, last, now, table)
<1> DEFINE due == {s \in Schedules : s > last /\ Due(s, now, table)}
           first == IF due = {} THEN Count + 1 ELSE Earliest(due)
           gone == {s \in Schedules :
                      s > last /\ s < first /\ Listed(s, table) /\ Expired(s, now)}
<1>1. Count \in Nat
  BY ScheduleAssumption
<1>2. due \in SUBSET Nat
  BY <1>1 DEF Schedules
<1>3. first \in 1..Count + 1 /\ (first <= Count => first \in due)
  <2>1. CASE due = {}
    BY <2>1, <1>1
  <2>2. CASE due # {}
    <3>1. Earliest(due) \in due
      BY <2>2, <1>2, EarliestIsOne, Zenon
    <3> QED BY <3>1, <2>2, <1>1 DEF Schedules
  <2> QED BY <2>1, <2>2
<1>4. gone \in SUBSET Schedules
  OBVIOUS
<1>5. first \notin gone
  BY <1>3
<1>6. first <= Count => first > last /\ Due(first, now, table)
  BY <1>3
<1>7. /\ schedule' = [s \in Schedules |->
           IF s \in gone THEN [table[s] EXCEPT !.enabled = FALSE, !.next = Never]
                         ELSE table[s]]
      /\ job' = [job EXCEPT ![j] = Remaining(first, last, now)]
      /\ Counts(first, table)
  BY Zenon DEF Continue, Counts
<1> HIDE DEF first, gone
<1> QED BY <1>3, <1>4, <1>5, <1>6, <1>7, Zenon DEF ContinuesWith
-----------------------------------------------------------------------------
JobRecords == [pc : {"idle", "tick", "trigger", "saving", "writing"},
               now : 0..MaxTime, at : Schedules \cup {None},
               snapshot : [Schedules -> Records]]

(* The empty table and the idle job are well formed (constructor).         *)
LEMMA EmptyIsSound ==
  Empty \in [Schedules -> Records] /\ Sound(Empty) /\ Idle \in JobRecords
<1>1. Count \in Nat /\ MaxTime \in Nat
  BY ScheduleAssumption
<1>2. Absent \in Records
  BY <1>1 DEF Absent, Records, Dates, Never
<1>3. Empty \in [Schedules -> Records]
  BY <1>2 DEF Empty
<1>4. Sound(Empty)
  BY DEF Sound, Empty, Absent
<1>5. Idle \in JobRecords
  BY <1>1, <1>3 DEF Idle, JobRecords, None
<1> QED BY <1>3, <1>4, <1>5

(* Whatever a tick has counted (EndExecution), the table is sound and      *)
(* enables nothing.                                                        *)
LEMMA CountedIsSound ==
  ASSUME IInv, NEW s \in Schedules, NEW now \in 0..clock
  PROVE  /\ Counted(s, now) \in [Schedules -> Records]
         /\ Sound(Counted(s, now))
         /\ \A r \in Schedules : Counted(s, now)[r].enabled => schedule[r].enabled
<1>1. /\ schedule \in [Schedules -> Records] /\ Sound(schedule) /\ clock \in 0..MaxTime
      /\ MaxTime \in Nat
  BY ScheduleAssumption DEF IInv, TypeOK, Sound
<1>2. NextDate(s, now) \in Dates /\ NextDate(s, now) > now /\ Never \in Dates
  BY <1>1, NextDateIsLater DEF Dates, Never
<1>3. Counted(s, now) \in {schedule, Disabled(s), Advanced(s, now)}
  BY DEF Counted
<1> DEFINE row == schedule[s]
           off == [row EXCEPT !.enabled = FALSE, !.next = Never, !.count = @ + 1]
           on == [row EXCEPT !.next = NextDate(s, now), !.count = @ + 1]
<1>4. /\ off \in Records /\ ~off.enabled /\ off.known = row.known
      /\ on \in Records /\ on.enabled = row.enabled /\ on.known = row.known
      /\ on.next > Never
  <2>1. row \in Records
    BY <1>1
  <2> HIDE DEF row
  <2>2. NextDate(s, now) > Never
    BY <1>1, <1>2 DEF Never, Dates
  <2> DEFINE later == NextDate(s, now)
  <2>3. later \in Dates /\ later > Never
    BY <1>2, <2>2
  <2> HIDE DEF later
  <2>4. row.count \in Nat /\ row.count + 1 \in Nat /\ row.enabled \in BOOLEAN /\ row.known \in BOOLEAN
    BY <2>1 DEF Records
  <2>5. off \in Records /\ ~off.enabled /\ off.known = row.known
    BY <2>1, <2>4, <1>2 DEF Records
  <2>6. [row EXCEPT !.next = later, !.count = @ + 1] \in Records
    BY <2>1, <2>3, <2>4 DEF Records
  <2>7. LET r == [row EXCEPT !.next = later, !.count = @ + 1]
        IN r.enabled = row.enabled /\ r.known = row.known /\ r.next = later
    BY <2>1, Zenon DEF Records
  <2> QED BY <2>3, <2>5, <2>6, <2>7 DEF later
<1>5. /\ Disabled(s) = [schedule EXCEPT ![s] = off]
      /\ Advanced(s, now) = [schedule EXCEPT ![s] = on]
  BY <1>1, Zenon DEF Disabled, Advanced
<1> HIDE DEF off, on
<1>6. /\ Disabled(s) \in [Schedules -> Records] /\ Sound(Disabled(s))
      /\ \A r \in Schedules : Disabled(s)[r].enabled => schedule[r].enabled
  BY <1>1, <1>4, <1>5 DEF Sound
<1>7. /\ Advanced(s, now) \in [Schedules -> Records] /\ Sound(Advanced(s, now))
      /\ \A r \in Schedules : Advanced(s, now)[r].enabled => schedule[r].enabled
  BY <1>1, <1>4, <1>5 DEF Sound
<1> QED BY <1>1, <1>3, <1>6, <1>7

(* A tick keeps the types: it enables nothing (_tick).                     *)
LEMMA ContinueKeeps ==
  ASSUME IInv, up, NEW j \in Jobs, NEW last \in 0..Count,
         NEW now \in 0..clock, NEW table \in [Schedules -> Records], Sound(table),
         Continue(j, last, now, table),
         UNCHANGED <<up, clock, made, file, upsets, crashes>>
  PROVE  IInv'
<1> USE DEF IInv
<1>1. PICK first \in 1..Count + 1, gone \in SUBSET Schedules :
           ContinuesWith(first, gone, j, last, now, table)
  BY ContinueShape
<1>2. /\ Count \in Nat /\ MaxTime \in Nat /\ Many \in Nat
      /\ clock \in 0..MaxTime /\ now \in 0..MaxTime /\ made \in Nat
      /\ job \in [Jobs -> JobRecords]
  BY ScheduleAssumption DEF TypeOK, JobRecords
<1>3. schedule' \in [Schedules -> Records] /\ Sound(schedule')
  <2> DEFINE off(s) == [table[s] EXCEPT !.enabled = FALSE, !.next = Never]
  <2>1. ASSUME NEW s \in Schedules
        PROVE  off(s) \in Records /\ ~off(s).enabled /\ off(s).known = table[s].known
    <3>1. table[s] \in Records /\ Never \in Dates
      BY <1>2 DEF Dates, Never
    <3> QED BY <3>1 DEF Records
  <2> HIDE DEF off
  <2>2. schedule' = [s \in Schedules |-> IF s \in gone THEN off(s) ELSE table[s]]
    BY <1>1, Zenon DEF off, ContinuesWith
  <2>3. \A s \in Schedules : schedule'[s] = IF s \in gone THEN off(s) ELSE table[s]
    BY <2>2, Zenon
  <2>4. schedule' \in [Schedules -> Records]
    BY <2>1, <2>2
  <2> QED BY <2>1, <2>3, <2>4 DEF Sound
<1>4. Sound(schedule)'
  BY <1>3 DEF Sound
<1> DEFINE next == Remaining(first, last, now)
<1>5. /\ next \in JobRecords /\ next.snapshot = Empty
      /\ next.pc \in {"idle", "tick", "saving"}
      /\ next.pc = "tick" => next.at = first /\ first <= made /\ next.now = now
                              /\ first \in Schedules /\ first # None
  <2>1. CASE first > Count
    BY <2>1, <1>2, EmptyIsSound DEF Remaining, Idle, JobRecords
  <2>2. CASE first <= Count
    <3>1. first \in Schedules /\ first # None
      BY <2>2, <1>2 DEF Schedules, None
    <3>2. table[first].enabled
      BY <1>1, <2>2 DEF Due, Listed, ContinuesWith
    <3>3. first <= made
      BY <3>1, <3>2 DEF Sound
    <3> QED BY <2>2, <3>1, <3>3, <1>2, EmptyIsSound DEF Remaining, Idle, JobRecords
  <2> QED BY <2>1, <2>2, <1>2
<1> HIDE DEF next
<1>6. job' \in [Jobs -> JobRecords] /\ job'[j] = next
      /\ \A k \in Jobs : k # j => job'[k] = job[k]
  BY <1>1, <1>2, <1>5 DEF next, ContinuesWith
<1>7. TypeOK'
  <2> DEFINE fired(s) == [ran[s] EXCEPT ![table[s].next] = More(@)]
             alone == {s \in {first} : ~Executing(s)}
  <2>1. \A n \in Nat : More(n) \in Nat
    BY <1>2 DEF More
  <2>2. runs \in [Schedules -> Nat] /\ ran \in [Schedules -> [Dates -> Nat]]
    BY DEF TypeOK
  <2>3. runs' \in [Schedules -> Nat]
    <3>1. runs' = [s \in Schedules |-> IF s \in alone THEN More(runs[s]) ELSE runs[s]]
      BY <1>1, Zenon DEF ContinuesWith, Counts
    <3> HIDE DEF alone
    <3> QED BY <2>1, <2>2, <3>1
  <2>4. ASSUME NEW s \in Schedules PROVE fired(s) \in [Dates -> Nat]
    BY <2>1, <2>2
  <2> HIDE DEF fired
  <2>5. ran' = [s \in Schedules |-> IF s \in alone THEN fired(s) ELSE ran[s]]
    BY <1>1, Zenon DEF fired, ContinuesWith, Counts
  <2> HIDE DEF alone
  <2>6. ran' \in [Schedules -> [Dates -> Nat]]
    BY <2>2, <2>4, <2>5
  <2> QED BY <1>3, <1>4, <1>6, <2>3, <2>6 DEF TypeOK, JobRecords, Sound
<1>8. Tables'
  <2>1. Sound(file.content)'
    BY DEF Tables, Sound
  <2>2. ASSUME NEW k \in Jobs PROVE Sound(job[k].snapshot)'
    <3>1. CASE k = j
      BY <3>1, <1>5, <1>6, EmptyIsSound DEF Sound
    <3>2. CASE k # j
      BY <3>2, <1>6 DEF Tables, Sound
    <3> QED BY <3>1, <3>2
  <2> QED BY <2>1, <2>2 DEF Tables
<1>9. JobsAreAt'
  BY <1>5, <1>6 DEF JobsAreAt
<1>10. DownIsEmpty'
  BY DEF DownIsEmpty
<1> QED BY <1>7, <1>8, <1>9, <1>10

(* A request or a trigger puts one row into the table and one job in       *)
(* progress or on its way to the file.                                     *)
Puts(j, s, row, r) ==
  /\ up
  /\ s <= made' /\ made' \in made..Count
  /\ row.enabled => row.known /\ row.next > Never
  /\ schedule' = [schedule EXCEPT ![s] = row]
  /\ job' = [job EXCEPT ![j] = r]
  /\ r.snapshot = Empty /\ r.pc \in {"saving", "trigger"}
  /\ r.pc = "trigger" => r.at = s
  /\ upsets' \in 0..MaxUpsets /\ runs' \in [Schedules -> Nat]
  /\ UNCHANGED <<up, clock, file, crashes, ran>>

(* Such a step keeps the types (updateSchedule).                           *)
LEMMA RequestKeeps ==
  ASSUME IInv, NEW j \in Jobs, NEW s \in Schedules, NEW row \in Records, NEW r \in JobRecords,
         Puts(j, s, row, r)
  PROVE  IInv'
<1> USE DEF IInv, Puts
<1>1. /\ Count \in Nat /\ made \in 0..Count /\ made' \in 0..Count /\ made <= made'
      /\ schedule \in [Schedules -> Records]
      /\ job \in [Jobs -> JobRecords]
      /\ s # None
  <2>1. /\ Count \in Nat /\ made \in 0..Count /\ schedule \in [Schedules -> Records]
        /\ job \in [Jobs -> JobRecords]
    BY ScheduleAssumption DEF TypeOK, JobRecords
  <2> QED BY <2>1 DEF Schedules, None
<1>2. /\ schedule' \in [Schedules -> Records] /\ schedule'[s] = row
      /\ \A q \in Schedules : q # s => schedule'[q] = schedule[q]
  BY <1>1
<1>3. /\ job' \in [Jobs -> JobRecords] /\ job'[j] = r
      /\ \A k \in Jobs : k # j => job'[k] = job[k]
  BY <1>1
<1>4. Sound(schedule)'
  <2>1. Sound(schedule)
    BY DEF TypeOK, Sound
  <2> QED BY <2>1, <1>1, <1>2 DEF Sound, Schedules
<1>5. TypeOK'
  BY <1>1, <1>2, <1>3, <1>4 DEF TypeOK, JobRecords, Sound
<1>6. Tables'
  <2>1. Sound(file.content)'
    BY <1>1 DEF Tables, Sound, Schedules
  <2>2. ASSUME NEW k \in Jobs PROVE Sound(job[k].snapshot)'
    <3>1. CASE k = j
      BY <3>1, <1>1, <1>3, EmptyIsSound DEF Sound, Schedules, Empty, Absent
    <3>2. CASE k # j
      BY <3>2, <1>1, <1>3 DEF Tables, Sound, Schedules
    <3> QED BY <3>1, <3>2
  <2> QED BY <2>1, <2>2 DEF Tables
<1>7. JobsAreAt'
  <2> SUFFICES ASSUME NEW k \in Jobs
               PROVE (/\ job[k].pc \in {"tick", "trigger"} =>
                           job[k].at # None /\ job[k].at <= made
                      /\ job[k].pc = "tick" => job[k].now <= clock)'
    BY DEF JobsAreAt
  <2>1. CASE k = j
    BY <2>1, <1>1, <1>3
  <2>2. CASE k # j
    BY <2>2, <1>1, <1>3 DEF JobsAreAt, JobRecords, Schedules, None
  <2> QED BY <2>1, <2>2
<1>8. DownIsEmpty'
  BY DEF DownIsEmpty
<1> QED BY <1>5, <1>6, <1>7, <1>8

(* What a request does to a row: nothing is enabled by it that was not,    *)
(* unless its executions are counted anew, and no count is taken back; a   *)
(* next date is the old one, none, or one to come.                         *)
Lenient(s, row) ==
  /\ \/ runs'[s] = 0
     \/ /\ runs'[s] = runs[s]
        /\ row.known => schedule[s].known /\ row.count >= schedule[s].count
        /\ row.enabled => schedule[s].enabled
  /\ row.known /\ row.next # Never =>
       row.next > clock \/ (schedule[s].known /\ row.next = schedule[s].next)
  /\ \A q \in Schedules : q # s => runs'[q] = runs[q]

(* Each request, and the end of a trigger, is such a step (createSchedule, *)
(* updateSchedule, deleteSchedule, POST /api/schedules/:id/trigger).       *)
LEMMA RequestPuts ==
  ASSUME IInv, NEW j \in Jobs, Request(j) \/ EndTrigger(j)
  PROVE  \E s \in Schedules, row \in Records, r \in JobRecords :
           Puts(j, s, row, r) /\ (Untouched => Lenient(s, row)) /\ job[j].pc # "tick"
<1> DEFINE Goal == \E s \in Schedules, row \in Records, r \in JobRecords :
           Puts(j, s, row, r) /\ (Untouched => Lenient(s, row)) /\ job[j].pc # "tick"
<1>a. /\ TypeOK /\ Tables /\ JobsAreAt /\ DownIsEmpty
  BY DEF IInv
<1>b. /\ Count \in Nat /\ MaxTime \in Nat /\ MaxUpsets \in Nat /\ MaxCrashes \in Nat
      /\ clock \in 0..MaxTime /\ made \in 0..Count /\ upsets \in 0..MaxUpsets
      /\ crashes \in 0..MaxCrashes
      /\ runs \in [Schedules -> Nat] /\ up \in BOOLEAN
  BY <1>a, ScheduleAssumption DEF TypeOK
<1>c. /\ schedule \in [Schedules -> Records] /\ Sound(schedule)
      /\ file \in [state : {"whole", "empty", "mixed"}, content : [Schedules -> Records]]
      /\ job \in [Jobs -> JobRecords]
  BY <1>a DEF TypeOK, JobRecords, Sound
<1>d. job[j].pc # "idle" => up
  BY <1>a DEF DownIsEmpty, Idle
<1>f. job[j].at # None => job[j].at \in Schedules
  BY <1>c DEF JobRecords
<1>g. ASSUME NEW s \in Schedules
      PROVE  /\ NextDate(s, clock) \in Dates /\ NextDate(s, clock) > clock
             /\ NextDate(s, clock) > Never
  BY <1>b, NextDateIsLater DEF Dates, Never
<1> DEFINE Saving == [Idle EXCEPT !.pc = "saving"]
<1>h. Saving \in JobRecords /\ Saving.snapshot = Empty /\ Saving.pc = "saving"
  BY EmptyIsSound DEF Idle, JobRecords
<1>i. ASSUME Saves(j) PROVE job' = [job EXCEPT ![j] = Saving]
  BY <1>i, Zenon DEF Saves
<1>j. ~Busy(j) => job[j].pc # "tick"
  BY DEF Busy
<1> HIDE DEF Saving
<1>5. ASSUME CreateSchedule(j) PROVE Goal
  <2> DEFINE s == made + 1
             row == [known |-> TRUE, enabled |-> TRUE, next |-> NextDate(s, clock), count |-> 0]
  <2>1. /\ up /\ ~Busy(j) /\ made < Count /\ made' = s
        /\ schedule' = [schedule EXCEPT ![s] = row]
        /\ Saves(j)
        /\ UNCHANGED <<up, clock, file, upsets, crashes, runs, ran>>
    BY <1>5 DEF CreateSchedule
  <2>2. s \in Schedules /\ s \in made..Count
    BY <2>1, <1>b DEF Schedules
  <2>3. row \in Records /\ row.enabled /\ row.known /\ row.next > Never /\ row.next > clock
    BY <2>2, <1>g DEF Records
  <2>a. s > made
    BY <1>b
  <2>4. job' = [job EXCEPT ![j] = Saving]
    BY <2>1, <1>i
  <2> HIDE DEF s, row
  <2>5. Puts(j, s, row, Saving)
    BY <2>1, <2>2, <2>3, <2>4, <1>b, <1>h, <1>j DEF Puts
  <2>6. Untouched => Lenient(s, row)
    BY <2>a, <2>1, <2>2, <2>3, Zenon DEF Lenient, Untouched
  <2>7. job[j].pc # "tick"
    BY <2>1, <1>j
  <2> QED BY <2>2, <2>3, <2>4, <2>5, <1>h, <2>6, <2>7, Zenon
<1>6. ASSUME NEW s \in Schedules, EnableSchedule(j, s) PROVE Goal
  <2> DEFINE old == schedule[s]
             date == NextDate(s, clock)
             row == [old EXCEPT !.enabled = TRUE, !.next = date]
  <2>1. /\ up /\ ~Busy(j) /\ upsets < MaxUpsets /\ upsets' = upsets + 1 /\ old.known
        /\ runs' = [runs EXCEPT ![s] = 0]
        /\ Saves(j)
        /\ UNCHANGED <<up, clock, made, file, crashes, ran>>
    BY <1>6 DEF EnableSchedule, Edit
  <2>2. s <= made
    BY <2>1, <1>c DEF Sound
  <2>3. row \in Records /\ row.known /\ row.next > Never /\ row.next > clock
    <3>1. old \in Records /\ date \in Dates /\ date > Never /\ date > clock
      BY <1>c, <1>g
    <3> HIDE DEF old, date
    <3> QED BY <3>1, <2>1 DEF Records
  <2>4. schedule' = [schedule EXCEPT ![s] = row]
    BY <1>6, <1>c, Zenon DEF EnableSchedule
  <2>5. job' = [job EXCEPT ![j] = Saving]
    BY <2>1, <1>i
  <2>6. /\ runs' \in [Schedules -> Nat] /\ runs'[s] = 0
        /\ \A q \in Schedules : q # s => runs'[q] = runs[q]
        /\ upsets' \in 0..MaxUpsets
    BY <2>1, <1>b
  <2> HIDE DEF old, row, date
  <2>7. Puts(j, s, row, Saving)
    BY <2>1, <2>2, <2>3, <2>4, <2>5, <2>6, <1>b, <1>h, <1>j DEF Puts
  <2>8. Untouched => Lenient(s, row)
    BY <2>3, <2>6, Zenon DEF Lenient
  <2>9. job[j].pc # "tick"
    BY <2>1, <1>j
  <2> QED BY <2>2, <2>3, <2>4, <2>7, <1>h, <2>8, <2>9, Zenon
<1>7. ASSUME NEW s \in Schedules, DisableSchedule(j, s) PROVE Goal
  <2> DEFINE old == schedule[s]
             row == [old EXCEPT !.enabled = FALSE]
  <2>1. /\ up /\ ~Busy(j) /\ upsets < MaxUpsets /\ upsets' = upsets + 1 /\ old.enabled
        /\ Saves(j)
        /\ UNCHANGED <<up, clock, made, file, crashes, runs, ran>>
    BY <1>7 DEF DisableSchedule, Edit
  <2>2. s <= made
    BY <2>1, <1>c DEF Sound
  <2>3. /\ row \in Records /\ ~row.enabled /\ row.known = old.known
        /\ row.count = old.count /\ row.count >= old.count /\ row.next = old.next
    <3>1. old \in Records
      BY <1>c
    <3> HIDE DEF old
    <3>2. /\ row \in Records /\ ~row.enabled /\ row.known = old.known
          /\ row.count = old.count /\ row.next = old.next
      BY <3>1 DEF Records
    <3>3. old.count \in Nat
      BY <3>1 DEF Records
    <3> HIDE DEF row
    <3> QED BY <3>2, <3>3
  <2>4. schedule' = [schedule EXCEPT ![s] = row]
    BY <1>7, <1>c, Zenon DEF DisableSchedule
  <2>5. job' = [job EXCEPT ![j] = Saving]
    BY <2>1, <1>i
  <2> HIDE DEF old, row
  <2>6. Puts(j, s, row, Saving)
    BY <2>1, <2>2, <2>3, <2>4, <2>5, <1>b, <1>h, <1>j DEF Puts, old
  <2>7. Untouched => Lenient(s, row)
    BY <2>1, <2>3 DEF Lenient, old
  <2>8. job[j].pc # "tick"
    BY <2>1, <1>j
  <2> QED BY <2>2, <2>3, <2>4, <2>6, <1>h, <2>7, <2>8, Zenon
<1>8. ASSUME NEW s \in Schedules, RescheduleSchedule(j, s) PROVE Goal
  <2> DEFINE old == schedule[s]
             date == NextDate(s, clock)
             row == [old EXCEPT !.next = date]
  <2>1. /\ up /\ ~Busy(j) /\ upsets < MaxUpsets /\ upsets' = upsets + 1 /\ old.enabled
        /\ Saves(j)
        /\ UNCHANGED <<up, clock, made, file, crashes, runs, ran>>
    BY <1>8 DEF RescheduleSchedule, Edit
  <2>2. s <= made /\ old.known
    BY <2>1, <1>c DEF Sound
  <2>3. /\ row \in Records /\ row.known /\ row.next > Never /\ row.next > clock
        /\ row.count = old.count /\ row.count >= old.count /\ row.enabled = old.enabled
    <3>1. old \in Records /\ date \in Dates /\ date > Never /\ date > clock
      BY <1>c, <1>g
    <3> HIDE DEF old, date
    <3> QED BY <3>1, <2>2 DEF Records
  <2>4. schedule' = [schedule EXCEPT ![s] = row]
    BY <1>8, <1>c, Zenon DEF RescheduleSchedule
  <2>5. job' = [job EXCEPT ![j] = Saving]
    BY <2>1, <1>i
  <2> HIDE DEF old, row, date
  <2>6. Puts(j, s, row, Saving)
    BY <2>1, <2>2, <2>3, <2>4, <2>5, <1>b, <1>h, <1>j DEF Puts, old
  <2>7. Untouched => Lenient(s, row)
    BY <2>1, <2>2, <2>3 DEF Lenient, old
  <2>8. job[j].pc # "tick"
    BY <2>1, <1>j
  <2> QED BY <2>2, <2>3, <2>4, <2>6, <1>h, <2>7, <2>8, Zenon
<1>9. ASSUME NEW s \in Schedules, DeleteSchedule(j, s) PROVE Goal
  <2>1. /\ up /\ ~Busy(j) /\ upsets < MaxUpsets /\ upsets' = upsets + 1 /\ schedule[s].known
        /\ schedule' = [schedule EXCEPT ![s] = Absent]
        /\ Saves(j)
        /\ UNCHANGED <<up, clock, made, file, crashes, runs, ran>>
    BY <1>9 DEF DeleteSchedule, Edit
  <2>2. s <= made
    BY <2>1, <1>c DEF Sound
  <2>3. Absent \in Records /\ ~Absent.enabled /\ ~Absent.known
    BY <1>b DEF Absent, Records, Dates, Never
  <2>4. job' = [job EXCEPT ![j] = Saving]
    BY <2>1, <1>i
  <2>5. Puts(j, s, Absent, Saving)
    BY <2>1, <2>2, <2>3, <2>4, <1>b, <1>h, <1>j DEF Puts
  <2>6. Untouched => Lenient(s, Absent)
    BY <2>1, <2>3 DEF Lenient
  <2>7. job[j].pc # "tick"
    BY <2>1, <1>j
  <2> QED BY <2>2, <2>3, <2>4, <2>5, <1>h, <2>6, <2>7, Zenon
<1>10. ASSUME NEW s \in Schedules, Trigger(j, s) PROVE Goal
  <2> DEFINE r == [Idle EXCEPT !.pc = "trigger", !.at = s]
  <2>1. /\ up /\ ~Busy(j) /\ upsets < MaxUpsets /\ upsets' = upsets + 1 /\ schedule[s].known
        /\ job' = [job EXCEPT ![j] = r]
        /\ UNCHANGED <<up, clock, made, file, crashes, runs, ran>>
    BY <1>10 DEF Trigger, Edit
  <2>2. s <= made /\ (schedule[s].enabled => schedule[s].known /\ schedule[s].next > Never)
    BY <2>1, <1>c DEF Sound
  <2>3. /\ r \in JobRecords /\ r.snapshot = Empty
        /\ r.pc = "trigger" /\ r.at = s
    BY EmptyIsSound DEF Idle, JobRecords
  <2>4. schedule' = [schedule EXCEPT ![s] = schedule[s]] /\ schedule[s] \in Records
    BY <1>10, <1>c DEF Trigger
  <2> DEFINE row == schedule[s]
  <2>a. row \in Records /\ row.count >= row.count
    BY <2>4 DEF Records
  <2> HIDE DEF r, row
  <2>5. Puts(j, s, row, r)
    BY <2>1, <2>2, <2>3, <2>4, <1>b, <1>j DEF Puts, row
  <2>6. Untouched => Lenient(s, row)
    BY <2>a, <2>1 DEF Lenient, row
  <2>7. job[j].pc # "tick"
    BY <2>1, <1>j
  <2> QED BY <2>3, <2>a, <2>5, <2>6, <2>7, Zenon
<1>11. ASSUME EndTrigger(j) PROVE Goal
  <2> DEFINE s == job[j].at
             old == schedule[s]
             row == IF old.known THEN [old EXCEPT !.count = @ + 1] ELSE old
  <2>1. /\ job[j].pc = "trigger"
        /\ Saves(j)
        /\ UNCHANGED <<up, clock, made, file, upsets, crashes, runs, ran>>
    BY <1>11 DEF EndTrigger
  <2>2. s \in Schedules /\ up
    BY <2>1, <1>a, <1>d, <1>f DEF JobsAreAt
  <2>3. /\ row \in Records /\ row.known = old.known /\ row.enabled = old.enabled
        /\ row.next = old.next /\ row.count >= old.count
    <3>1. old \in Records
      BY <2>2, <1>c
    <3> HIDE DEF old
    <3> QED BY <3>1 DEF Records
  <2>4. schedule' = [schedule EXCEPT ![s] = row]
    <3>1. CASE old.known
      BY <3>1, <1>11, <2>2, <1>c, Zenon DEF EndTrigger
    <3>2. CASE ~old.known
      BY <3>2, <1>11, <2>2, <1>c DEF EndTrigger
    <3> QED BY <3>1, <3>2
  <2>5. job' = [job EXCEPT ![j] = Saving]
    BY <2>1, <1>i
  <2>6. old.enabled => old.known /\ old.next > Never
    BY <2>2, <1>c DEF Sound
  <2>7. s <= made
    BY <2>1, <1>a DEF JobsAreAt
  <2>a. runs' \in [Schedules -> Nat] /\ upsets' \in 0..MaxUpsets
    BY <2>1, <1>b
  <2> HIDE DEF s, old, row
  <2>8. Puts(j, s, row, Saving)
    BY <2>1, <2>2, <2>3, <2>4, <2>5, <2>6, <2>7, <2>a, <1>b, <1>h DEF Puts, old
  <2>9. Untouched => Lenient(s, row)
    BY <2>1, <2>3 DEF Lenient, old
  <2>10. job[j].pc # "tick"
    BY <2>1, <1>j
  <2> QED BY <2>2, <2>3, <1>h, <2>8, <2>9, <2>10, Zenon
<1> QED BY <1>5, <1>6, <1>7, <1>8, <1>9, <1>10, <1>11 DEF Request

(* The first state has them (constructor).                                  *)
LEMMA TypedInit == Init => IInv
<1> SUFFICES ASSUME Init PROVE IInv
  OBVIOUS
<1>1. /\ Count \in Nat /\ {MaxTime, MaxUpsets, MaxCrashes} \subseteq Nat
  BY ScheduleAssumption
<1>2. job \in [Jobs -> JobRecords] /\ file \in [state : {"whole", "empty", "mixed"},
                                                content : [Schedules -> Records]]
  BY EmptyIsSound DEF Init, File
<1>3. Sound(schedule)
  BY EmptyIsSound DEF Init
<1>4. TypeOK
  BY <1>1, <1>2, <1>3, EmptyIsSound DEF Init, TypeOK, JobRecords, Sound
<1>5. Tables
  BY EmptyIsSound DEF Init, Tables, File, Idle
<1>6. JobsAreAt /\ DownIsEmpty
  BY DEF Init, JobsAreAt, DownIsEmpty, Idle
<1> QED BY <1>4, <1>5, <1>6 DEF IInv

(* Every step keeps the types, one case per action.                        *)
LEMMA TypedStep == IInv /\ [Next]_vars => IInv'
<1> SUFFICES ASSUME IInv, [Next]_vars PROVE IInv'
  OBVIOUS
<1>a. /\ TypeOK /\ Tables /\ JobsAreAt /\ DownIsEmpty
  BY DEF IInv
<1>b. /\ Count \in Nat /\ MaxTime \in Nat /\ MaxUpsets \in Nat /\ MaxCrashes \in Nat
      /\ clock \in 0..MaxTime /\ made \in 0..Count /\ upsets \in 0..MaxUpsets
      /\ crashes \in 0..MaxCrashes
      /\ runs \in [Schedules -> Nat] /\ up \in BOOLEAN
  BY <1>a, ScheduleAssumption DEF TypeOK
<1>c. /\ schedule \in [Schedules -> Records] /\ Sound(schedule)
      /\ file \in [state : {"whole", "empty", "mixed"}, content : [Schedules -> Records]]
      /\ job \in [Jobs -> JobRecords]
  BY <1>a DEF TypeOK, JobRecords, Sound
<1>d. ASSUME NEW j \in Jobs PROVE job[j].pc # "idle" => up
  BY <1>a DEF DownIsEmpty, Idle
<1>f. ASSUME NEW j \in Jobs, job[j].at # None PROVE job[j].at \in Schedules
  BY <1>c, <1>f DEF JobRecords
<1>1. ASSUME NEW j \in Jobs, StartTick(j) PROVE IInv'
  BY <1>1, <1>a, <1>b, <1>c, ContinueKeeps DEF StartTick
<1>2. ASSUME NEW j \in Jobs, EndExecution(j) PROVE IInv'
  <2> DEFINE s == job[j].at
             now == job[j].now
             table == Counted(s, now)
  <2>1. job[j].pc = "tick" /\ s # None /\ now <= clock /\ now \in 0..clock
    BY <1>2, <1>a, <1>b, <1>c DEF EndExecution, JobsAreAt, JobRecords
  <2>2. s \in Schedules /\ s \in 0..Count /\ up
    BY <2>1, <1>b, <1>d, <1>f DEF Schedules
  <2>3. table \in [Schedules -> Records] /\ Sound(table)
    BY <2>1, <2>2, CountedIsSound
  <2>4. /\ Continue(j, s, now, table)
        /\ UNCHANGED <<up, clock, made, file, upsets, crashes>>
    BY <1>2 DEF EndExecution
  <2> HIDE DEF s, now, table
  <2> QED BY <2>1, <2>2, <2>3, <2>4, ContinueKeeps
<1>3. ASSUME NEW j \in Jobs, BeginWrite(j) PROVE IInv'
  <2> DEFINE r == [job[j] EXCEPT !.pc = "writing", !.snapshot = schedule]
  <2>1. /\ r \in JobRecords /\ r.pc = "writing" /\ r.snapshot = schedule
        /\ r.at = job[j].at
    <3>1. job[j] \in JobRecords
      BY <1>c
    <3> QED BY <3>1, <1>c DEF JobRecords
  <2>2. job' = [job EXCEPT ![j] = r]
    BY <1>3, Zenon DEF BeginWrite
  <2>3. /\ job[j].pc = "saving" /\ file' = File("empty", Empty)
        /\ UNCHANGED <<up, clock, made, schedule, upsets, crashes, runs, ran>>
    BY <1>3 DEF BeginWrite
  <2> HIDE DEF r
  <2>4. job' \in [Jobs -> JobRecords] /\ job'[j] = r /\ \A k \in Jobs : k # j => job'[k] = job[k]
    BY <2>1, <2>2, <1>c
  <2>5. TypeOK'
    BY <2>3, <2>4, <1>a, EmptyIsSound DEF TypeOK, JobRecords, File
  <2>6. Tables'
    BY <2>1, <2>3, <2>4, <1>a, <1>c, EmptyIsSound DEF Tables, Sound, File
  <2>7. JobsAreAt'
    BY <2>1, <2>3, <2>4, <1>a DEF JobsAreAt
  <2>8. DownIsEmpty'
    BY <2>3, <1>d DEF DownIsEmpty
  <2> QED BY <2>5, <2>6, <2>7, <2>8 DEF IInv
<1>4. ASSUME NEW j \in Jobs, EndWrite(j) \/ SaveFails(j) PROVE IInv'
  <2>1. /\ job[j].pc \in {"saving", "writing"}
        /\ file' \in {file, File("whole", job[j].snapshot), File("mixed", Empty)}
        /\ job' = [job EXCEPT ![j] = Idle]
        /\ UNCHANGED <<up, clock, made, schedule, crashes, runs, ran>>
        /\ upsets' = upsets \/ (upsets < MaxUpsets /\ upsets' = upsets + 1)
    BY <1>4 DEF EndWrite, SaveFails, Written
  <2>2. job' \in [Jobs -> JobRecords] /\ job'[j] = Idle /\ \A k \in Jobs : k # j => job'[k] = job[k]
    BY <2>1, <1>c, EmptyIsSound
  <2>3. job[j].snapshot \in [Schedules -> Records] /\ Sound(job[j].snapshot)
    BY <1>a, <1>c DEF Tables, JobRecords
  <2>4. /\ file' \in [state : {"whole", "empty", "mixed"}, content : [Schedules -> Records]]
        /\ Sound(file'.content)
    BY <2>1, <2>3, <1>a, <1>c, EmptyIsSound DEF File, Tables
  <2>5. upsets' \in 0..MaxUpsets
    BY <2>1, <1>a, ScheduleAssumption DEF TypeOK
  <2>6. TypeOK'
    BY <2>1, <2>2, <2>4, <2>5, <1>a DEF TypeOK, JobRecords
  <2>7. Tables'
    BY <2>1, <2>2, <2>4, <1>a, EmptyIsSound DEF Tables, Sound, Idle
  <2>8. JobsAreAt'
    BY <2>1, <2>2, <1>a DEF JobsAreAt, Idle
  <2>9. DownIsEmpty'
    BY <2>1, <1>d DEF DownIsEmpty
  <2> QED BY <2>6, <2>7, <2>8, <2>9 DEF IInv
<1>5. ASSUME NEW j \in Jobs, Request(j) \/ EndTrigger(j) PROVE IInv'
  BY <1>5, RequestPuts, RequestKeeps
<1>12. CASE ClockAdvances
  <2>1. /\ clock' = clock + 1 /\ clock' \in 0..MaxTime
        /\ UNCHANGED <<up, made, schedule, job, file, upsets, crashes, runs, ran>>
    BY <1>12, <1>b DEF ClockAdvances
  <2>2. TypeOK' /\ Tables' /\ DownIsEmpty'
    BY <2>1, <1>a DEF TypeOK, Tables, Sound, DownIsEmpty
  <2>3. \A k \in Jobs : job[k].pc = "tick" => job[k].now <= clock'
    <3>1. \A k \in Jobs : job[k].now \in 0..MaxTime
      BY <1>c DEF JobRecords
    <3> QED BY <3>1, <2>1, <1>a, <1>b DEF JobsAreAt
  <2>4. JobsAreAt'
    BY <2>1, <2>3, <1>a DEF JobsAreAt
  <2> QED BY <2>2, <2>4 DEF IInv
<1>13. CASE Crash
  <2>1. /\ crashes' = crashes + 1 /\ crashes < MaxCrashes /\ up' = FALSE
        /\ schedule' = Empty /\ job' = [j \in Jobs |-> Idle]
        /\ UNCHANGED <<clock, made, file, upsets, runs, ran>>
    BY <1>13 DEF Crash
  <2>2. Sound(schedule)' /\ job' \in [Jobs -> JobRecords] /\ schedule' \in [Schedules -> Records]
    BY <2>1, EmptyIsSound DEF Sound, Empty, Absent
  <2>3. TypeOK'
    <3>1. crashes' \in 0..MaxCrashes
      BY <2>1, <1>b
    <3>2. {up'} \subseteq BOOLEAN
      BY <2>1
    <3>3. /\ clock' \in 0..MaxTime /\ made' \in 0..Count /\ upsets' \in 0..MaxUpsets
          /\ file' \in [state : {"whole", "empty", "mixed"}, content : [Schedules -> Records]]
          /\ runs' \in [Schedules -> Nat] /\ ran' \in [Schedules -> [Dates -> Nat]]
      BY <2>1, <1>a DEF TypeOK
    <3> QED BY <2>2, <3>1, <3>2, <3>3 DEF TypeOK, JobRecords, Sound
  <2>4. Tables'
    BY <2>1, <1>a, EmptyIsSound DEF Tables, Sound, Idle
  <2>5. JobsAreAt' /\ DownIsEmpty'
    BY <2>1 DEF JobsAreAt, DownIsEmpty, Idle
  <2> QED BY <2>3, <2>4, <2>5 DEF IInv
<1>14. CASE Restart
  <2>1. /\ ~up /\ up' = TRUE
        /\ schedule' = IF file.state = "whole" THEN file.content ELSE Empty
        /\ UNCHANGED <<clock, made, job, file, upsets, crashes, runs, ran>>
    BY <1>14 DEF Restart
  <2>2. /\ Sound(file.content) /\ file.content \in [Schedules -> Records]
    BY <1>a, <1>c DEF Tables
  <2>3. Sound(schedule)' /\ schedule' \in [Schedules -> Records]
    <3>1. CASE file.state = "whole"
      BY <3>1, <2>1, <2>2 DEF Sound
    <3>2. CASE file.state # "whole"
      BY <3>2, <2>1, EmptyIsSound DEF Sound, Empty, Absent
    <3> QED BY <3>1, <3>2
  <2>4. TypeOK'
    BY <2>1, <2>3, <1>a DEF TypeOK, Sound
  <2>5. Tables' /\ JobsAreAt' /\ DownIsEmpty'
    BY <2>1, <1>a DEF Tables, Sound, JobsAreAt, DownIsEmpty
  <2> QED BY <2>4, <2>5 DEF IInv
<1>15. CASE UNCHANGED vars
  <2>1. UNCHANGED <<up, clock, made, schedule, job, file, upsets, crashes, runs, ran>>
    BY <1>15 DEF vars
  <2>2. TypeOK' /\ Tables'
    BY <2>1, <1>a DEF TypeOK, Tables, Sound
  <2>3. JobsAreAt' /\ DownIsEmpty'
    BY <2>1, <1>a DEF JobsAreAt, DownIsEmpty
  <2> QED BY <2>2, <2>3 DEF IInv
<1> QED
  BY <1>1, <1>2, <1>3, <1>4, <1>5, <1>12, <1>13, <1>14, <1>15 DEF Next, Proceeds

(* IInv is inductive: no step of any tick, request, failing save, crash or *)
(* restart, at any number of schedules, leaves it.                         *)
THEOREM InvariantHolds == Spec => []IInv
<1>1. Init => IInv
  BY TypedInit
<1>2. IInv /\ [Next]_vars => IInv'
  BY TypedStep
<1> QED BY <1>1, <1>2, PTL DEF Spec

(* Every schedule, job, file and history has its type, and what is enabled *)
(* is a schedule with a next date (TypeOK).                                *)
THEOREM TypesHold == Spec => []TypeOK
<1>1. IInv => TypeOK
  BY DEF IInv
<1> QED BY <1>1, InvariantHolds, PTL

-----------------------------------------------------------------------------
(* What the next two proofs need of the types.                             *)
Numbers ==
  /\ Count \in Nat /\ MaxTime \in Nat /\ Many \in Nat /\ Limit \in [Schedules -> Nat]
  /\ clock \in 0..MaxTime /\ made \in 0..Count /\ crashes \in Nat
  /\ schedule \in [Schedules -> Records] /\ Sound(schedule)
  /\ job \in [Jobs -> JobRecords]
  /\ runs \in [Schedules -> Nat] /\ ran \in [Schedules -> [Dates -> Nat]]
  /\ Dates \subseteq Nat

(* They follow from the invariant.                                         *)
LEMMA NumbersHold == IInv => Numbers
<1> SUFFICES ASSUME IInv PROVE Numbers
  OBVIOUS
<1>1. TypeOK
  BY DEF IInv
<1> QED BY <1>1, ScheduleAssumption DEF TypeOK, Numbers, JobRecords, Sound, Dates

(* Multiplication of naturals, which the SMT solver is told once.          *)
LEMMA ForgottenIsNat ==
  ASSUME Numbers, NEW s \in Schedules
  PROVE  Forgotten(s) \in Nat
<1>1. \A m, n \in Nat : m * n \in Nat
  OBVIOUS
<1> QED BY <1>1 DEF Numbers, Forgotten

(* The other ticks than j that are executing s. *)
Others(j, s) == \E k \in Jobs \ {j} : job[k].pc = "tick" /\ job[k].at = s

FiredBy(k) ==
  /\ job[k].at \in Schedules
  /\ \A d \in Dates : d > job[k].now => ran[job[k].at][d] <= crashes

(* A tick that has counted what it executed goes on within the limits:     *)
(* what it executes next is due, so its date was not fired before, unless  *)
(* another tick is firing it (_tick).                                      *)
LEMMA ContinueKeepsLimits ==
  ASSUME Numbers, up, NEW j \in Jobs, NEW last \in 0..Count, NEW now \in 0..clock,
         NEW table \in [Schedules -> Records], Sound(table),
         job[j].pc # "tick" \/ job[j].at = last,
         Untouched,
         \A s \in Schedules : Limit[s] # 0 => WithinCount(s, table, Others(j, s)),
         \A s \in Schedules : Ahead(s, table, Others(j, s)),
         \A k \in Jobs \ {j} : job[k].pc = "tick" => FiredBy(k),
         Continue(j, last, now, table),
         UNCHANGED <<up, clock, made, crashes>>
  PROVE  LInv'
<1>1. PICK first \in 1..Count + 1, gone \in SUBSET Schedules :
           ContinuesWith(first, gone, j, last, now, table)
  BY ContinueShape
<1>2. /\ Count \in Nat /\ Many \in Nat /\ Limit \in [Schedules -> Nat] /\ crashes \in Nat
      /\ clock \in Nat /\ made \in Nat /\ now \in Nat /\ now <= clock
      /\ job \in [Jobs -> JobRecords]
      /\ runs \in [Schedules -> Nat] /\ ran \in [Schedules -> [Dates -> Nat]]
      /\ Dates \subseteq Nat
  BY DEF Numbers
<1> DEFINE next == Remaining(first, last, now)
           off(s) == [table[s] EXCEPT !.enabled = FALSE, !.next = Never]
           D == table[first].next
<1>3. /\ next.pc = "tick" <=> first \in Schedules
      /\ first \in Schedules => next.at = first /\ next.now = now
  BY <1>2 DEF Remaining, Idle, Schedules
<1>4. first \in Schedules =>
        /\ table[first].known /\ table[first].enabled /\ first <= made
        /\ D \in Dates /\ D # Never /\ D <= now /\ first \notin gone
  <2> SUFFICES ASSUME first \in Schedules
               PROVE  /\ table[first].known /\ table[first].enabled /\ first <= made
                      /\ D \in Dates /\ D # Never /\ D <= now /\ first \notin gone
    OBVIOUS
  <2>1. Due(first, now, table) /\ first \notin gone
    <3>1. first <= Count
      BY DEF Schedules
    <3> QED BY <1>1, <3>1, Zenon DEF ContinuesWith
  <2>2. table[first] \in Records
    OBVIOUS
  <2>3. table[first].enabled /\ table[first].next # Never /\ now >= table[first].next
    BY <2>1 DEF Due, Listed
  <2> QED BY <2>1, <2>2, <2>3, <1>2 DEF Sound, Records
<1>5. \A s \in Schedules : /\ off(s).known = table[s].known /\ off(s).count = table[s].count
                           /\ ~off(s).enabled /\ off(s).next = Never
  BY DEF Records
<1>6. \A s \in Schedules : schedule'[s] = IF s \in gone THEN off(s) ELSE table[s]
  BY <1>1, Zenon DEF ContinuesWith
<1>7. job'[j] = next /\ \A k \in Jobs : k # j => job'[k] = job[k]
  BY <1>1, <1>2 DEF ContinuesWith
<1> HIDE DEF next, off
<1>a. first \in Schedules => (Executing(first) <=> Others(j, first))
  <2>1. first \in Schedules => first > last
    <3>1. first \in Schedules => first <= Count
      BY DEF Schedules
    <3> QED BY <1>1, <3>1, Zenon DEF ContinuesWith
  <2>2. first \in Schedules => ~(job[j].pc = "tick" /\ job[j].at = first)
    BY <2>1, <1>2 DEF Schedules
  <2> QED BY <2>2 DEF Executing, Others
<1>8. ASSUME NEW s \in Schedules PROVE Executing(s)' <=> Others(j, s) \/ s = first
  BY <1>3, <1>7 DEF Executing, Others
<1> DEFINE Alone(s) == s = first /\ ~Others(j, s)
<1>9. ASSUME NEW s \in Schedules
      PROVE  /\ ~Alone(s) => runs'[s] = runs[s] /\ ran'[s] = ran[s]
             /\ Alone(s) => /\ runs'[s] \in Nat /\ runs'[s] <= runs[s] + 1
                            /\ ran'[s] = [ran[s] EXCEPT ![D] = More(@)]
  <2> DEFINE alone == {q \in {first} : ~Executing(q)}
  <2>1. \A n \in Nat : More(n) \in Nat /\ More(n) <= n + 1
    BY <1>2 DEF More
  <2>2. /\ runs'[s] = IF s \in alone THEN More(runs[s]) ELSE runs[s]
        /\ ran'[s] = IF s \in alone THEN [ran[s] EXCEPT ![table[s].next] = More(@)] ELSE ran[s]
    BY <1>1, Zenon DEF ContinuesWith, Counts
  <2>3. s \in alone <=> Alone(s)
    BY <1>a
  <2> HIDE DEF alone
  <2> QED BY <2>1, <2>2, <2>3, <1>2
<1>10. ASSUME first \in Schedules, Alone(first)
       PROVE  \A d \in Dates : /\ d # D => ran'[first][d] = ran[first][d]
                               /\ ran'[first][d] \in Nat /\ ran'[first][d] <= ran[first][d] + 1
  <2>1. \A n \in Nat : More(n) \in Nat /\ More(n) <= n + 1
    BY <1>2 DEF More
  <2>2. ran'[first] = [ran[first] EXCEPT ![D] = More(@)]
    BY <1>9, <1>10, Zenon
  <2>3. ran[first] \in [Dates -> Nat]
    BY <1>2, <1>10
  <2> QED BY <2>1, <2>2, <2>3, <1>4, <1>10
<1>12. Untouched'
  <2> SUFFICES ASSUME NEW s \in Schedules, s > made
               PROVE  runs'[s] = 0 /\ ran'[s] = [d \in Dates |-> 0]
    BY DEF Untouched
  <2>1. s # first
    BY <1>2, <1>4 DEF Schedules
  <2> QED BY <2>1, <1>9 DEF Untouched
<1>13. Budget'
  <2> SUFFICES ASSUME NEW s \in Schedules, Limit[s] # 0
               PROVE  WithinCount(s, schedule, Executing(s))'
    BY DEF Budget
  <2>1. /\ Forgotten(s) \in Nat /\ Forgotten(s)' = Forgotten(s) /\ Limit[s] \in Nat
        /\ runs[s] \in Nat /\ table[s].count \in Nat
    BY <1>2, ForgottenIsNat DEF Forgotten, Records
  <2>2. WithinCount(s, table, Others(j, s))
    OBVIOUS
  <2>3. CASE s # first
    <3>1. runs'[s] = runs[s] /\ (Executing(s)' <=> Others(j, s))
      BY <2>3, <1>8, <1>9
    <3> QED BY <2>1, <2>2, <3>1, <1>5, <1>6 DEF WithinCount
  <2>4. CASE s = first
    <3>1. schedule'[s] = table[s] /\ table[s].known /\ table[s].enabled
      BY <2>4, <1>4, <1>6
    <3>2. Executing(s)'
      BY <2>4, <1>8
    <3>3. CASE Others(j, s)
      <4>1. runs'[s] = runs[s]
        BY <3>3, <1>9
      <4> QED BY <2>1, <2>2, <3>1, <3>2, <3>3, <4>1 DEF WithinCount
    <3>4. CASE ~Others(j, s)
      <4>1. runs'[s] \in Nat /\ runs'[s] <= runs[s] + 1
        BY <2>4, <3>4, <1>9
      <4> QED BY <2>1, <2>2, <3>1, <3>2, <3>4, <4>1 DEF WithinCount
    <3> QED BY <3>3, <3>4
  <2> QED BY <2>3, <2>4
<1>14. ASSUME NEW s \in Schedules PROVE Ahead(s, schedule, Executing(s))'
  <2>1. Ahead(s, table, Others(j, s))
    OBVIOUS
  <2> SUFFICES ASSUME NEW d \in Dates
               PROVE  /\ ran'[s][d] <= 1 + crashes
                      /\ d > clock => ran'[s][d] <= crashes
                      /\ schedule'[s].known /\ schedule'[s].next # Never
                            /\ d >= schedule'[s].next
                            /\ (Executing(s)' => d # schedule'[s].next)
                           => ran'[s][d] <= crashes
    BY DEF Ahead
  <2>2. CASE s # first
    <3>1. ran'[s] = ran[s] /\ (Executing(s)' <=> Others(j, s))
      BY <2>2, <1>8, <1>9
    <3> QED BY <2>1, <3>1, <1>5, <1>6 DEF Ahead
  <2>3. CASE s = first
    <3>1. schedule'[s] = table[s] /\ Executing(s)' /\ table[s].next = D
      BY <2>3, <1>4, <1>6, <1>8
    <3>2. CASE Others(j, s)
      <4>1. ran'[s] = ran[s]
        BY <3>2, <1>9
      <4> QED BY <2>1, <3>1, <4>1 DEF Ahead
    <3>3. CASE ~Others(j, s) /\ d = D
      <4>1. ran[s][d] <= crashes /\ ~(d > clock) /\ ran[s][d] \in Nat
        BY <2>1, <2>3, <3>3, <1>2, <1>4 DEF Ahead
      <4> QED BY <2>3, <3>1, <3>3, <4>1, <1>2, <1>10
    <3>4. CASE ~Others(j, s) /\ d # D
      <4>1. ran'[s][d] = ran[s][d]
        BY <2>3, <3>4, <1>10
      <4> QED BY <2>1, <3>1, <3>4, <4>1 DEF Ahead
    <3> QED BY <3>2, <3>3, <3>4
  <2> QED BY <2>2, <2>3
<1>15. ASSUME NEW k \in Jobs, job'[k].pc = "tick", NEW d \in Dates, d > job'[k].now
       PROVE  ran'[job'[k].at][d] <= crashes
  <2>1. CASE k # j
    <3>1. job'[k] = job[k]
      BY <2>1, <1>7
    <3>2. ran[job[k].at][d] <= crashes
      BY <2>1, <3>1, <1>15 DEF FiredBy
    <3>3. ~Alone(job[k].at)
      BY <2>1, <3>1, <1>15 DEF Others
    <3>4. ran'[job[k].at] = ran[job[k].at]
      BY <2>1, <3>1, <3>3, <1>9, <1>15 DEF FiredBy
    <3> QED BY <3>1, <3>2, <3>4
  <2>2. CASE k = j
    <3>1. first \in Schedules /\ job'[k].at = first /\ job'[k].now = now
      BY <2>2, <1>3, <1>7, <1>15
    <3>2. d # D /\ d >= D
      <4>1. d > now /\ d \in Nat /\ D \in Nat /\ D <= now
        BY <3>1, <1>2, <1>4, <1>15
      <4> HIDE DEF D
      <4> QED BY <4>1, <1>2
    <3>3. Ahead(first, table, Others(j, first))
      BY <3>1
    <3>4. ran[first][d] <= crashes
      BY <3>1, <3>2, <3>3, <1>4 DEF Ahead
    <3>5. ran'[first][d] = ran[first][d]
      BY <3>1, <3>2, <1>9, <1>10
    <3> QED BY <3>1, <3>4, <3>5
  <2> QED BY <2>1, <2>2
<1>16. FiredBefore'
  BY <1>14, <1>15 DEF FiredBefore
<1> QED BY <1>12, <1>13, <1>16 DEF LInv

(* A request or a trigger takes no execution back and sets no date that    *)
(* was fired, unless the executions are counted anew.                      *)
LEMMA RequestKeepsLimits ==
  ASSUME Numbers, LInv, NEW j \in Jobs, NEW s \in Schedules, NEW row \in Records, NEW r \in JobRecords,
         Puts(j, s, row, r), job[j].pc # "tick", Lenient(s, row), runs' \in [Schedules -> Nat]
  PROVE  LInv'
<1>1. /\ schedule'[s] = row /\ \A q \in Schedules : q # s => schedule'[q] = schedule[q]
      /\ job'[j] = r /\ r.pc # "tick" /\ \A k \in Jobs : k # j => job'[k] = job[k]
      /\ up /\ up' /\ clock' = clock /\ crashes' = crashes /\ ran' = ran
      /\ made' \in made..Count
  BY DEF Puts, Numbers
<1>2. /\ Count \in Nat /\ Limit \in [Schedules -> Nat] /\ crashes \in Nat
      /\ clock \in Nat /\ made \in Nat
      /\ runs \in [Schedules -> Nat] /\ ran \in [Schedules -> [Dates -> Nat]]
      /\ Dates \subseteq Nat
  BY DEF Numbers
<1>3. ASSUME NEW q \in Schedules PROVE Executing(q)' <=> Executing(q)
  BY <1>1 DEF Executing
<1>5. Untouched'
  <2> SUFFICES ASSUME NEW q \in Schedules, q > made'
               PROVE  runs'[q] = 0 /\ ran'[q] = [d \in Dates |-> 0]
    BY DEF Untouched
  <2>1. q > made /\ q # s
    BY <1>1, <1>2 DEF Schedules, Puts
  <2>2. runs[q] = 0 /\ ran[q] = [d \in Dates |-> 0]
    BY <2>1 DEF LInv, Untouched
  <2> QED BY <2>1, <2>2, <1>1 DEF Lenient
<1>6. Budget'
  <2> SUFFICES ASSUME NEW q \in Schedules, Limit[q] # 0
               PROVE  WithinCount(q, schedule, Executing(q))'
    BY DEF Budget
  <2>1. /\ Forgotten(q) \in Nat /\ Forgotten(q)' = Forgotten(q) /\ Limit[q] \in Nat
        /\ runs[q] \in Nat /\ schedule[q].count \in Nat
    BY <1>1, <1>2, ForgottenIsNat DEF Forgotten, Records, Numbers
  <2>2. WithinCount(q, schedule, Executing(q))
    BY DEF LInv, Budget
  <2>3. CASE q # s
    BY <2>1, <2>2, <2>3, <1>1, <1>3 DEF WithinCount, Lenient
  <2>4. CASE q = s
    <3>1. row.count \in Nat
      BY DEF Records
    <3>2. CASE runs'[s] = 0
      BY <2>1, <2>4, <3>1, <3>2, <1>1 DEF WithinCount
    <3>3. CASE runs'[s] # 0
      <4>1. /\ runs'[q] = runs[q]
            /\ row.known => schedule[q].known /\ row.count >= schedule[q].count
            /\ row.enabled => schedule[q].enabled
        BY <2>4, <3>3 DEF Lenient
      <4>2. schedule'[q] = row
        BY <2>4, <1>1
      <4> QED BY <2>1, <2>2, <3>1, <4>1, <4>2, <1>1, <1>3 DEF WithinCount
    <3> QED BY <3>2, <3>3
  <2> QED BY <2>3, <2>4
<1>7. ASSUME NEW q \in Schedules PROVE Ahead(q, schedule, Executing(q))'
  <2>1. Ahead(q, schedule, Executing(q))
    BY DEF LInv, FiredBefore
  <2>2. CASE q # s
    BY <2>1, <2>2, <1>1, <1>3 DEF Ahead
  <2>3. CASE q = s
    <3> SUFFICES ASSUME NEW d \in Dates, row.known, row.next # Never, d >= row.next,
                        Executing(q) => d # row.next
                 PROVE  ran[q][d] <= crashes
      BY <2>1, <2>3, <1>1, <1>3 DEF Ahead
    <3>1. CASE row.next > clock
      <4>1. row.next \in Dates
        BY DEF Records
      <4>2. d > clock
        <5>1. d \in Nat /\ row.next \in Nat
          BY <4>1, <1>2
        <5> QED BY <3>1, <5>1, <1>2
      <4> QED BY <2>1, <4>2 DEF Ahead
    <3>2. CASE schedule[s].known /\ row.next = schedule[s].next
      BY <2>1, <2>3, <3>2 DEF Ahead
    <3> QED BY <3>1, <3>2 DEF Lenient
  <2> QED BY <2>2, <2>3
<1>8. FiredBefore'
  BY <1>1, <1>7 DEF LInv, FiredBefore
<1> QED BY <1>5, <1>6, <1>8 DEF LInv

(* The execution that ends is in the count (Counted).                      *)
LEMMA CountedKeepsLimits ==
  ASSUME Numbers, LInv, NEW j \in Jobs, job[j].pc = "tick", job[j].at \in Schedules,
         job[j].now \in 0..clock, up
  PROVE  /\ \A s \in Schedules : Limit[s] # 0 =>
              WithinCount(s, Counted(job[j].at, job[j].now), Others(j, s))
         /\ \A s \in Schedules : Ahead(s, Counted(job[j].at, job[j].now), Others(j, s))
<1> DEFINE a == job[j].at
           now == job[j].now
           table == Counted(a, now)
           old == schedule[a]
<1>1. /\ MaxTime \in Nat /\ Limit \in [Schedules -> Nat] /\ crashes \in Nat
      /\ clock \in 0..MaxTime /\ now \in 0..MaxTime
      /\ runs \in [Schedules -> Nat] /\ ran \in [Schedules -> [Dates -> Nat]]
      /\ Dates \subseteq Nat /\ schedule \in [Schedules -> Records]
  BY DEF Numbers
<1>2. \A s \in Schedules : Executing(s) <=> Others(j, s) \/ s = a
  BY DEF Executing, Others
<1>3. old \in Records /\ old.count \in Nat
  BY <1>1 DEF Records
<1>4. NextDate(a, now) \in Dates /\ NextDate(a, now) > now
  BY <1>1, NextDateIsLater
<1>5. /\ \A s \in Schedules : s # a => table[s] = schedule[s]
      /\ table[a].known = old.known
      /\ old.known => table[a].count = old.count + 1
      /\ old.known /\ table[a].enabled => Limit[a] = 0 \/ old.count + 1 < Limit[a]
      /\ old.known => table[a].next \in {Never, NextDate(a, now)}
  <2>1. CASE ~old.known
    BY <2>1 DEF Counted
  <2>2. CASE old.known /\ Limit[a] # 0 /\ old.count + 1 >= Limit[a]
    <3>1. table = [schedule EXCEPT ![a] =
                     [old EXCEPT !.enabled = FALSE, !.next = Never, !.count = @ + 1]]
      BY <2>2, <1>1, Zenon DEF Counted, Disabled
    <3>2. LET row == [old EXCEPT !.enabled = FALSE, !.next = Never, !.count = @ + 1]
          IN /\ row.known = old.known /\ row.count = old.count + 1
             /\ ~row.enabled /\ row.next = Never
      BY <1>3 DEF Records
    <3> HIDE DEF table, old
    <3> QED BY <2>2, <3>1, <3>2, <1>1 DEF old
  <2>3. CASE old.known /\ ~(Limit[a] # 0 /\ old.count + 1 >= Limit[a])
    <3>1. table = [schedule EXCEPT ![a] =
                     [old EXCEPT !.next = NextDate(a, now), !.count = @ + 1]]
      BY <2>3, <1>1, Zenon DEF Counted, Advanced
    <3>2. LET row == [old EXCEPT !.next = NextDate(a, now), !.count = @ + 1]
          IN /\ row.known = old.known /\ row.count = old.count + 1
             /\ row.next = NextDate(a, now)
      BY <1>3 DEF Records
    <3>3. Limit[a] = 0 \/ old.count + 1 < Limit[a]
      BY <2>3, <1>1, <1>3
    <3> HIDE DEF table, old
    <3> QED BY <2>3, <3>1, <3>2, <3>3, <1>1 DEF old
  <2> QED BY <2>1, <2>2, <2>3
<1> HIDE DEF table
<1>6. ASSUME NEW s \in Schedules, Limit[s] # 0 PROVE WithinCount(s, table, Others(j, s))
  <2>1. WithinCount(s, schedule, Executing(s))
    BY <1>6 DEF LInv, Budget
  <2>2. /\ Forgotten(s) \in Nat /\ Limit[s] \in Nat /\ runs[s] \in Nat
        /\ schedule[s].count \in Nat
    BY <1>1, ForgottenIsNat DEF Records
  <2>3. CASE s # a
    BY <2>1, <2>3, <1>2, <1>5 DEF WithinCount
  <2>4. CASE s = a
    BY <2>1, <2>2, <2>4, <1>2, <1>3, <1>5, <1>6 DEF WithinCount
  <2> QED BY <2>3, <2>4
<1>7. ASSUME NEW s \in Schedules PROVE Ahead(s, table, Others(j, s))
  <2>1. Ahead(s, schedule, Executing(s))
    BY DEF LInv, FiredBefore
  <2>2. CASE s # a
    BY <2>1, <2>2, <1>2, <1>5 DEF Ahead
  <2>3. CASE s = a
    <3> SUFFICES ASSUME NEW d \in Dates, table[a].known, table[a].next # Never, d >= table[a].next
                 PROVE  ran[a][d] <= crashes
      BY <2>1, <2>3 DEF Ahead
    <3>1. table[a].next = NextDate(a, now)
      BY <1>5
    <3>2. d > now
      <4> DEFINE later == NextDate(a, now)
      <4>1. later \in Dates /\ later > now /\ d >= later /\ now \in 0..MaxTime
        BY <3>1, <1>1, <1>4
      <4> HIDE DEF later, now
      <4> QED BY <4>1, <1>1
    <3> QED BY <3>2 DEF LInv, FiredBefore
  <2> QED BY <2>2, <2>3
<1> QED BY <1>6, <1>7 DEF table

(* No schedule has been executed at first (constructor).                   *)
LEMMA LimitsInit == Init => LInv
<1> SUFFICES ASSUME Init PROVE LInv
  OBVIOUS
<1>1. IInv /\ Numbers
  BY TypedInit, NumbersHold
<1>2. \A s \in Schedules : ~schedule[s].known /\ ~Executing(s) /\ runs[s] = 0
  BY DEF Init, Empty, Absent, Executing, Idle
<1>3. crashes = 0 /\ up /\ \A s \in Schedules, d \in Dates : ran[s][d] = 0
  BY DEF Init
<1>4. Untouched
  BY DEF Init, Untouched
<1>5. Budget
  <2> SUFFICES ASSUME NEW s \in Schedules PROVE WithinCount(s, schedule, Executing(s))
    BY DEF Budget
  <2>1. Forgotten(s) \in Nat /\ Limit[s] \in Nat
    BY <1>1, ForgottenIsNat DEF Numbers
  <2> QED BY <2>1, <1>2, <1>3 DEF WithinCount
<1>6. FiredBefore
  BY <1>2, <1>3 DEF FiredBefore, Ahead, Init, Idle
<1> QED BY <1>4, <1>5, <1>6 DEF LInv

(* One case per action; only a crash raises what may be forgotten.         *)
LEMMA LimitsStep == IInv /\ LInv /\ [Next]_vars => LInv'
<1> SUFFICES ASSUME IInv, LInv, [Next]_vars PROVE LInv'
  OBVIOUS
<1>a. Numbers /\ TypeOK /\ JobsAreAt /\ DownIsEmpty
  BY NumbersHold DEF IInv
<1>b. /\ Count \in Nat /\ MaxTime \in Nat /\ Limit \in [Schedules -> Nat]
      /\ clock \in 0..MaxTime /\ made \in 0..Count /\ crashes \in Nat
      /\ schedule \in [Schedules -> Records] /\ Sound(schedule)
      /\ job \in [Jobs -> JobRecords]
      /\ runs \in [Schedules -> Nat] /\ ran \in [Schedules -> [Dates -> Nat]]
      /\ Dates \subseteq Nat
  BY <1>a DEF Numbers
<1>c. ASSUME NEW j \in Jobs PROVE job[j].pc # "idle" => up
  BY <1>a DEF DownIsEmpty, Idle
<1>d. ASSUME NEW s \in Schedules
      PROVE  NextDate(s, clock) \in Dates /\ NextDate(s, clock) > clock
  BY <1>b, NextDateIsLater
<1>e. runs' \in [Schedules -> Nat]
  <2>1. IInv'
    BY TypedStep
  <2>2. TypeOK'
    BY <2>1 DEF IInv
  <2> QED BY <2>2 DEF TypeOK
<1>1. ASSUME NEW j \in Jobs, StartTick(j) PROVE LInv'
  <2>1. /\ up /\ job[j].pc # "tick"
        /\ Continue(j, 0, clock, schedule)
        /\ UNCHANGED <<up, clock, made, crashes>>
    BY <1>1 DEF StartTick, Busy
  <2>2. \A s \in Schedules : Executing(s) = Others(j, s)
    BY <2>1 DEF Executing, Others
  <2>3. /\ \A s \in Schedules : Limit[s] # 0 => WithinCount(s, schedule, Others(j, s))
        /\ \A s \in Schedules : Ahead(s, schedule, Others(j, s))
        /\ \A k \in Jobs \ {j} : job[k].pc = "tick" => FiredBy(k)
        /\ Untouched
    BY <2>2, <1>a, <1>b DEF LInv, Budget, FiredBefore, FiredBy, JobsAreAt, JobRecords
  <2>4. /\ 0 \in 0..Count /\ clock \in 0..clock /\ Numbers /\ up
        /\ schedule \in [Schedules -> Records] /\ Sound(schedule)
    BY <2>1, <1>a, <1>b
  <2> QED BY <2>1, <2>3, <2>4, ContinueKeepsLimits
<1>2. ASSUME NEW j \in Jobs, EndExecution(j) PROVE LInv'
  <2> DEFINE s == job[j].at
             now == job[j].now
             table == Counted(s, now)
  <2>1. /\ job[j].pc = "tick" /\ now \in 0..clock /\ s \in Schedules /\ s \in 0..Count /\ up
    BY <1>2, <1>a, <1>b, <1>c DEF EndExecution, JobsAreAt, JobRecords, Schedules
  <2>2. table \in [Schedules -> Records] /\ Sound(table)
    BY <2>1, <1>a, CountedIsSound
  <2>3. /\ \A q \in Schedules : Limit[q] # 0 => WithinCount(q, table, Others(j, q))
        /\ \A q \in Schedules : Ahead(q, table, Others(j, q))
    BY <2>1, <1>a, CountedKeepsLimits
  <2>4. Continue(j, s, now, table) /\ UNCHANGED <<up, clock, made, crashes>>
    BY <1>2 DEF EndExecution
  <2>5. Untouched /\ \A k \in Jobs \ {j} : job[k].pc = "tick" => FiredBy(k)
    BY <1>a, <1>b DEF LInv, FiredBefore, FiredBy, JobsAreAt, JobRecords
  <2>6. job[j].at = s
    OBVIOUS
  <2> HIDE DEF s, now, table
  <2> QED BY <2>1, <2>2, <2>3, <2>4, <2>5, <2>6, <1>a, ContinueKeepsLimits
<1>3. ASSUME NEW j \in Jobs, BeginWrite(j) \/ EndWrite(j) \/ SaveFails(j) PROVE LInv'
  <2>1. /\ job[j].pc # "tick" /\ job'[j].pc # "tick"
        /\ \A k \in Jobs : k # j => job'[k] = job[k]
        /\ UNCHANGED <<up, clock, made, schedule, crashes, runs, ran>>
    BY <1>3, <1>b DEF BeginWrite, EndWrite, SaveFails, Idle, JobRecords
  <2>2. \A s \in Schedules : Executing(s)' <=> Executing(s)
    BY <2>1 DEF Executing
  <2>3. Untouched'
    BY <2>1 DEF LInv, Untouched
  <2>4. Budget'
    BY <2>1, <2>2 DEF LInv, Budget, WithinCount, Forgotten
  <2>5. FiredBefore'
    BY <2>1, <2>2 DEF LInv, FiredBefore, Ahead
  <2> QED BY <2>3, <2>4, <2>5 DEF LInv
<1>12. CASE ClockAdvances
  <2>1. /\ clock' = clock + 1 /\ UNCHANGED <<up, made, schedule, job, crashes, runs, ran>>
    BY <1>12 DEF ClockAdvances
  <2>2. \A s \in Schedules : Executing(s)' <=> Executing(s)
    BY <2>1 DEF Executing
  <2>3. Untouched'
    BY <2>1 DEF LInv, Untouched
  <2>4. Budget'
    BY <2>1, <2>2 DEF LInv, Budget, WithinCount, Forgotten
  <2>5. \A d \in Dates : d > clock' => d > clock
    BY <2>1, <1>b
  <2>6. FiredBefore'
    BY <2>1, <2>2, <2>5 DEF LInv, FiredBefore, Ahead
  <2> QED BY <2>3, <2>4, <2>6 DEF LInv
<1>13. CASE Crash
  <2>1. /\ crashes' = crashes + 1 /\ schedule' = Empty /\ job' = [j \in Jobs |-> Idle]
        /\ UNCHANGED <<clock, made, runs, ran>>
    BY <1>13 DEF Crash
  <2>2. \A s \in Schedules : ~schedule'[s].known
    BY <2>1 DEF Empty, Absent
  <2>3. Untouched'
    BY <2>1 DEF LInv, Untouched, Idle
  <2>4. ASSUME NEW s \in Schedules, Limit[s] # 0
        PROVE  WithinCount(s, schedule, Executing(s))'
    <3>1. Forgotten(s)' = Forgotten(s) + Limit[s]
      <4>1. \A m, n \in Nat : m * (n + 1) = m * n + m
        OBVIOUS
      <4> QED BY <4>1, <2>1, <1>b DEF Forgotten
    <3>2. runs[s] <= Forgotten(s) + Limit[s]
      BY <2>4 DEF LInv, Budget, WithinCount
    <3>3. Forgotten(s) \in Nat /\ Limit[s] \in Nat /\ runs[s] \in Nat
      BY <1>a, <1>b, ForgottenIsNat
    <3> QED BY <2>1, <2>2, <3>1, <3>2, <3>3 DEF WithinCount
  <2>5. \A s \in Schedules, d \in Dates : ran'[s][d] <= crashes' /\ ran'[s][d] <= 1 + crashes'
    <3> SUFFICES ASSUME NEW s \in Schedules, NEW d \in Dates
                 PROVE  ran[s][d] <= crashes' /\ ran[s][d] <= 1 + crashes'
      BY <2>1
    <3>1. ran[s][d] <= 1 + crashes /\ ran[s][d] \in Nat
      BY <1>b DEF LInv, FiredBefore, Ahead
    <3> QED BY <3>1, <2>1, <1>b
  <2>6. FiredBefore'
    BY <2>1, <2>5 DEF FiredBefore, Ahead, Idle
  <2> QED BY <2>3, <2>4, <2>6 DEF LInv, Budget
<1>14. CASE Restart
  <2>1. ~up /\ up' /\ UNCHANGED <<clock, made, job, crashes, runs, ran>>
    BY <1>14 DEF Restart
  <2>2. \A j \in Jobs : job[j].pc # "tick"
    BY <2>1, <1>a DEF DownIsEmpty, Idle
  <2>3. Untouched'
    BY <2>1 DEF LInv, Untouched
  <2>4. \A s \in Schedules : ~Executing(s)'
    BY <2>1, <2>2 DEF Executing
  <2>5. schedule' \in [Schedules -> Records]
    <3>1. IInv'
      BY TypedStep
    <3> QED BY <3>1 DEF IInv, TypeOK
  <2>6. ASSUME NEW s \in Schedules, Limit[s] # 0
        PROVE  WithinCount(s, schedule, Executing(s))'
    <3>1. runs[s] <= Forgotten(s)
      BY <2>1, <2>6 DEF LInv, Budget, WithinCount
    <3>2. /\ Forgotten(s) \in Nat /\ Limit[s] \in Nat /\ runs[s] \in Nat
          /\ Forgotten(s)' = Forgotten(s)
      BY <2>1, <1>a, <1>b, ForgottenIsNat DEF Forgotten
    <3>3. schedule'[s].count \in Nat
      BY <2>5 DEF Records
    <3> QED BY <2>1, <2>4, <2>6, <3>1, <3>2, <3>3 DEF WithinCount
  <2>7. \A s \in Schedules, d \in Dates : ran'[s][d] <= crashes' /\ ran'[s][d] <= 1 + crashes'
    BY <2>1 DEF LInv, FiredBefore, Ahead
  <2>8. FiredBefore'
    BY <2>1, <2>2, <2>7 DEF FiredBefore, Ahead
  <2> QED BY <2>3, <2>6, <2>8 DEF LInv, Budget
<1>15. CASE UNCHANGED vars
  <2>1. UNCHANGED <<up, clock, made, schedule, job, crashes, runs, ran>>
    BY <1>15 DEF vars
  <2>2. \A s \in Schedules : Executing(s)' <=> Executing(s)
    BY <2>1 DEF Executing
  <2>3. Untouched'
    BY <2>1 DEF LInv, Untouched
  <2>4. Budget'
    BY <2>1, <2>2 DEF LInv, Budget, WithinCount, Forgotten
  <2>5. FiredBefore'
    BY <2>1, <2>2 DEF LInv, FiredBefore, Ahead
  <2> QED BY <2>3, <2>4, <2>5 DEF LInv
<1>16. ASSUME NEW j \in Jobs, Request(j) \/ EndTrigger(j) PROVE LInv'
  <2>1. PICK s \in Schedules, row \in Records, r \in JobRecords :
           Puts(j, s, row, r) /\ (Untouched => Lenient(s, row)) /\ job[j].pc # "tick"
    BY <1>16, RequestPuts
  <2>2. Lenient(s, row)
    BY <2>1 DEF LInv
  <2> QED BY <2>1, <2>2, <1>a, <1>e, RequestKeepsLimits
<1> QED
  BY <1>1, <1>2, <1>3, <1>12, <1>13, <1>14, <1>15, <1>16 DEF Next, Proceeds

(* Both invariants hold together.                                          *)
LEMMA LimitsHold == Spec => [](IInv /\ LInv)
<1>1. Init => IInv /\ LInv
  BY TypedInit, LimitsInit
<1>2. IInv /\ LInv /\ [Next]_vars => (IInv /\ LInv)'
  BY TypedStep, LimitsStep
<1> QED BY <1>1, <1>2, PTL DEF Spec

(* Of the executions that begin while no other of its schedule is under    *)
(* way there are no more than its limit since it was enabled, a crash      *)
(* forgetting no more than one limit's worth (RunsWithinLimit).            *)
THEOREM LimitsAreKept == Spec => []RunsWithinLimit
<1>1. IInv /\ LInv => RunsWithinLimit
  <2> SUFFICES ASSUME IInv, LInv, NEW s \in Schedules, Limit[s] # 0
               PROVE  runs[s] <= Limit[s] * (1 + crashes)
    BY DEF RunsWithinLimit
  <2>1. Limit[s] \in Nat /\ crashes \in Nat
    BY NumbersHold DEF Numbers
  <2>2. runs[s] <= Limit[s] * crashes + Limit[s]
    BY DEF LInv, Budget, WithinCount, Forgotten
  <2>3. \A m, n \in Nat : m * (1 + n) = m * n + m
    OBVIOUS
  <2> QED BY <2>1, <2>2, <2>3
<1> QED BY <1>1, LimitsHold, PTL

(* Of the same executions there is one for each date, and one more per     *)
(* crash, whatever times the ticks in progress started at (OncePerDate).   *)
THEOREM DatesFireOnce == Spec => []OncePerDate
<1>1. IInv /\ LInv => OncePerDate
  BY DEF OncePerDate, LInv, FiredBefore, Ahead
<1> QED BY <1>1, LimitsHold, PTL
=============================================================================
