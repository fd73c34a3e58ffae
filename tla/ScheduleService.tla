--------------------------- MODULE ScheduleService ---------------------------
(***************************************************************************)
(* src/src/services/scheduleService.js: recurring tasks, the 30 s tick     *)
(* that fires those that are due, and the schedules.json they are kept in. *)
(*                                                                         *)
(* Time is counted in minutes, cron's grain; several ticks fit in one.  A  *)
(* cron expression is a period.  An execution is awaited: an agent's       *)
(* prompt is pushed within a tick, a flow may run for hours, while the     *)
(* timer starts the next ticks.  An action is the code between two awaits. *)
(***************************************************************************)
EXTENDS Naturals, FiniteSets

CONSTANTS Count,      \* how many schedules may be created: 1..Count (a bound)
          Period,     \* Period[s]: the distance of its cron dates
          Limit,      \* Limit[s]: maxRuns, or 1 for runOnce; 0 when unlimited
          From,       \* From[s]: startDate; 0 when there is none
          Until,      \* Until[s]: endDate; 0 when there is none
          Jobs,       \* ticks and requests that may be in progress (a bound)
          MaxTime,    \* a bound
          MaxUpsets,  \* edits and failing saves that may happen (a bound)
          MaxCrashes, \* a bound
          Many        \* how far the histories count (a bound)

Schedules == 1..Count
Dates == 0..MaxTime + 10

ASSUME ScheduleAssumption ==
  /\ Count \in Nat
  /\ Period \in [Schedules -> 1..10] /\ Limit \in [Schedules -> Nat]
  /\ From \in [Schedules -> Nat] /\ Until \in [Schedules -> Nat]
  /\ {MaxTime, MaxUpsets, MaxCrashes, Many} \subseteq Nat

VARIABLES
  up,        \* is the process running?
  clock,
  made,      \* how many schedules were created so far
  schedule,  \* this.schedules: the schedule objects, or Absent
  job,       \* the ticks and requests in progress
  file,      \* schedules.json
  upsets,    \* edits and failed saves so far
  crashes,
  runs,      \* history only: executions of s since it was enabled, and
  ran        \* ran[s][d]: for the date d, those ticks began while no other was
             \* executing s

vars == <<up, clock, made, schedule, job, file, upsets, crashes,
          runs, ran>>

Never == 0
Absent == [known |-> FALSE, enabled |-> FALSE, next |-> Never, count |-> 0]
Empty == [s \in Schedules |-> Absent]
None == 0
Idle == [pc |-> "idle", now |-> 0, at |-> None, snapshot |-> Empty]
File(state, content) == [state |-> state, content |-> content]
Busy(j) == job[j].pc # "idle"
Of(pc) == {j \in Jobs : job[j].pc = pc}
More(n) == IF n < Many THEN n + 1 ELSE n
Earliest(S) == CHOOSE s \in S : \A r \in S : s <= r
-----------------------------------------------------------------------------
Records == [known : BOOLEAN, enabled : BOOLEAN, next : Dates, count : Nat]

TypeOK ==
  /\ {up} \subseteq BOOLEAN
  /\ clock \in 0..MaxTime /\ made \in 0..Count
  /\ schedule \in [Schedules -> Records]
  /\ \A s \in Schedules :
       /\ schedule[s].known => s <= made
       /\ schedule[s].enabled => schedule[s].known /\ schedule[s].next > Never
  /\ job \in [Jobs -> [pc : {"idle", "tick", "trigger", "saving", "writing"},
                       now : 0..MaxTime, at : Schedules \cup {None},
                       snapshot : [Schedules -> Records]]]
  /\ file \in [state : {"whole", "empty", "mixed"}, content : [Schedules -> Records]]
  /\ upsets \in 0..MaxUpsets /\ crashes \in 0..MaxCrashes
  /\ runs \in [Schedules -> Nat]
  /\ ran \in [Schedules -> [Dates -> Nat]]

Init ==
  /\ up = TRUE /\ clock = 0 /\ made = 0
  /\ schedule = Empty
  /\ job = [j \in Jobs |-> Idle]
  /\ file = File("whole", Empty)
  /\ upsets = 0 /\ crashes = 0
  /\ runs = [s \in Schedules |-> 0]
  /\ ran = [s \in Schedules |-> [d \in Dates |-> 0]]

(* getNextCronDate: the first date after t. *)
NextDate(s, t) == ((t \div Period[s]) + 1) * Period[s]
-----------------------------------------------------------------------------
(* _tick, from one awaited execution to the next: what has expired on the  *)
(* way is disabled.                                                        *)
Expired(s, now) == Until[s] # 0 /\ now > Until[s]
Listed(s, table) == table[s].enabled /\ table[s].next # Never
Due(s, now, table) ==
  Listed(s, table) /\ ~Expired(s, now) /\ now >= From[s] /\ now >= table[s].next

Executing(s) == \E j \in Jobs : job[j].pc = "tick" /\ job[j].at = s

\* mutant of Remaining: the table is saved only after something was executed
SavedAfterRuns(first, last, now) ==
  IF first > Count THEN [Idle EXCEPT !.pc = IF last = None THEN "idle" ELSE "saving"]
  ELSE [Idle EXCEPT !.pc = "tick", !.now = now, !.at = first]

(* What a tick has to do after schedule last. *)
Remaining(first, last, now) ==
  IF first > Count THEN [Idle EXCEPT !.pc = "saving"]
  ELSE [Idle EXCEPT !.pc = "tick", !.now = now, !.at = first]

Continue(j, last, now, table) ==
  LET due == {s \in Schedules : s > last /\ Due(s, now, table)}
      first == IF due = {} THEN Count + 1 ELSE Earliest(due)
      gone == {s \in Schedules :
                 s > last /\ s < first /\ Listed(s, table) /\ Expired(s, now)}
      alone == {s \in {first} : ~Executing(s)}
  IN /\ schedule' = [s \in Schedules |->
                       IF s \in gone THEN [table[s] EXCEPT !.enabled = FALSE, !.next = Never]
                                     ELSE table[s]]
     /\ job' = [job EXCEPT ![j] = Remaining(first, last, now)]
     /\ runs' = [s \in Schedules |-> IF s \in alone THEN More(runs[s]) ELSE runs[s]]
     /\ ran' = [s \in Schedules |->
                  IF s \in alone THEN [ran[s] EXCEPT ![table[s].next] = More(@)] ELSE ran[s]]

(* The interval timer, whatever ticks are still in progress. *)
StartTick(j) ==
  /\ up /\ ~Busy(j)
  /\ Continue(j, 0, clock, schedule)
  /\ UNCHANGED <<up, clock, made, file, upsets, crashes>>

Disabled(s) == [schedule EXCEPT ![s].enabled = FALSE, ![s].next = Never, ![s].count = @ + 1]
Advanced(s, now) == [schedule EXCEPT ![s].next = NextDate(s, now), ![s].count = @ + 1]

\* mutant of Counted: the runs are compared with maxRuns before they are counted
CountedLate(s, now) ==
  IF ~schedule[s].known THEN schedule
  ELSE IF Limit[s] # 0 /\ schedule[s].count >= Limit[s] THEN Disabled(s)
  ELSE Advanced(s, now)

\* mutant of Counted: an execution that failed is not recorded
CountedIfSucceeded(s, now) == schedule

(* The bookkeeping on the captured object, which a deletion has taken out  *)
(* of the map.                                                             *)
Counted(s, now) ==
  IF ~schedule[s].known THEN schedule
  ELSE IF Limit[s] # 0 /\ schedule[s].count + 1 >= Limit[s] THEN Disabled(s)
  ELSE Advanced(s, now)

(* _executeSchedule has returned, with its errors caught. *)
EndExecution(j) ==
  /\ job[j].pc = "tick"
  /\ Continue(j, job[j].at, job[j].now, Counted(job[j].at, job[j].now))
  /\ UNCHANGED <<up, clock, made, file, upsets, crashes>>
-----------------------------------------------------------------------------
(* _saveSchedules, after its mkdir: the table is taken and the file        *)
(* truncated, then written.  Two writes at once may leave a mixture.       *)
BeginWrite(j) ==
  /\ job[j].pc = "saving"
  /\ job' = [job EXCEPT ![j].pc = "writing", ![j].snapshot = schedule]
  /\ file' = File("empty", Empty)
  /\ UNCHANGED <<up, clock, made, schedule, upsets, crashes, runs, ran>>

Written(snapshot) ==
  IF file \in {File("empty", Empty), File("whole", snapshot)}
    THEN {File("whole", snapshot)}
    ELSE {File("whole", snapshot), File("mixed", Empty)}

EndWrite(j) ==
  /\ job[j].pc = "writing"
  /\ file' \in Written(job[j].snapshot)
  /\ job' = [job EXCEPT ![j] = Idle]
  /\ UNCHANGED <<up, clock, made, schedule, upsets, crashes, runs, ran>>

(* The disk fails, before the file is truncated or after: the error is     *)
(* caught, and nothing is told of it.                                      *)
SaveFails(j) ==
  /\ job[j].pc \in {"saving", "writing"}
  /\ upsets < MaxUpsets /\ upsets' = upsets + 1
  /\ \/ file' = file
     \/ job[j].pc = "writing" /\ file' = File("mixed", Empty)
  /\ job' = [job EXCEPT ![j] = Idle]
  /\ UNCHANGED <<up, clock, made, schedule, crashes, runs, ran>>
-----------------------------------------------------------------------------
(* createSchedule, updateSchedule and deleteSchedule up to their save.     *)
Saves(j) == job' = [job EXCEPT ![j] = [Idle EXCEPT !.pc = "saving"]]

CreateSchedule(j) ==
  LET s == made + 1 IN
  /\ up /\ ~Busy(j) /\ made < Count
  /\ made' = s
  /\ schedule' = [schedule EXCEPT ![s] =
                    [known |-> TRUE, enabled |-> TRUE, next |-> NextDate(s, clock),
                     count |-> 0]]
  /\ Saves(j)
  /\ UNCHANGED <<up, clock, file, upsets, crashes, runs, ran>>

Edit(j) ==
  /\ up /\ ~Busy(j)
  /\ upsets < MaxUpsets /\ upsets' = upsets + 1

(* Enabled again, a schedule starts from the next date. *)
EnableSchedule(j, s) ==
  /\ Edit(j)
  /\ schedule[s].known /\ ~schedule[s].enabled
  /\ schedule' = [schedule EXCEPT ![s].enabled = TRUE, ![s].next = NextDate(s, clock)]
  /\ runs' = [runs EXCEPT ![s] = 0]
  /\ Saves(j)
  /\ UNCHANGED <<up, clock, made, file, crashes, ran>>

DisableSchedule(j, s) ==
  /\ Edit(j)
  /\ schedule[s].enabled
  /\ schedule' = [schedule EXCEPT ![s].enabled = FALSE]
  /\ Saves(j)
  /\ UNCHANGED <<up, clock, made, file, crashes, runs, ran>>

(* A new cron expression, here of the same period. *)
RescheduleSchedule(j, s) ==
  /\ Edit(j)
  /\ schedule[s].enabled
  /\ schedule' = [schedule EXCEPT ![s].next = NextDate(s, clock)]
  /\ Saves(j)
  /\ UNCHANGED <<up, clock, made, file, crashes, runs, ran>>

DeleteSchedule(j, s) ==
  /\ Edit(j)
  /\ schedule[s].known
  /\ schedule' = [schedule EXCEPT ![s] = Absent]
  /\ Saves(j)
  /\ UNCHANGED <<up, clock, made, file, crashes, runs, ran>>

(* POST /api/schedules/:id/trigger, by a user or, through the CLI, by the  *)
(* entry of the operating system: the schedule is executed at once.        *)
Trigger(j, s) ==
  /\ Edit(j)
  /\ schedule[s].known
  /\ job' = [job EXCEPT ![j] = [Idle EXCEPT !.pc = "trigger", !.at = s]]
  /\ UNCHANGED <<up, clock, made, schedule, file, crashes, runs, ran>>

EndTrigger(j) ==
  LET s == job[j].at IN
  /\ job[j].pc = "trigger"
  /\ schedule' = IF schedule[s].known THEN [schedule EXCEPT ![s].count = @ + 1]
                 ELSE schedule
  /\ Saves(j)
  /\ UNCHANGED <<up, clock, made, file, upsets, crashes, runs, ran>>
-----------------------------------------------------------------------------
ClockAdvances ==
  /\ clock < MaxTime
  /\ clock' = clock + 1
  /\ UNCHANGED <<up, made, schedule, job, file, upsets, crashes, runs, ran>>

(* The process ends, at any moment. *)
Crash ==
  /\ up /\ crashes < MaxCrashes
  /\ crashes' = crashes + 1
  /\ up' = FALSE
  /\ schedule' = Empty
  /\ job' = [j \in Jobs |-> Idle]
  /\ UNCHANGED <<clock, made, file, upsets, runs, ran>>

(* _loadSchedules: a file that cannot be parsed is a first run. *)
Restart ==
  /\ ~up /\ up' = TRUE
  /\ schedule' = IF file.state = "whole" THEN file.content ELSE Empty
  /\ UNCHANGED <<clock, made, job, file, upsets, crashes, runs, ran>>
-----------------------------------------------------------------------------
Request(j) ==
  \/ CreateSchedule(j)
  \/ \E s \in Schedules :
       \/ EnableSchedule(j, s) \/ DisableSchedule(j, s) \/ RescheduleSchedule(j, s)
       \/ DeleteSchedule(j, s)
       \/ Trigger(j, s)
Proceeds(j) == EndExecution(j) \/ EndTrigger(j) \/ BeginWrite(j) \/ EndWrite(j)

Next ==
  \/ \E j \in Jobs : StartTick(j) \/ Proceeds(j) \/ SaveFails(j) \/ Request(j)
  \/ ClockAdvances
  \/ Crash \/ Restart

(* The timer fires, the disk and agents answer, and flows end: every node  *)
(* of theirs has a timeout.                                                *)
Fairness ==
  /\ WF_vars(\E j \in Jobs : StartTick(j))
  /\ \A j \in Jobs : WF_vars(Proceeds(j))
  /\ WF_vars(Restart)

Spec == Init /\ [][Next]_vars /\ Fairness
-----------------------------------------------------------------------------
(* "auto-disable after N executions" (scheduleService.js:196): since it    *)
(* was last enabled, a schedule has not been executed more often than that *)
(* by the ticks, whatever the user edits and triggers.  Beyond it there    *)
(* are only executions begun while another was still under way (RunsOnce), *)
(* and those that a crash made forgotten before they were saved.           *)
RunsWithinLimit ==
  \A s \in Schedules : Limit[s] # 0 => runs[s] <= Limit[s] * (1 + crashes)

(* A date is fired once, however many ticks are in progress with whatever  *)
(* old times, but for a crash between an execution and the save that       *)
(* records it: each repeats it at most once.  A tick that finds the        *)
(* schedule still being executed fires its date again (RunsOnce).          *)
OncePerDate == \A s \in Schedules, d \in Dates : ran[s][d] <= 1 + crashes

(* "Run once then auto-disable" (scheduleService.js:197): what has a limit *)
(* of one is not executed by two ticks at once.  The code does not keep    *)
(* it: nothing marks a schedule until its execution has returned.          *)
RunsOnce ==
  \A j, k \in Of("tick") :
    job[j].at = job[k].at /\ Limit[job[j].at] = 1 => j = k

(* "Check and trigger due schedules each tick" (scheduleService.js:7): what *)
(* is due is executed, or is no longer due because it was edited, in the   *)
(* end, whatever executions are ahead of it and wherever a crash falls.    *)
DueIsHandled ==
  \A s \in Schedules :
    up /\ Due(s, clock, schedule) ~> ~up \/ ~Due(s, clock, schedule)

(* Whatever writes overtake each other or fail, the file is brought up to  *)
(* date by the ticks after them.                                           *)
FileCatchesUp == []<>(up => file = File("whole", schedule))
=============================================================================
