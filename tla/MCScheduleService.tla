-------------------------- MODULE MCScheduleService --------------------------
(* Instances of ScheduleService for TLC. *)
EXTENDS ScheduleService, TLC

CONSTANTS j1, j2

TwoJobs == {j1, j2}

(* One schedule has a single date within the run, minute 2, after which it *)
(* expires.  The other has a date every minute; it starts in minute 2, and *)
(* runs once.  So both are due then.                                       *)
TwoPeriods == <<2, 1>>
TwoLimits == <<0, 1>>
TwoStarts == <<0, 2>>
TwoEnds == <<2, 0>>
=============================================================================
