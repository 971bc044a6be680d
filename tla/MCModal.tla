------------------------------- MODULE MCModal -------------------------------
(* The settings of ModalBench for TLC.                                       *)
EXTENDS ModalBench

CONSTANTS stock, ours, p1, p2

\* Money for less than two containers, loads, probes and runs that can take long.
\* The margin covers an overrun of the probe at the first reserve, as in the script,
\* and not at the least one.
Spend ==
  [Builds |-> <<stock, ours>>, NumRuns |-> 1, Pools |-> {p1}, Unread |-> FALSE, Budget |-> 22, MinUseful |-> 6,
   Timeout |-> 14, Margin |-> 3, ServerWait |-> 5, LoadTimes |-> {1, 5}, ProbeTime |-> 4, ProbeTimes |-> {0, 4},
   StopTime |-> 2, Reserve0 |-> 3, ReserveMin |-> 2, MinRunTime |-> 1, RunTimes |-> {1, 3}, MaxCalls |-> 3,
   Warm |-> FALSE, OtherSpends |-> {}]

\* Two runs of each build on pools of two sizes, containers that are used again,
\* and another container that books.
Resume ==
  [Spend EXCEPT !.NumRuns = 2, !.Pools = {p1, p2}, !.Budget = 50, !.Timeout = 6, !.Margin = 0,
                !.ServerWait = 1, !.LoadTimes = {1}, !.ProbeTime = 0, !.ProbeTimes = {0}, !.StopTime = 0,
                !.Reserve0 = 1, !.ReserveMin = 1, !.RunTimes = {1}, !.MaxCalls = 2,
                !.Warm = TRUE, !.OtherSpends = {5}]

\* One run of each build, alone, with logs that may not show the pool.
Unreadable == [Resume EXCEPT !.NumRuns = 1, !.Unread = TRUE, !.OtherSpends = {}]

\* Time and money for all runs in one container.
Ample ==
  [Resume EXCEPT !.Budget = 100, !.Timeout = 14, !.Margin = 2, !.ServerWait = 3, !.StopTime = 1,
                 !.Reserve0 = 2, !.Warm = FALSE, !.OtherSpends = {}]

MCSettings == {Spend, Resume, Unreadable}
MCAmple == {Ample}
============================================================================
