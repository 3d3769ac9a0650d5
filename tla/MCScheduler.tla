---------------------------- MODULE MCScheduler ----------------------------
(* Days of three hours, weeks of two days.  The vault has no registry yet, *)
(* or one that predates the themes job, with a job of the operator's.      *)
EXTENDS Scheduler

CONSTANTS daily, themes, crystallize, custom

Entry(id, c) == [id |-> id, cadence |-> c, enabled |-> TRUE]
MCBuiltIns == <<Entry(daily, Daily(1)), Entry(themes, Weekly(0, 1)), Entry(crystallize, Weekly(0, 2))>>
MCRegistries ==
    {<<>>, <<Entry(daily, Daily(1)), Entry(crystallize, Weekly(0, 2))>>,
     <<Entry(custom, EveryHours(2)), Entry(daily, Daily(1)), Entry(crystallize, Broken)>>}
MCHandWritten == {Entry(daily, Broken), Entry(daily, EveryHours(2))}
MCDailyCadences == {Daily(2)}
MCBackoff == <<0, 1>>

ASSUME MCThemesComeFirst == ThemesComeFirst
=============================================================================
