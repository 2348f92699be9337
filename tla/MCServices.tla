----------------------------- MODULE MCServices -----------------------------
(***************************************************************************)
(* The components that share no state with another, side by side: each     *)
(* behaviour is one of the component that component names, and leaves the  *)
(* variables of the others as they are, so that their states add up.       *)
(***************************************************************************)
EXTENDS MCCron, Calendar, PeriodDays, DailyClock, Text, DList,
        KqueueEpoll, HostByName, SysEnv, Singletons, AppLock, Signals, Flags,
        Arena, TLC

VARIABLE component

\* A few expressions of cron, without those that search for years.
MCFewExpressions == {x \in MCExpressions : x.months = star \/ x.hours # Num(0)}

MCOffsets == {1, 31, -7}

MCDays == {0, 20201230, 20201231, 20210101, 20210104, 20210131, 20210201, 20210331,
           20210401, 20210630, 20210701, 20211231, 20220103, 20220131}

MCEnvLists == {<<3, 0, 1, 3>>}

MCFlagType ==
  [print_flags |-> "bool", dump_metrics |-> "int",
   limit |-> "uint64", path |-> "string"]

\* A file by hand: a comment, quotes, a line without a sign, a word too many.
MCFlagFiles == {
  << <<Sign("print_flags"), Sign("="), Sign("true"), Sign(" "), Sign("#")>>,
     <<Sign("dump_metrics"), Sign(" "), Sign("="),
       Sign("quote"), Number(5), Sign("quote")>>,
     <<Sign("#"), Sign("limit"), Sign("="), Number(1)>>,
     <<Sign("limit"), Sign("="), Number(9), Sign(" "), Sign("a")>>,
     <<Sign("print_flags"), Sign(" "), Sign("false")>>,
     <<Sign("path"), Sign("="), Sign("quote"), Sign("a"), Sign("quote")>> >>}

-----------------------------------------------------------------------------
\* A component whose Init has several states begins in one of them while
\* another one runs.
MCInit ==
  /\ component \in {"cron", "calendar", "period", "daily", "text", "dlist",
                    "kqueue", "host", "sysenv", "singleton", "app", "signal",
                    "flags", "arena"}
  /\ CronInit /\ CalendarInit /\ TextInit /\ DListInit /\ KqInit /\ HostInit
  /\ SigInit /\ FlagsInit /\ ArenaInit
  /\ IF component = "period" THEN PeriodInit
     ELSE period = "W" /\ days = <<>> /\ slice = <<>> /\ lastSliceDay = 0
  /\ IF component = "daily" THEN DailyInit
     ELSE /\ dayNow = 0 /\ clockSec = 0 /\ notifyMs = -1
          /\ notified = {} /\ since = 0
  /\ IF component = "sysenv" THEN SysEnvInit
     ELSE /\ given = <<>> /\ envList = <<>> /\ pvEnv = [x \in EnvCo |-> <<>>]
          /\ environ = [n \in EnvNames |-> "unset"] /\ hooked = {}
          /\ said = [s \in EnvCo \X EnvNames |-> "unset"]
  /\ IF component = "singleton" THEN SingletonInit
     ELSE /\ lifetime = "Default" /\ instance = 0 /\ destroyed = FALSE
          /\ destroyedOnce = FALSE /\ holder = "none"
          /\ step = [t \in Threads |-> "idle"] /\ sin = [t \in Threads |-> 0]
          /\ exit = "running" /\ handlers = 0
          /\ made = 0 /\ alive = {} /\ undisturbed = {}
  /\ IF component = "app" THEN AppInit
     ELSE /\ lockable = TRUE /\ pidFile = "absent" /\ lockedBy = "none"
          /\ appStep = [p \in Processes |-> "off"]

MCStep ==
  \/ component = "cron" /\ CronNext
  \/ component = "calendar" /\ CalendarNext
  \/ component = "period" /\ PeriodNext
  \/ component = "daily" /\ DailyNext
  \/ component = "text" /\ TextNext
  \/ component = "dlist" /\ DListNext
  \/ component = "kqueue" /\ KqNext
  \/ component = "host" /\ HostNext
  \/ component = "sysenv" /\ SysEnvNext
  \/ component = "singleton" /\ SingletonNext
  \/ component = "app" /\ AppNext
  \/ component = "signal" /\ SigNext
  \/ component = "flags" /\ FlagsNext
  \/ component = "arena" /\ ArenaNext

Rest(name, vars) == IF component = name THEN TRUE ELSE UNCHANGED vars

MCNext ==
  /\ MCStep
  /\ UNCHANGED component
  /\ Rest("cron", cronVars)
  /\ Rest("calendar", date) /\ Rest("period", periodVars)
  /\ Rest("daily", dailyVars) /\ Rest("text", <<text, pat>>)
  /\ Rest("dlist", dlistVars) /\ Rest("kqueue", kqVars)
  /\ Rest("host", hostVars) /\ Rest("sysenv", envVars)
  /\ Rest("singleton", singletonVars) /\ Rest("app", appVars)
  /\ Rest("signal", sigVars) /\ Rest("flags", flagVars)
  /\ Rest("arena", arenaVars)

MCVars ==
  <<component, cronVars, date, periodVars, dailyVars, text, pat, dlistVars,
    kqVars, hostVars, envVars, singletonVars, appVars, sigVars,
    flagVars, arenaVars>>

MCSpec == MCInit /\ [][MCNext]_MCVars
=============================================================================
