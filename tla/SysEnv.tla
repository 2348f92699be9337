------------------------------- MODULE SysEnv -------------------------------
(***************************************************************************)
(* The environment of coroutines with hooks: co_set_env_list, and setenv,  *)
(* unsetenv and getenv, which keep the variables of that list in an array  *)
(* of the coroutine and leave the others to the process.                   *)
(***************************************************************************)
EXTENDS Naturals, Sequences, SequencesExt, FiniteSetsExt

CONSTANTS
  EnvCo,                 (* the coroutines                                 *)
  EnvNames,              (* the names of variables, as numbers that order  *)
                         (* them; 0 is an empty name of a list             *)
  EnvValues,             (* their values                                   *)
  EnvLists               (* the arguments of co_set_env_list               *)

ASSUME EnvAssumption ==
  /\ EnvNames \subseteq Nat \ {0}
  /\ EnvLists \subseteq Seq(EnvNames \cup {0}) \ {<<>>}

VARIABLES
  given,                 (* the argument of the first co_set_env_list, or  *)
                         (* <<>> while g_co_sysenv.data is NULL            *)
  envList,               (* g_co_sysenv: its names, sorted                 *)
  pvEnv,                 (* coroutine -> its array, a sequence of pairs of *)
                         (* a name and a value, <<>> if NULL               *)
  environ,               (* the process: name -> value, or "unset"         *)
  hooked,                (* coroutines with hooks                          *)
  said                   (* <<coroutine, name>> -> what it last set, as a  *)
                         (* caller would say                               *)

envVars == <<given, envList, pvEnv, environ, hooked, said>>

SysEnvInit ==
  /\ given = <<>> /\ envList = <<>>
  /\ pvEnv = [c \in EnvCo |-> <<>>]
  /\ environ \in [EnvNames -> {"unset", "process"}]
  /\ hooked \in SUBSET EnvCo
  /\ said = [s \in EnvCo \X EnvNames |-> "unset"]

\* qsort of the names that are not empty, by strcmp.
Sorted(names) ==
  LET order == CHOOSE p \in SetToSeqs({k \in DOMAIN names : names[k] # 0}) :
                 \A i, j \in DOMAIN p : i <= j => names[p[i]] <= names[p[j]]
  IN  [i \in DOMAIN order |-> names[order[i]]]

\* The loop that copies each name that differs from the last one kept.
Unique(sorted) ==
  LET kept[n \in 0 .. Len(sorted)] ==
        IF n = 0 THEN <<>>
        ELSE IF n > 1 /\ Last(kept[n - 1]) = sorted[n] THEN kept[n - 1]
        ELSE Append(kept[n - 1], sorted[n])
  IN  kept[Len(sorted)]

\* The first call counts; empty names are passed over.
co_set_env_list(names) ==
  /\ given = <<>> /\ given' = names
  /\ envList' = Unique(Sorted(names))
  /\ UNCHANGED <<pvEnv, environ, hooked, said>>

\* dup_co_sysenv_arr, at the first call of a coroutine.
Array(c) ==
  IF pvEnv[c] # <<>> THEN pvEnv[c]
  ELSE [k \in DOMAIN envList |-> [name |-> envList[k], value |-> "unset"]]

Private(c) == c \in hooked /\ given # <<>>

\* bsearch, which promises to find a name only in an array that is sorted.
Found(arr, n) ==
  LET at == {k \in DOMAIN arr : arr[k].name = n}
      sorted == \A i, j \in DOMAIN arr : i < j => arr[i].name <= arr[j].name
  IN  IF sorted /\ at # {} THEN CHOOSE k \in at : TRUE ELSE 0

\* Mutant: a value that is there stays, whatever overwrite says.
StoredOnce(old, value, overwrite) == IF old = "unset" THEN value ELSE old
Stored(old, value, overwrite) ==
  IF overwrite \/ old = "unset" THEN value ELSE old

\* setenv, and unsetenv, which stores no value: of the array, or the process.
SetEnv(c, n, value, overwrite) ==
  /\ IF Private(c) /\ Found(Array(c), n) # 0
     THEN /\ pvEnv' = [pvEnv EXCEPT
               ![c] = [Array(c) EXCEPT ![Found(Array(c), n)].value =
                         Stored(@, value, overwrite)]]
          /\ said' = [said EXCEPT ![<<c, n>>] =
               IF overwrite \/ @ = "unset" THEN value ELSE @]
          /\ UNCHANGED environ
     ELSE /\ pvEnv' = IF ~Private(c) THEN pvEnv
                      ELSE [pvEnv EXCEPT ![c] = Array(c)]
          /\ environ' = [environ EXCEPT ![n] = Stored(@, value, overwrite)]
          /\ UNCHANGED said
  /\ UNCHANGED <<given, envList, hooked>>

\* What getenv returns.
getenv(c, n) ==
  IF Private(c) /\ Found(Array(c), n) # 0
  THEN Array(c)[Found(Array(c), n)].value ELSE environ[n]

\* co_enable_hook_sys and co_disable_hook_sys.
SwitchHooks(c) ==
  /\ hooked' = IF c \in hooked THEN hooked \ {c} ELSE hooked \cup {c}
  /\ UNCHANGED <<given, envList, pvEnv, environ, said>>

\* co_release and co_create: the array goes with the object (and leaks).
\* co_reset, in contrast, leaves it to the next function.
Recreate(c) ==
  /\ pvEnv[c] # <<>>
  /\ pvEnv' = [pvEnv EXCEPT ![c] = <<>>]
  /\ hooked' = hooked \ {c}
  /\ said' = [s \in DOMAIN said |-> IF s[1] = c THEN "unset" ELSE said[s]]
  /\ UNCHANGED <<given, envList, environ>>

SysEnvNext ==
  \/ \E names \in EnvLists : co_set_env_list(names)
  \/ \E c \in EnvCo :
       \/ \E n \in EnvNames, value \in EnvValues \cup {"unset"} :
            \E overwrite \in BOOLEAN :
              (value = "unset" => overwrite) /\ SetEnv(c, n, value, overwrite)
       \/ SwitchHooks(c) \/ Recreate(c)

SysEnvSpec == SysEnvInit /\ [][SysEnvNext]_envVars
-----------------------------------------------------------------------------
\* co_hook_sys_call.cpp:855-944: a coroutine with hooks reads of a listed
\* variable what it wrote itself, and the process has not got to know of it:
\* whatever the list was given as, with names twice or empty, and whatever
\* other coroutines and coroutines without hooks wrote.
EnvIsPrivate ==
  \A c \in EnvCo, n \in EnvNames :
    Private(c) =>
      getenv(c, n) = IF Contains(given, n) THEN said[<<c, n>>] ELSE environ[n]
=============================================================================
