------------------------------- MODULE Flags --------------------------------
(***************************************************************************)
(* The registry of flags: definitions, the command line, and the file of   *)
(* values, a line of which is a sequence of words and signs.  Handlers     *)
(* (kFunc) are left out.                                                   *)
(***************************************************************************)
EXTENDS Integers, Sequences, SequencesExt

CONSTANTS
  FlagType,              (* the name of a flag in the source -> its type   *)
  OtherNames,            (* names that only a command line or file has     *)
  MaxInt,                (* ints are -MaxInt - 1 .. MaxInt                 *)
  MaxInt64,              (* strtoll's limit; uint64 is 0 .. 2*MaxInt64 + 1 *)
  Room,                  (* flags that fit what new Flag*[0] gives (3 with *)
                         (* glibc); more of them write past its end        *)
  FileWords,             (* the words of files by hand                     *)
  FlagFiles              (* files by hand: sequences of lines              *)

\* The characters that LineScanner tells apart from those of a word.
Signs == {" ", "=", "#", "quote", "."}

ASSUME FlagAssumption ==
  /\ {MaxInt, MaxInt64, Room} \subseteq Nat /\ MaxInt <= MaxInt64
  /\ \A name \in DOMAIN FlagType :
       /\ FlagType[name] \in {"bool", "int", "uint64", "string"}
       /\ name \notin Signs
  /\ FlagFiles \subseteq Seq(Seq([text : FileWords, n : Int]))

VARIABLES
  registry,              (* flags_: name -> its type_, changed_            *)
  flagValue,             (* FLAG_name of what is defined                   *)
  initialized,           (* initialized_                                   *)
  file, savedValue,      (* what SaveTo wrote, and the values it wrote     *)
  loaded                 (* the last step was LoadFrom of that             *)

flagVars == <<registry, flagValue, initialized, file, savedValue, loaded>>

Default(type) == CASE type = "bool" -> FALSE
                   [] type \in {"int", "uint64"} -> 0
                   [] type = "string" -> "null"

\* The values that a program assigns.
Values(type) == CASE type = "bool" -> {TRUE}
                  [] type = "int" -> {-MaxInt - 1}
                  [] type = "uint64" -> {MaxInt64, 2 * MaxInt64 + 1}
                  [] type = "string" -> {"text"}

FlagsInit ==
  /\ registry = <<>> /\ flagValue = <<>>
  /\ initialized = FALSE
  /\ file = <<>> /\ savedValue = <<>> /\ loaded = FALSE

Known(name) == name \in DOMAIN registry /\ registry[name].type # "unknown"

\* A function that gives y for x, and else what f gives.
With(f, x, y) == [z \in DOMAIN f \cup {x} |-> IF z = x THEN y ELSE f[z]]

\* AddFlag, or Recognize of a name that is there, which is changed if what it
\* was given suits its type.
AddFlag(name, type) ==
  /\ name \notin DOMAIN registry => Cardinality(DOMAIN registry) < Room
  /\ \E changed \in {FALSE, (name \in DOMAIN registry)} :
       registry' = With(registry, name, [type |-> type, changed |-> changed])
-----------------------------------------------------------------------------
\* A word is a string, or a number: what strtol and strtoll read, and what is
\* left of it in an int and in a uint64.
Bounded(n) == IF n > MaxInt64 THEN MaxInt64
              ELSE IF n < -MaxInt64 - 1 THEN -MaxInt64 - 1 ELSE n
IntOf(n) == ((n + MaxInt + 1) % (2 * MaxInt + 2)) - MaxInt - 1
UintOf(n) == n % (2 * MaxInt64 + 2)

\* SetFlagFromString: whether a type takes a word, and its value.  An empty
\* word is the number 0.
Takes(type, word) ==
  CASE type = "bool" -> word.text \in {"true", "false"}
    [] type \in {"int", "uint64"} -> word.text \in {"number", ""}
    [] type = "string" -> TRUE
    [] type = "unknown" -> FALSE

ValueOf(type, word) ==
  CASE type = "bool" -> word.text = "true"
    [] type = "int" -> IntOf(Bounded(word.n))
    [] type = "uint64" -> UintOf(Bounded(word.n))
    [] type = "string" -> "text"

\* Values and changed_ after SetFlag(name, word), from those of before.
SetFlag(state, name, word) ==
  IF name \in DOMAIN state.flags /\ Takes(state.flags[name].type, word)
  THEN [flags |-> [state.flags EXCEPT ![name].changed = TRUE],
        values |-> [state.values EXCEPT
                      ![name] = ValueOf(state.flags[name].type, word)]]
  ELSE state

\* Register_bool and the like, in the initializer of FLAG_name.  What was
\* given for the name before is set by Recognize, but the initializer goes
\* on to assign the default.
Define(name) ==
  /\ name \in DOMAIN FlagType /\ ~Known(name)
  /\ AddFlag(name, FlagType[name])
  /\ flagValue' = With(flagValue, name, Default(FlagType[name]))
  /\ loaded' = FALSE
  /\ UNCHANGED <<initialized, file, savedValue>>

\* Parse of a --name option, by ProcessCommandLineFlags: a name that is not
\* defined yet is kept, and one that is defined is not touched.
Parse(name) ==
  /\ ~initialized
  /\ name \notin DOMAIN registry
  /\ AddFlag(name, "unknown")
  /\ loaded' = FALSE
  /\ UNCHANGED <<flagValue, initialized, file, savedValue>>

Processed ==
  /\ ~initialized /\ initialized' = TRUE
  /\ loaded' = FALSE
  /\ UNCHANGED <<registry, flagValue, file, savedValue>>

\* The program assigns FLAG_name.
Assign(name) ==
  /\ Known(name)
  /\ \E v \in Values(FlagType[name]) :
       flagValue' = [flagValue EXCEPT ![name] = v]
  /\ loaded' = FALSE
  /\ UNCHANGED <<registry, initialized, file, savedValue>>
-----------------------------------------------------------------------------
Sign(text) == [text |-> text, n |-> 0]
Number(n) == [text |-> "number", n |-> n]
Nothing == [kind |-> "none", word |-> Sign(""), rest |-> <<>>]

\* What is between quotes at 1 and q.
Quotation(line, q) ==
  IF q = 2 THEN Sign("") ELSE IF q = 3 THEN line[2] ELSE Sign("text")

\* LineScanner::Next of a line that does not begin with a blank: a word, an
\* equals sign or what is between quotes.  The closing quote is not passed: the
\* next token begins with it.
Token(line) ==
  LET quotes == {i \in 2 .. Len(line) : line[i].text = "quote"}
  IN  IF line[1].text = "="
      THEN [kind |-> "assign", word |-> line[1], rest |-> Tail(line)]
      ELSE IF line[1].text = "quote" /\ quotes # {}
      THEN [kind |-> "value", word |-> Quotation(line, Min(quotes)),
            rest |-> SubSeq(line, Min(quotes), Len(line))]
      ELSE IF line[1].text \in Signs THEN Nothing
      ELSE [kind |-> "name", word |-> line[1], rest |-> Tail(line)]

\* LineScanner::Next: the token after the blanks.
Scan(line) ==
  LET words == {i \in DOMAIN line : line[i].text # " "}
  IN  IF words = {} THEN Nothing
      ELSE Token(SubSeq(line, Min(words), Len(line)))

\* A line of LoadFrom: name = value and no token more, or it has no effect.
LoadLine(state, line) ==
  LET name == Scan(line)  assign == Scan(name.rest)
      value == Scan(assign.rest)  more == Scan(value.rest)
  IN  IF /\ name.kind = "name" /\ assign.kind = "assign"
         /\ value.kind \in {"value", "name"} /\ more.kind = "none"
      THEN SetFlag(state, name.word.text, value.word) ELSE state

\* Each line after what the lines before it made.
Loaded(state, lines) ==
  LET after[k \in 0 .. Len(lines)] ==
        IF k = 0 THEN state ELSE LoadLine(after[k - 1], lines[k])
  IN  after[Len(lines)]

LoadFrom(lines) ==
  LET after == Loaded([flags |-> registry, values |-> flagValue], lines)
  IN  /\ registry' = after.flags /\ flagValue' = after.values
      /\ loaded' = (lines = file /\ file # <<>>)
      /\ UNCHANGED <<initialized, file, savedValue>>

\* Mutant: only flags that were set are saved.
SavedChanged(name) == Known(name) /\ registry[name].changed
Saved(name) == Known(name)

\* Repr.  Of a string it writes the bytes of the pointer, whatever they are.
Repr(type, v) ==
  CASE type = "bool" -> <<Sign(IF v THEN "true" ELSE "false")>>
    [] type \in {"int", "uint64"} -> <<Number(v)>>
    [] type = "string" -> <<Sign("quote"), Sign("bytes"), Sign("quote")>>

Line(name, v) ==
  <<Sign(name), Sign(" "), Sign("="), Sign(" ")>> \o Repr(FlagType[name], v)

SaveTo ==
  /\ LET names == SetToSeq({name \in DOMAIN registry : Saved(name)})
     IN  file' = [k \in DOMAIN names |-> Line(names[k], flagValue[names[k]])]
  /\ savedValue' = [name \in {n \in DOMAIN registry : Known(n)} |->
                      flagValue[name]]
  /\ loaded' = FALSE
  /\ UNCHANGED <<registry, flagValue, initialized>>

FlagsNext ==
  \/ \E name \in DOMAIN FlagType : Define(name) \/ Assign(name)
  \/ \E name \in DOMAIN FlagType \cup OtherNames : Parse(name)
  \/ Processed \/ SaveTo
  \/ \E lines \in FlagFiles \cup {file} : LoadFrom(lines)

FlagsSpec == FlagsInit /\ [][FlagsNext]_flagVars
-----------------------------------------------------------------------------
\* Flags.h:79-81: loading the file that was saved gives the flags the values
\* they had then, whatever was defined, assigned or loaded since.  (Not a
\* string, and not a uint64 beyond the range of int64.)
LoadGivesSaved ==
  loaded => \A name \in DOMAIN savedValue :
    \/ FlagType[name] = "string"
    \/ FlagType[name] = "uint64" /\ savedValue[name] > MaxInt64
    \/ flagValue[name] = savedValue[name]
=============================================================================
