------------------------------ MODULE Arguments ------------------------------
(***************************************************************************)
(* The command line: ParseArguments of IMG3_Main.cpp.  args are the        *)
(* arguments behind the command, so that args[1] is argv[2].               *)
(*                                                                         *)
(* A word is an argument that is no option.  What the code finds in a name *)
(* by looking for commas, underscores, '=' and '(' is given by Says.       *)
(***************************************************************************)
EXTENDS Integers, Sequences, FiniteSetsExt

CONSTANTS
    Word,       \* file names, devices, versions, builds and sections
    Unsaid,     \* what a name does not tell
    Says,       \* argument -> what can be read from it as the name of a file
    Length,     \* argument -> its number of characters
    Cut,        \* argument -> its beginnings, by their length
    Lower,      \* argument -> the same in small letters
    Kernel,     \* "kernelcache"
    Typed       \* the builds a user may type in

Option == {"-d", "-b", "-v", "-s", "-h"}
Argument == Word \cup Option
Command == {"decrypt", "update", "list", "extract", "patch", "parse", "decompress"}

ASSUME ArgumentsAssumption ==
    /\ Word \cap Option = {} /\ Unsaid \notin Word
    /\ Says \in [Argument -> [model: Word \cup {Unsaid}, prefix: Word \cup {Unsaid},
                              version: Word \cup {Unsaid}, pageDevice: Word \cup {Unsaid},
                              build: Word \cup {Unsaid}]]
    /\ Length \in [Argument -> Nat]
    /\ DOMAIN Cut = Argument
    /\ \A w \in Argument : Cut[w] \in [0..Length[w] -> Argument] /\ Cut[w][Length[w]] = w
    /\ Lower \in [Argument -> Argument]
    /\ Kernel \in Word /\ Typed \subseteq Word

VARIABLES
    operation, args,
    argPc,      \* where ParseArguments is; "accepted" or "refused" in the end
    index,      \* the place in args of the loop over the options
    settings    \* deviceName, deviceBuild, deviceVersion, section, and the file names

argVars == <<operation, args, argPc, index, settings>>

Setting == {"device", "build", "version", "section", "archive", "patch"}

\* A string in memory; one that is not ended goes on with whatever is behind it.
Text == [word: Argument, ended: BOOLEAN]
Null == [word |-> "NULL"]
Whole(w) == [word |-> w, ended |-> TRUE]
Unended(w) == [word |-> w, ended |-> FALSE]
NoSettings == [s \in Setting |-> Null]

ArgInit ==
    /\ operation = "none"
    /\ args = <<>>
    /\ argPc = "idle"
    /\ index = 0
    /\ settings = NoSettings

-----------------------------------------------------------------------------
(* What a command takes. *)

Taken(c) ==
    CASE c = "decrypt" -> {"-d", "-b", "-v", "-s"}
      [] c = "update" -> {"-d", "-b", "-v"}
      [] c = "extract" -> {"-s"}
      [] c = "patch" -> {"-d", "-v"}
      [] OTHER -> {}

SettingOf(o) ==
    CASE o = "-d" -> "device" [] o = "-b" -> "build" [] o = "-v" -> "version" [] OTHER -> "section"

\* The section is kept in small letters.
ValueOf(o, w) == Whole(IF o = "-s" THEN Lower[w] ELSE w)

\* Enough arguments, and for list no "-h" at the first place.
Callable(c, l) ==
    /\ c \in Command /\ Len(l) >= 1
    /\ c \in {"parse", "decompress"} => Len(l) = 1
    /\ c = "patch" => Len(l) >= 5
    /\ c = "list" => l[1] # "-h"

\* The last argument is not looked at, and update and extract have the number of
\* arguments that is sensible written into their loops.
LastOption(c, l) ==
    CASE c = "update" -> Min({6, Len(l) - 1})
      [] c = "extract" -> Min({2, Len(l) - 1})
      [] OTHER -> Len(l) - 1

-----------------------------------------------------------------------------
Goto(step) == argPc' = step
Becomes(setting, text) == settings' = [settings EXCEPT ![setting] = text]

\* main calls ParseArguments; a process begins with no settings.
ParseArguments(c, l) ==
    /\ argPc = "idle"
    /\ operation' = c
    /\ args' = l
    /\ index' = 1
    /\ Goto(IF ~Callable(c, l) THEN "refused" ELSE IF Taken(c) = {} THEN "names" ELSE "options")
    /\ UNCHANGED settings

InOptions ==
    /\ argPc = "options"
    /\ index <= LastOption(operation, args)

\* Mutant: an option that was given before keeps its value.
TakeOption_first ==
    /\ InOptions
    /\ args[index] \in Taken(operation)
    /\ LET s == SettingOf(args[index]) IN
       IF settings[s] = Null THEN Becomes(s, ValueOf(args[index], args[index + 1])) ELSE UNCHANGED settings
    /\ index' = index + 2
    /\ UNCHANGED <<operation, args, argPc>>

\* An option and, whatever it is, the argument behind it.
TakeOption ==
    /\ InOptions
    /\ args[index] \in Taken(operation)
    /\ Becomes(SettingOf(args[index]), ValueOf(args[index], args[index + 1]))
    /\ index' = index + 2
    /\ UNCHANGED <<operation, args, argPc>>

\* "-h", or an argument that is no option of the command; patch passes over it.
OtherArgument ==
    /\ InOptions
    /\ args[index] \notin Taken(operation)
    /\ \/ operation = "patch" /\ index' = index + 1 /\ UNCHANGED argPc
       \/ operation # "patch" /\ Goto("refused") /\ UNCHANGED index
    /\ UNCHANGED <<operation, args, settings>>

EndOptions ==
    /\ argPc = "options"
    /\ index > LastOption(operation, args)
    /\ Goto("names")
    /\ UNCHANGED <<operation, args, index, settings>>

\* The last argument is the file, also when it is the value of an option; patch takes
\* the one before as the file of patches.
TakeNames ==
    /\ argPc = "names"
    /\ settings' = [settings EXCEPT
           !.archive = Whole(args[Len(args)]),
           !.patch = IF operation = "patch" THEN Whole(args[Len(args) - 1]) ELSE @]
    /\ Goto(CASE operation \in {"decrypt", "patch"} -> "device"
              [] operation = "update" -> "pageDevice"
              [] OTHER -> "accepted")
    /\ UNCHANGED <<operation, args, index>>

Says_(what) == Says[settings.archive.word][what]
Missing(setting) == settings[setting] = Null
Keep(setting, next) == ~Missing(setting) /\ Goto(next) /\ UNCHANGED settings
Refuse(setting, what) == Missing(setting) /\ Says_(what) = Unsaid /\ Goto("refused") /\ UNCHANGED settings

(* ----- decrypt and patch ----------------------------------------------- *)

\* The names that stand for the first models are copied without their terminators.
DeviceFromName ==
    /\ argPc = "device"
    /\ \/ Keep("device", "version")
       \/ /\ Missing("device") /\ Says_("model") # Unsaid
          /\ Becomes("device", Unended(Says_("model")))
          /\ Goto("version")
       \/ /\ Missing("device") /\ Says_("model") = Unsaid /\ Says_("prefix") # Unsaid
          /\ Becomes("device", Whole(Says_("prefix")))
          /\ Goto("version")
       \/ Says_("model") = Unsaid /\ Refuse("device", "prefix")
    /\ UNCHANGED <<operation, args, index>>

\* A terminator at place n; behind the end of the string it changes nothing of it.
Terminated(text, n) ==
    IF n <= Length[text.word] THEN Whole(Cut[text.word][n]) ELSE text

\* The version is copied from the name, and its terminator is written into the name
\* of the device.
VersionFromName ==
    /\ argPc = "version"
    /\ \/ Keep("version", "section")
       \/ /\ Missing("version") /\ Says_("version") # Unsaid
          /\ settings' = [settings EXCEPT
                 !.version = Unended(Says_("version")),
                 !.device = Terminated(@, Length[Says_("version")])]
          /\ Goto("section")
       \/ Refuse("version", "version")
    /\ UNCHANGED <<operation, args, index>>

\* patch works on the kernel; decrypt does not miss a section that was not given.
TakeSection ==
    /\ argPc = "section"
    /\ IF operation = "patch" THEN Becomes("section", Whole(Kernel)) ELSE UNCHANGED settings
    /\ Goto("accepted")
    /\ UNCHANGED <<operation, args, index>>

(* ----- update ---------------------------------------------------------- *)

DeviceOfPage ==
    /\ argPc = "pageDevice"
    /\ \/ Keep("device", "build")
       \/ /\ Missing("device") /\ Says_("pageDevice") # Unsaid
          /\ Becomes("device", Whole(Says_("pageDevice")))
          /\ Goto("build")
       \/ Refuse("device", "pageDevice")
    /\ UNCHANGED <<operation, args, index>>

\* The user is asked whether the build is right, and if not for another one.  The line
\* end behind that one is taken for the answer to the second question.
BuildOfPage ==
    /\ argPc = "build"
    /\ \/ Keep("build", "pageVersion")
       \/ /\ Missing("build") /\ Says_("build") # Unsaid
          /\ \E b \in Typed \cup {Says_("build")} : Becomes("build", Whole(b))
          /\ Goto("pageVersion")
       \/ Refuse("build", "build")
    /\ UNCHANGED <<operation, args, index>>

\* Mutant: the version is not asked for.
VersionOfPage_any ==
    /\ argPc = "pageVersion"
    /\ Goto("accepted")
    /\ UNCHANGED <<operation, args, index, settings>>

VersionOfPage ==
    /\ argPc = "pageVersion"
    /\ Goto(IF Missing("version") THEN "refused" ELSE "accepted")
    /\ UNCHANGED <<operation, args, index, settings>>

-----------------------------------------------------------------------------
ArgNext ==
    \/ TakeOption \/ OtherArgument \/ EndOptions \/ TakeNames
    \/ DeviceFromName \/ VersionFromName \/ TakeSection
    \/ DeviceOfPage \/ BuildOfPage \/ VersionOfPage

-----------------------------------------------------------------------------
ArgTypeOK ==
    /\ operation \in Command \cup {"none", "unknown"}
    /\ args \in Seq(Argument)
    /\ argPc \in {"idle", "options", "names", "device", "version", "section",
                  "pageDevice", "build", "pageVersion", "accepted", "refused"}
    /\ index \in 0..Len(args) + 1
    /\ settings \in [Setting -> Text \cup {Null}]

(* ----- What the line says, apart from how it is parsed ----------------- *)

\* The options right before a place, each of which would take the argument behind it.
OptionsBefore(i) == i - 1 - Max({0} \cup {j \in 1..i - 1 : args[j] \notin Taken(operation)})

\* The places that are looked at as options: not those that an option takes.
Examined == {i \in 1..LastOption(operation, args) : OptionsBefore(i) % 2 = 0}

Given(o) == {i \in Examined : args[i] = o /\ o \in Taken(operation)}
Value(o) == ValueOf(o, args[Max(Given(o)) + 1])

\* The device, version and build that the name of the file stands for.
ByName(s) ==
    CASE s = "device" ->
            IF operation = "update" THEN Says_("pageDevice")
            ELSE IF Says_("model") # Unsaid THEN Says_("model") ELSE Says_("prefix")
      [] s = "version" -> Says_("version")
      [] s = "build" -> Says_("build")

FromName(c) ==
    CASE c \in {"decrypt", "patch"} -> {"device", "version"}
      [] c = "update" -> {"device", "build"}
      [] OTHER -> {}

Beginnings(w) == {Cut[w][n] : n \in 0..Length[w]}

\* Each setting is the argument behind the last option for it, wherever the options
\* stand, and without one what the name of the file says, or what the user typed.
\* Only the device may have lost its end: when the version is taken from the name.
SettingsAsGiven ==
    argPc = "accepted" =>
        /\ \A o \in Taken(operation) : Given(o) # {} =>
              \/ settings[SettingOf(o)] = Value(o)
              \/ /\ o = "-d" /\ operation # "update" /\ Given("-v") = {}
                 /\ settings.device.word \in Beginnings(Value(o).word)
        /\ \A o \in Taken(operation) \ {"-s"} :
              Given(o) = {} /\ SettingOf(o) \in FromName(operation) =>
                LET s == SettingOf(o) IN
                \/ settings[s].word = ByName(s)
                \/ s = "build" /\ settings[s].word \in Typed
                \/ /\ s = "device" /\ operation # "update" /\ Given("-v") = {}
                   /\ settings[s].word \in Beginnings(ByName(s))

\* What the function behind a command cannot do without.
Needed(c) ==
    CASE c = "decrypt" -> {"archive", "device", "version", "section"}
      [] c = "update" -> {"archive", "device", "build", "version"}
      [] c = "patch" -> {"archive", "patch", "device", "version", "section"}
      [] OTHER -> {"archive"}
=============================================================================
