---------------------------- MODULE ProgramProofs ----------------------------
(***************************************************************************)
(* What holds in every run of the program, for any number of runs and any  *)
(* command lines, archives, pages and sections: the command line, the list *)
(* of an archive, the cells of a section, and then the program that goes   *)
(* from the one to the next.                                               *)
(***************************************************************************)
EXTENDS Program, ExtremaProofs, FiniteSetTheorems

-----------------------------------------------------------------------------
(* The command line: options and what they take.                           *)

LEMMA TextNotNull ==
    \A t \in Text : t # Null
<1> SUFFICES ASSUME NEW t \in Text PROVE t # Null
  OBVIOUS
<1>1. DOMAIN t = {"word", "ended"} /\ DOMAIN Null = {"word"}
  BY DEF Text, Null
<1> QED
  BY <1>1

LEMMA LastOptionBound ==
    ASSUME NEW c \in Command, NEW l \in Seq(Argument), Callable(c, l)
    PROVE  LastOption(c, l) \in Int /\ LastOption(c, l) <= Len(l) - 1 /\ Len(l) >= 1
<1>1. Len(l) \in Nat /\ Len(l) >= 1
  BY DEF Callable, Command
<1> DEFINE k == Len(l) - 1
<1>2. k \in Int
  BY <1>1
<1>3. Min({6, k}) \in Int /\ Min({6, k}) <= k
  <2> HIDE DEF k
  <2>1. 6 \in Int
    OBVIOUS
  <2>2. Min({6, k}) \in {6, k} /\ Min({6, k}) <= k
    BY <1>2, <2>1, MinTwo, Zenon
  <2> QED
    BY <1>2, <2>2
<1>4. Min({2, k}) \in Int /\ Min({2, k}) <= k
  <2> HIDE DEF k
  <2>1. 2 \in Int
    OBVIOUS
  <2>2. Min({2, k}) \in {2, k} /\ Min({2, k}) <= k
    BY <1>2, <2>1, MinTwo, Zenon
  <2> QED
    BY <1>2, <2>2
<1>5. LastOption(c, l) \in Int /\ LastOption(c, l) <= k
  <2>1. LastOption(c, l) = CASE c = "update" -> Min({6, k}) [] c = "extract" -> Min({2, k}) [] OTHER -> k
    BY DEF LastOption
  <2> HIDE DEF k
  <2> QED
    BY <1>2, <1>3, <1>4, <2>1
<1> QED
  BY <1>1, <1>5

\* The last place before i that is not an option, 0 when there is none.
NonOptions(i) == {0} \cup {j \in 1..i - 1 : args[j] \notin Taken(operation)}

LEMMA OptionsBeforeStep ==
    ASSUME NEW i \in Nat \ {0}
    PROVE  /\ OptionsBefore(i) \in Nat
           /\ OptionsBefore(i + 1) =
                 IF args[i] \in Taken(operation) THEN OptionsBefore(i) + 1 ELSE 0
<1>1. /\ NonOptions(i) \in SUBSET Int /\ NonOptions(i + 1) \in SUBSET Int
      /\ 0 \in NonOptions(i) /\ 0 \in NonOptions(i + 1)
      /\ \A x \in NonOptions(i) : x <= i - 1
      /\ \A x \in NonOptions(i + 1) : x <= i
  BY DEF NonOptions
<1>2. Max(NonOptions(i)) \in NonOptions(i) /\ \A y \in NonOptions(i) : Max(NonOptions(i)) >= y
  <2>1. NonOptions(i) # {} /\ i - 1 \in Int
    BY <1>1
  <2> QED
    BY <1>1, <2>1, MaxIn
<1>3. Max(NonOptions(i + 1)) \in NonOptions(i + 1)
      /\ \A y \in NonOptions(i + 1) : Max(NonOptions(i + 1)) >= y
  <2>1. NonOptions(i + 1) # {} /\ i \in Int
    BY <1>1
  <2> QED
    BY <1>1, <2>1, MaxIn
<1>4. OptionsBefore(i) = i - 1 - Max(NonOptions(i))
      /\ OptionsBefore(i + 1) = i - Max(NonOptions(i + 1))
  BY <1>2, <1>3 DEF OptionsBefore, NonOptions
<1>5. Max(NonOptions(i)) \in 0..i - 1 /\ Max(NonOptions(i + 1)) \in 0..i
  BY <1>2, <1>3 DEF NonOptions
<1>6. CASE args[i] \in Taken(operation)
  <2>1. NonOptions(i + 1) = NonOptions(i)
    <3>1. \A j \in 1..i : args[j] \notin Taken(operation) => j \in 1..i - 1
      BY <1>6
    <3> QED
      BY <3>1 DEF NonOptions
  <2> QED
    BY <1>4, <1>5, <1>6, <2>1
<1>7. CASE args[i] \notin Taken(operation)
  <2>1. i \in NonOptions(i + 1)
    BY <1>7 DEF NonOptions
  <2>2. Max(NonOptions(i + 1)) = i
    BY <1>3, <1>5, <2>1
  <2> QED
    BY <1>4, <1>5, <1>7, <2>2
<1> QED
  BY <1>6, <1>7

-----------------------------------------------------------------------------
(* The invariant.  While the options are read, a setting is the argument   *)
(* behind the last option for it so far; behind them, what was not given   *)
(* is missing until the name of the file resolves it.                      *)

GivenBelow(o, i) == {j \in Given(o) : j < i}

LoadedBelow(i) ==
    \A o \in Taken(operation) :
        settings[SettingOf(o)] =
            IF GivenBelow(o, i) = {} THEN Null ELSE ValueOf(o, args[Max(GivenBelow(o, i)) + 1])

Loading ==
    argPc = "options" => index # 0 /\ OptionsBefore(index) % 2 = 0 /\ LoadedBelow(index)

Resolved ==
    CASE argPc \in {"version", "build"} -> {"device"}
      [] argPc = "section" -> {"device", "version"}
      [] argPc = "pageVersion" -> {"device", "build"}
      [] argPc = "accepted" -> FromName(operation)
      [] OTHER -> {}

\* The version was taken from the name, and the device may have lost its end.
VersionTaken == operation # "update" /\ Given("-v") = {} /\ argPc \in {"section", "accepted"}

IsFromName(s) ==
    /\ settings[s] \in Text
    /\ \/ settings[s].word = ByName(s)
       \/ s = "build" /\ settings[s].word \in Typed
       \/ s = "device" /\ VersionTaken /\ settings[s].word \in Beginnings(ByName(s))

IsGiven(o) ==
    \/ settings[SettingOf(o)] = Value(o)
    \/ /\ o = "-d" /\ VersionTaken
       /\ settings.device \in Text /\ settings.device.word \in Beginnings(Value(o).word)

Named == {"device", "version", "section", "pageDevice", "build", "pageVersion", "accepted"}

Parsed ==
    argPc \in {"names"} \cup Named =>
        \A o \in Taken(operation) :
            IF Given(o) # {} THEN IsGiven(o)
            ELSE IF SettingOf(o) \in Resolved THEN IsFromName(SettingOf(o))
            ELSE settings[SettingOf(o)] = Null

Shape ==
    /\ argPc \notin {"idle", "refused"} => operation \in Command /\ Callable(operation, args)
    /\ argPc = "idle" => settings = NoSettings
    /\ argPc \in {"device", "version", "section"} => operation \in {"decrypt", "patch"}
    /\ argPc \in {"pageDevice", "build", "pageVersion"} => operation = "update"
    /\ argPc \in Named =>
          /\ settings.archive = Whole(args[Len(args)])
          /\ operation = "patch" => settings.patch # Null
    /\ argPc = "accepted" =>
          /\ operation = "update" => settings.version # Null
          /\ operation = "patch" => settings.section # Null

ArgInv == ArgTypeOK /\ Shape /\ Loading /\ Parsed

-----------------------------------------------------------------------------
(* What a step that leaves the line alone cannot change.  *)

LEMMA SameLine ==
    ASSUME UNCHANGED <<operation, args>>
    PROVE  /\ \A o : Given(o)' = Given(o) /\ Value(o)' = Value(o)
           /\ \A o, i : GivenBelow(o, i)' = GivenBelow(o, i)
           /\ \A i : OptionsBefore(i)' = OptionsBefore(i)
<1>1. \A i : OptionsBefore(i)' = OptionsBefore(i)
  BY DEF OptionsBefore
<1>2. Examined' = Examined
  BY DEF Examined, OptionsBefore
<1>3. \A o : Given(o)' = Given(o)
  BY <1>2 DEF Given
<1>4. \A o : Value(o)' = Value(o)
  BY <1>3 DEF Value
<1>5. \A o, i : GivenBelow(o, i)' = GivenBelow(o, i)
  BY <1>3 DEF GivenBelow
<1> QED
  BY <1>1, <1>3, <1>4, <1>5

LEMMA SettingOfOption ==
    /\ \A o \in {"-d", "-b", "-v", "-s"} : SettingOf(o) \in {"device", "build", "version", "section"}
    /\ \A o, u \in {"-d", "-b", "-v", "-s"} : SettingOf(o) = SettingOf(u) => o = u
    /\ \A c : Taken(c) \subseteq {"-d", "-b", "-v", "-s"}
<1>1. \A c : Taken(c) \subseteq {"-d", "-b", "-v", "-s"}
  BY DEF Taken
<1>2. /\ SettingOf("-d") = "device" /\ SettingOf("-b") = "build"
      /\ SettingOf("-v") = "version" /\ SettingOf("-s") = "section"
  BY DEF SettingOf
<1> QED
  BY <1>1, <1>2

\* The places where an option is given are among those of the loop.
LEMMA GivenInLoop ==
    ASSUME ArgTypeOK, operation \in Command, Callable(operation, args), NEW o
    PROVE  /\ \A j \in Given(o) : /\ j \in Nat /\ 1 <= j /\ j <= LastOption(operation, args)
                                  /\ j + 1 \in 1..Len(args) /\ args[j] = o /\ o \in Taken(operation)
           /\ LastOption(operation, args) \in Int /\ LastOption(operation, args) <= Len(args) - 1
<1>1. LastOption(operation, args) \in Int /\ LastOption(operation, args) <= Len(args) - 1 /\ Len(args) >= 1
  BY LastOptionBound DEF ArgTypeOK
<1>2. Len(args) \in Nat
  BY DEF ArgTypeOK
<1> QED
  BY <1>1, <1>2 DEF Given, Examined

LEMMA ValueIsText ==
    ASSUME ArgTypeOK, operation \in Command, Callable(operation, args), NEW o, Given(o) # {}
    PROVE  Value(o) \in Text
<1>1. \A j \in Given(o) : j \in Nat /\ j <= LastOption(operation, args) /\ j + 1 \in 1..Len(args)
  BY GivenInLoop
<1>2. Max(Given(o)) \in Given(o)
  <2>1. LastOption(operation, args) \in Int
    BY GivenInLoop
  <2>2. Given(o) \in SUBSET Int /\ \A x \in Given(o) : x <= LastOption(operation, args)
    BY <1>1
  <2> QED
    BY <2>1, <2>2, MaxIn
<1>3. args[Max(Given(o)) + 1] \in Argument
  BY <1>1, <1>2 DEF ArgTypeOK
<1> QED
  BY <1>3, ArgumentsAssumption DEF Value, ValueOf, Whole, Text

-----------------------------------------------------------------------------
(* The actions.  *)

\* The loop goes on at i.
LEMMA LoadingAt ==
    ASSUME UNCHANGED <<operation, args>>, NEW i, index' = i, i # 0,
           OptionsBefore(i) % 2 = 0,
           \A o \in Taken(operation) :
              settings'[SettingOf(o)] =
                 IF GivenBelow(o, i) = {} THEN Null ELSE ValueOf(o, args[Max(GivenBelow(o, i)) + 1])
    PROVE  Loading'
<1>1. OptionsBefore(index)' = OptionsBefore(i)
  BY DEF OptionsBefore
<1>2. \A o : Given(o)' = Given(o)
  BY SameLine
<1>3. LoadedBelow(index)'
  BY <1>2 DEF LoadedBelow, GivenBelow
<1> QED
  BY <1>1, <1>3 DEF Loading

LEMMA OptionStep ==
    ASSUME ArgInv, TakeOption
    PROVE  ArgInv'
<1> USE DEF ArgInv
<1>1. /\ argPc = "options" /\ argPc' = "options" /\ operation' = operation /\ args' = args
      /\ index' = index + 2 /\ index <= LastOption(operation, args)
      /\ args[index] \in Taken(operation)
      /\ settings' = [settings EXCEPT ![SettingOf(args[index])] = ValueOf(args[index], args[index + 1])]
  BY DEF TakeOption, InOptions, Becomes
<1>2. /\ operation \in Command /\ Callable(operation, args)
      /\ index \in Nat /\ index # 0 /\ OptionsBefore(index) % 2 = 0 /\ LoadedBelow(index)
  BY <1>1 DEF Shape, Loading, ArgTypeOK
<1>3. /\ index + 1 \in 1..Len(args) /\ Len(args) \in Nat
      /\ LastOption(operation, args) \in Int
  BY <1>1, <1>2, GivenInLoop DEF ArgTypeOK
<1>4. args[index] \in {"-d", "-b", "-v", "-s"} /\ args[index + 1] \in Argument
  BY <1>1, <1>3, SettingOfOption DEF ArgTypeOK
<1>5. ValueOf(args[index], args[index + 1]) \in Text
  BY <1>4, ArgumentsAssumption DEF ValueOf, Whole, Text
<1>6. ArgTypeOK'
  <2>1. SettingOf(args[index]) \in Setting
    BY <1>4, SettingOfOption DEF Setting
  <2> QED
    BY <1>1, <1>2, <1>3, <1>5, <2>1 DEF ArgTypeOK
<1>7. Shape'
  BY <1>1, <1>2 DEF Shape, Named
<1>8. OptionsBefore(index + 1) % 2 = 1 /\ OptionsBefore(index + 2) % 2 = 0
  <2>1. OptionsBefore(index) \in Nat /\ OptionsBefore(index + 1) = OptionsBefore(index) + 1
    BY <1>1, <1>2, OptionsBeforeStep
  <2>2. index + 1 \in Nat \ {0} /\ (index + 1) + 1 = index + 2
    BY <1>2
  <2>3. OptionsBefore(index + 2) = IF args[index + 1] \in Taken(operation) THEN OptionsBefore(index + 1) + 1 ELSE 0
    BY <2>2, OptionsBeforeStep
  <2> QED
    BY <1>2, <2>1, <2>3
<1>9. \A o : /\ GivenBelow(o, index + 2) = GivenBelow(o, index) \cup (IF args[index] = o THEN {index} ELSE {})
             /\ \A j \in GivenBelow(o, index) : j \in Int /\ j < index
  <2> SUFFICES ASSUME NEW o
               PROVE  /\ GivenBelow(o, index + 2) = GivenBelow(o, index) \cup (IF args[index] = o THEN {index} ELSE {})
                      /\ \A j \in GivenBelow(o, index) : j \in Int /\ j < index
    OBVIOUS
  <2>1. index + 1 \notin Given(o)
    BY <1>8 DEF Given, Examined
  <2>2. index \in Given(o) <=> args[index] = o
    BY <1>1, <1>2, <1>3 DEF Given, Examined
  <2>3. \A j \in Given(o) : j \in Int
    BY <1>2, GivenInLoop
  <2>4. \A j \in Int : j < index + 2 <=> j < index \/ j = index \/ j = index + 1
    BY <1>2
  <2> QED
    BY <1>2, <2>1, <2>2, <2>3, <2>4 DEF GivenBelow
<1>10. \A o \in Taken(operation) :
          settings'[SettingOf(o)] =
             IF GivenBelow(o, index + 2) = {} THEN Null
             ELSE ValueOf(o, args[Max(GivenBelow(o, index + 2)) + 1])
  <2> SUFFICES ASSUME NEW o \in Taken(operation)
               PROVE  settings'[SettingOf(o)] =
                         IF GivenBelow(o, index + 2) = {} THEN Null
                         ELSE ValueOf(o, args[Max(GivenBelow(o, index + 2)) + 1])
    OBVIOUS
  <2>1. o \in {"-d", "-b", "-v", "-s"} /\ SettingOf(o) \in Setting
    BY SettingOfOption DEF Setting
  <2>2. CASE o = args[index]
    <3>1. GivenBelow(o, index + 2) = GivenBelow(o, index) \cup {index}
      BY <1>9, <2>2
    <3>2. Max(GivenBelow(o, index + 2)) = index
      <4>1. GivenBelow(o, index + 2) \in SUBSET Int /\ index \in GivenBelow(o, index + 2)
            /\ \A y \in GivenBelow(o, index + 2) : index >= y
        BY <1>2, <1>9, <3>1
      <4> QED
        BY <4>1, MaxIs
    <3> QED
      BY <1>1, <2>1, <2>2, <3>1, <3>2 DEF ArgTypeOK
  <2>3. CASE o # args[index]
    <3>1. GivenBelow(o, index + 2) = GivenBelow(o, index)
      BY <1>9, <2>3
    <3>2. SettingOf(o) # SettingOf(args[index])
      BY <1>4, <2>1, <2>3, SettingOfOption
    <3> QED
      BY <1>1, <1>2, <2>1, <3>1, <3>2 DEF ArgTypeOK, LoadedBelow
  <2> QED
    BY <2>2, <2>3
<1>11. Loading'
  <2>1. PICK i : i = index + 2
    OBVIOUS
  <2>2. i # 0 /\ index' = i
    BY <1>1, <1>2, <2>1
  <2>3. /\ OptionsBefore(i) % 2 = 0
        /\ \A o \in Taken(operation) :
              settings'[SettingOf(o)] =
                 IF GivenBelow(o, i) = {} THEN Null ELSE ValueOf(o, args[Max(GivenBelow(o, i)) + 1])
    BY <1>8, <1>10, <2>1
  <2> QED
    BY <1>1, <2>2, <2>3, LoadingAt
<1>12. Parsed'
  BY <1>1 DEF Parsed, Named
<1> QED
  BY <1>6, <1>7, <1>11, <1>12

\* patch passes over what is no option of it.
LEMMA OtherStep ==
    ASSUME ArgInv, OtherArgument
    PROVE  ArgInv'
<1> USE DEF ArgInv
<1>1. /\ argPc = "options" /\ operation' = operation /\ args' = args /\ settings' = settings
      /\ index <= LastOption(operation, args) /\ args[index] \notin Taken(operation)
      /\ \/ argPc' = "options" /\ index' = index + 1
         \/ argPc' = "refused" /\ index' = index
  BY DEF OtherArgument, InOptions, Goto
<1>2. /\ operation \in Command /\ Callable(operation, args)
      /\ index \in Nat /\ index # 0 /\ LoadedBelow(index)
  BY <1>1 DEF Shape, Loading, ArgTypeOK
<1>3. index + 1 \in 1..Len(args) /\ Len(args) \in Nat
  BY <1>1, <1>2, GivenInLoop DEF ArgTypeOK
<1>4. ArgTypeOK' /\ Shape' /\ Parsed'
  BY <1>1, <1>2, <1>3 DEF ArgTypeOK, Shape, Parsed, Named
<1>5. Loading'
  <2>1. CASE argPc' = "refused"
    BY <2>1 DEF Loading
  <2>2. CASE argPc' = "options" /\ index' = index + 1
    <3>1. PICK i : i = index + 1
      OBVIOUS
    <3>2. OptionsBefore(i) % 2 = 0
      <4>1. index \in Nat \ {0}
        BY <1>2
      <4>2. OptionsBefore(index + 1) = 0
        BY <1>1, <4>1, OptionsBeforeStep
      <4> QED
        BY <3>1, <4>2
    <3>3. \A o : GivenBelow(o, i) = GivenBelow(o, index)
      <4> SUFFICES ASSUME NEW o, NEW j \in Given(o) PROVE j < i <=> j < index
        BY DEF GivenBelow
      <4>1. j \in Nat /\ j # index
        BY <1>1, <1>2, GivenInLoop
      <4> QED
        BY <1>2, <3>1, <4>1
    <3>4. \A o \in Taken(operation) :
              settings'[SettingOf(o)] =
                 IF GivenBelow(o, i) = {} THEN Null ELSE ValueOf(o, args[Max(GivenBelow(o, i)) + 1])
      BY <1>1, <1>2, <3>3 DEF LoadedBelow
    <3> QED
      BY <1>1, <1>2, <2>2, <3>1, <3>2, <3>4, LoadingAt
  <2> QED
    BY <1>1, <2>1, <2>2
<1> QED
  BY <1>4, <1>5

LEMMA EndOptionsStep ==
    ASSUME ArgInv, EndOptions
    PROVE  ArgInv'
<1> USE DEF ArgInv
<1>1. /\ argPc = "options" /\ argPc' = "names" /\ index > LastOption(operation, args)
      /\ UNCHANGED <<operation, args, index, settings>>
  BY DEF EndOptions, Goto
<1>2. /\ operation \in Command /\ Callable(operation, args)
      /\ index \in Nat /\ LoadedBelow(index)
  BY <1>1 DEF Shape, Loading, ArgTypeOK
<1>3. ArgTypeOK' /\ Shape' /\ Loading'
  BY <1>1, <1>2 DEF ArgTypeOK, Shape, Loading, Named
<1>4. \A o : GivenBelow(o, index) = Given(o)
  <2> SUFFICES ASSUME NEW o, NEW j \in Given(o) PROVE j < index
    BY DEF GivenBelow
  <2>1. j \in Nat /\ j <= LastOption(operation, args) /\ LastOption(operation, args) \in Int
    BY <1>2, GivenInLoop
  <2> QED
    BY <1>1, <1>2, <2>1
<1>5. Parsed'
  <2>1. Resolved' = {}
    BY <1>1 DEF Resolved
  <2>2. \A o \in Taken(operation) :
           settings[SettingOf(o)] = IF Given(o) = {} THEN Null ELSE Value(o)
    BY <1>2, <1>4 DEF LoadedBelow, Value
  <2>3. \A o : Given(o)' = Given(o) /\ Value(o)' = Value(o)
    BY <1>1, SameLine
  <2> QED
    BY <1>1, <2>1, <2>2, <2>3 DEF Parsed, IsGiven
<1> QED
  BY <1>3, <1>5

LEMMA SameName ==
    ASSUME UNCHANGED <<operation, args>>, settings'.archive = settings.archive
    PROVE  \A s : ByName(s)' = ByName(s)
<1>1. \A what : Says_(what)' = Says_(what)
  BY DEF Says_
<1> QED
  BY <1>1 DEF ByName

\* What the name of a file says, where it says something.
LEMMA SaidIsWord ==
    ASSUME settings.archive.word \in Argument,
           NEW what \in {"model", "prefix", "version", "pageDevice", "build"}, Says_(what) # Unsaid
    PROVE  Says_(what) \in Word /\ Says_(what) \in Argument
BY ArgumentsAssumption DEF Says_, Argument

LEMMA NamesStep ==
    ASSUME ArgInv, TakeNames
    PROVE  ArgInv'
<1> USE DEF ArgInv
<1>1. /\ argPc = "names" /\ UNCHANGED <<operation, args, index>>
      /\ settings' = [settings EXCEPT
            !.archive = Whole(args[Len(args)]),
            !.patch = IF operation = "patch" THEN Whole(args[Len(args) - 1]) ELSE @]
      /\ argPc' = CASE operation \in {"decrypt", "patch"} -> "device"
                    [] operation = "update" -> "pageDevice"
                    [] OTHER -> "accepted"
  BY DEF TakeNames, Goto
<1>2. /\ operation \in Command /\ Callable(operation, args) /\ ArgTypeOK
      /\ Len(args) \in Nat /\ Len(args) >= 1 /\ (operation = "patch" => Len(args) >= 5)
  <2>1. operation \in Command /\ Callable(operation, args) /\ ArgTypeOK
    BY <1>1 DEF Shape
  <2>2. Len(args) \in Nat
    BY <2>1 DEF ArgTypeOK
  <2>3. ASSUME operation = "patch" PROVE Len(args) >= 5
    BY <2>1, <2>3 DEF Callable
  <2> QED
    BY <2>1, <2>2, <2>3, LastOptionBound DEF ArgTypeOK
<1>3. Whole(args[Len(args)]) \in Text /\ (operation = "patch" => Whole(args[Len(args) - 1]) \in Text)
  BY <1>2 DEF ArgTypeOK, Whole, Text
<1>4. ArgTypeOK'
  BY <1>1, <1>2, <1>3 DEF ArgTypeOK, Setting
<1>5. /\ settings'.archive = Whole(args[Len(args)])
      /\ operation = "patch" => settings'.patch \in Text
      /\ \A s \in {"device", "build", "version", "section"} : settings'[s] = settings[s]
  BY <1>1, <1>2, <1>3 DEF ArgTypeOK, Setting
<1>6. Shape'
  BY <1>1, <1>2, <1>5, TextNotNull DEF Shape, Named, Command
<1>7. Parsed'
  <2>1. Resolved = {} /\ Resolved' = {}
    BY <1>1, <1>2 DEF Resolved, Command, FromName
  <2>2. \A o : Given(o)' = Given(o) /\ Value(o)' = Value(o)
    BY <1>1, SameLine
  <2>3. ASSUME NEW o \in Taken(operation)
        PROVE  settings[SettingOf(o)] = IF Given(o) = {} THEN Null ELSE Value(o)
    BY <1>1, <2>1 DEF Parsed, IsGiven, VersionTaken
  <2>4. ASSUME NEW o \in Taken(operation)
        PROVE  settings'[SettingOf(o)] = settings[SettingOf(o)]
    BY <1>5, SettingOfOption
  <2> QED
    BY <1>1, <2>1, <2>2, <2>3, <2>4 DEF Parsed, IsGiven
<1> QED
  BY <1>1, <1>4, <1>6, <1>7 DEF Loading

\* Where the device and the version are looked for.
LEMMA DecryptSettings ==
    ASSUME ArgInv, argPc \in {"device", "version", "section"}
    PROVE  /\ operation \in {"decrypt", "patch"} /\ operation \in Command /\ Callable(operation, args)
           /\ Taken(operation) \subseteq {"-d", "-b", "-v", "-s"}
           /\ {"-d", "-v"} \subseteq Taken(operation)
           /\ settings.archive = Whole(args[Len(args)]) /\ settings.archive.word \in Argument
           /\ \A s \in Setting : settings[s] \in Text \cup {Null}
<1>1. operation \in {"decrypt", "patch"} /\ operation \in Command /\ Callable(operation, args)
      /\ settings.archive = Whole(args[Len(args)])
  BY DEF ArgInv, Shape, Named
<1>2. Len(args) \in Nat /\ Len(args) >= 1 /\ args \in Seq(Argument)
  BY <1>1 DEF ArgInv, ArgTypeOK, Callable, Command
<1>3. settings.archive.word \in Argument
  BY <1>1, <1>2 DEF Whole
<1>4. {"-d", "-v"} \subseteq Taken(operation) /\ Taken(operation) \subseteq {"-d", "-b", "-v", "-s"}
  BY <1>1 DEF Taken
<1> QED
  BY <1>1, <1>3, <1>4 DEF ArgInv, ArgTypeOK

LEMMA DeviceStep ==
    ASSUME ArgInv, DeviceFromName
    PROVE  ArgInv'
<1>1. argPc = "device" /\ UNCHANGED <<operation, args, index>> /\ ArgTypeOK
  BY DEF DeviceFromName, ArgInv
<1>2. /\ operation \in {"decrypt", "patch"} /\ operation \in Command /\ Callable(operation, args)
      /\ Taken(operation) \subseteq {"-d", "-b", "-v", "-s"} /\ {"-d", "-v"} \subseteq Taken(operation)
      /\ settings.archive.word \in Argument
  BY <1>1, DecryptSettings
<1>3. \/ argPc' = "refused" /\ settings' = settings
      \/ argPc' = "version" /\ settings' = settings /\ settings.device # Null
      \/ /\ argPc' = "version" /\ settings.device = Null
         /\ \E t \in Text : t.word = ByName("device") /\ settings' = [settings EXCEPT !.device = t]
  <2>1. CASE Keep("device", "version") \/ (Says_("model") = Unsaid /\ Refuse("device", "prefix"))
    BY <2>1 DEF Keep, Refuse, Missing, Goto
  <2>2. CASE /\ Missing("device") /\ Says_("model") # Unsaid
             /\ Becomes("device", Unended(Says_("model"))) /\ Goto("version")
    <3>1. Unended(Says_("model")) \in Text /\ Unended(Says_("model")).word = ByName("device")
      BY <1>2, <2>2, SaidIsWord DEF Unended, Text, ByName
    <3> QED
      BY <2>2, <3>1 DEF Missing, Becomes, Goto
  <2>3. CASE /\ Missing("device") /\ Says_("model") = Unsaid /\ Says_("prefix") # Unsaid
             /\ Becomes("device", Whole(Says_("prefix"))) /\ Goto("version")
    <3>1. Whole(Says_("prefix")) \in Text /\ Whole(Says_("prefix")).word = ByName("device")
      BY <1>2, <2>3, SaidIsWord DEF Whole, Text, ByName
    <3> QED
      BY <2>3, <3>1 DEF Missing, Becomes, Goto
  <2> QED
    BY <2>1, <2>2, <2>3 DEF DeviceFromName
<1>4. CASE argPc' = "refused" /\ settings' = settings
  BY <1>1, <1>4 DEF ArgInv, ArgTypeOK, Shape, Loading, Parsed, Named
<1>5. CASE argPc' = "version"
  <2>1. ArgTypeOK' /\ Shape' /\ Loading'
    BY <1>1, <1>2, <1>3, <1>5 DEF ArgInv, ArgTypeOK, Shape, Loading, Named, Setting
  <2>2. Resolved = {} /\ Resolved' = {"device"} /\ ~VersionTaken /\ ~VersionTaken'
    BY <1>1, <1>5 DEF Resolved, VersionTaken
  <2>3. \A o : Given(o)' = Given(o) /\ Value(o)' = Value(o)
    BY <1>1, SameLine
  <2>4. \A o \in Taken(operation) : settings[SettingOf(o)] = IF Given(o) = {} THEN Null ELSE Value(o)
    BY <1>1, <2>2 DEF ArgInv, Parsed, IsGiven, Named
  <2>5. Given("-d") # {} => settings.device # Null
    BY <1>1, <1>2, <2>4, ValueIsText, TextNotNull DEF SettingOf
  <2>6. settings'.archive = settings.archive
        /\ \A s \in {"build", "version", "section"} : settings'[s] = settings[s]
    BY <1>1, <1>3, <1>5 DEF ArgTypeOK, Setting
  <2>7. ASSUME NEW o \in Taken(operation), o # "-d"
        PROVE  SettingOf(o) # "device" /\ settings'[SettingOf(o)] = IF Given(o) = {} THEN Null ELSE Value(o)
    BY <1>2, <2>4, <2>6, <2>7 DEF SettingOf
  <2>8. Given("-d") = {} => IsFromName("device")'
    <3>1. ByName("device")' = ByName("device")
      BY <1>1, <2>6, SameName
    <3>2. SUFFICES ASSUME Given("-d") = {}
                   PROVE  settings'.device \in Text /\ settings'.device.word = ByName("device")
      BY <3>1 DEF IsFromName
    <3>3. settings.device = Null
      BY <1>2, <2>4, <3>2 DEF SettingOf
    <3> QED
      BY <1>1, <1>3, <1>5, <3>3 DEF ArgTypeOK, Setting
  <2>9. Given("-d") # {} => settings'.device = Value("-d")
    BY <1>2, <1>3, <1>5, <2>4, <2>5 DEF SettingOf
  <2>10. Parsed'
    BY <1>1, <1>2, <2>2, <2>3, <2>7, <2>8, <2>9 DEF Parsed, IsGiven, SettingOf
  <2> QED
    BY <2>1, <2>10 DEF ArgInv
<1> QED
  BY <1>3, <1>4, <1>5

LEMMA TerminatedText ==
    ASSUME NEW t \in Text, NEW n \in Nat
    PROVE  /\ Terminated(t, n) \in Text
           /\ Terminated(t, n) = t \/ Terminated(t, n).word \in Beginnings(t.word)
<1>1. t.word \in Argument
  BY DEF Text
<1>2. CASE n <= Length[t.word]
  <2>1. n \in 0..Length[t.word] /\ Cut[t.word][n] \in Argument
    BY <1>1, <1>2, ArgumentsAssumption
  <2> QED
    BY <1>2, <2>1 DEF Terminated, Whole, Text, Beginnings
<1>3. CASE ~(n <= Length[t.word])
  BY <1>3 DEF Terminated
<1> QED
  BY <1>2, <1>3

\* A name is a beginning of itself.
LEMMA BeginsWithItself ==
    ASSUME NEW w \in Argument
    PROVE  w \in Beginnings(w)
<1>1. Length[w] \in 0..Length[w] /\ Cut[w][Length[w]] = w
  BY ArgumentsAssumption
<1> QED
  BY <1>1 DEF Beginnings

\* What the device is before the version is looked for.
LEMMA DeviceKnown ==
    ASSUME ArgInv, argPc = "version"
    PROVE  /\ settings.device \in Text
           /\ IF Given("-d") # {} THEN settings.device = Value("-d") ELSE settings.device.word = ByName("device")
<1>1. /\ operation \in Command /\ Callable(operation, args) /\ ArgTypeOK /\ Parsed
      /\ "-d" \in Taken(operation)
  BY DecryptSettings DEF ArgInv
<1>2. Resolved = {"device"} /\ ~VersionTaken /\ SettingOf("-d") = "device"
  BY DEF Resolved, VersionTaken, SettingOf
<1>3. IF Given("-d") # {} THEN settings.device = Value("-d") ELSE IsFromName("device")
  BY <1>1, <1>2 DEF Parsed, IsGiven, Named
<1> QED
  BY <1>1, <1>2, <1>3, ValueIsText DEF IsFromName

LEMMA VersionStep ==
    ASSUME ArgInv, VersionFromName
    PROVE  ArgInv'
<1>1. argPc = "version" /\ UNCHANGED <<operation, args, index>> /\ ArgTypeOK
  BY DEF VersionFromName, ArgInv
<1>2. /\ operation \in {"decrypt", "patch"} /\ operation \in Command /\ Callable(operation, args)
      /\ Taken(operation) \subseteq {"-d", "-b", "-v", "-s"} /\ {"-d", "-v"} \subseteq Taken(operation)
      /\ settings.archive.word \in Argument
  BY <1>1, DecryptSettings
<1>3. \/ argPc' = "refused" /\ settings' = settings
      \/ argPc' = "section" /\ settings' = settings /\ settings.version # Null
      \/ /\ argPc' = "section" /\ settings.version = Null
         /\ \E t \in Text, n \in Nat :
               /\ t.word = ByName("version")
               /\ settings' = [settings EXCEPT !.version = t, !.device = Terminated(@, n)]
  <2>1. CASE Keep("version", "section") \/ Refuse("version", "version")
    BY <2>1 DEF Keep, Refuse, Missing, Goto
  <2>2. CASE /\ Missing("version") /\ Says_("version") # Unsaid
             /\ settings' = [settings EXCEPT
                    !.version = Unended(Says_("version")),
                    !.device = Terminated(@, Length[Says_("version")])]
             /\ Goto("section")
    <3>1. Unended(Says_("version")) \in Text /\ Unended(Says_("version")).word = ByName("version")
      BY <1>2, <2>2, SaidIsWord DEF Unended, Text, ByName
    <3>2. Length[Says_("version")] \in Nat
      BY <1>2, <2>2, SaidIsWord, ArgumentsAssumption
    <3> QED
      BY <2>2, <3>1, <3>2 DEF Missing, Goto
  <2> QED
    BY <2>1, <2>2 DEF VersionFromName
<1>4. CASE argPc' = "refused" /\ settings' = settings
  BY <1>1, <1>4 DEF ArgInv, ArgTypeOK, Shape, Loading, Parsed, Named
<1>5. CASE argPc' = "section"
  <2>1. /\ settings.device \in Text
        /\ IF Given("-d") # {} THEN settings.device = Value("-d") ELSE settings.device.word = ByName("device")
    BY <1>1, DeviceKnown
  <2>2. \A o : Given(o)' = Given(o) /\ Value(o)' = Value(o)
    BY <1>1, SameLine
  <2>3. /\ ~VersionTaken /\ (VersionTaken' <=> Given("-v") = {})
        /\ Resolved = {"device"} /\ Resolved' = {"device", "version"}
    BY <1>1, <1>2, <1>5, <2>2 DEF Resolved, VersionTaken
  <2>4. /\ SettingOf("-d") = "device" /\ SettingOf("-v") = "version"
        /\ SettingOf("-b") = "build" /\ SettingOf("-s") = "section"
    BY DEF SettingOf
  <2>5. \A o \in Taken(operation) \ {"-d"} : settings[SettingOf(o)] = IF Given(o) = {} THEN Null ELSE Value(o)
    BY <1>1, <1>2, <2>3, <2>4 DEF ArgInv, Parsed, IsGiven, Named
  <2>6. Given("-v") = {} <=> settings.version = Null
    BY <1>1, <1>2, <2>4, <2>5, ValueIsText, TextNotNull
  <2>7. /\ settings' \in [Setting -> Text \cup {Null}] /\ settings'.archive = settings.archive
        /\ settings'.patch = settings.patch
        /\ settings'.build = settings.build /\ settings'.section = settings.section
    BY <1>1, <1>3, <1>5, <2>1, TerminatedText DEF ArgTypeOK, Setting
  <2>8. IF Given("-v") = {} THEN settings'.version \in Text /\ settings'.version.word = ByName("version")
        ELSE settings'.version = Value("-v")
    BY <1>1, <1>2, <1>3, <1>5, <2>4, <2>5, <2>6 DEF ArgTypeOK, Setting
  <2>9. /\ settings'.device \in Text
        /\ \/ settings'.device = settings.device
           \/ Given("-v") = {} /\ settings'.device.word \in Beginnings(settings.device.word)
    BY <1>1, <1>3, <1>5, <2>1, <2>6, TerminatedText DEF ArgTypeOK, Setting
  <2>10. \A s : ByName(s)' = ByName(s)
    BY <1>1, <2>7, SameName
  <2>11. IF Given("-d") # {} THEN IsGiven("-d")' ELSE IsFromName("device")'
    BY <2>1, <2>2, <2>3, <2>4, <2>9, <2>10 DEF IsGiven, IsFromName, Beginnings
  <2>12. IF Given("-v") # {} THEN IsGiven("-v")' ELSE IsFromName("version")'
    BY <2>2, <2>3, <2>4, <2>8, <2>10 DEF IsGiven, IsFromName
  <2>13. Parsed'
    <3> SUFFICES ASSUME NEW o \in Taken(operation)
                 PROVE  IF Given(o) # {} THEN IsGiven(o)'
                        ELSE IF SettingOf(o) \in {"device", "version"} THEN IsFromName(SettingOf(o))'
                        ELSE settings'[SettingOf(o)] = Null
      BY <1>1, <2>2, <2>3 DEF Parsed
    <3>1. CASE o = "-d"
      BY <2>4, <2>11, <3>1
    <3>2. CASE o = "-v"
      BY <2>4, <2>12, <3>2
    <3>3. CASE o \in {"-b", "-s"}
      BY <2>2, <2>4, <2>5, <2>7, <3>3 DEF IsGiven
    <3> QED
      BY <1>2, <3>1, <3>2, <3>3
  <2>14. ArgTypeOK' /\ Shape' /\ Loading'
    BY <1>1, <1>2, <1>5, <2>7 DEF ArgInv, ArgTypeOK, Shape, Loading, Named
  <2> QED
    BY <2>13, <2>14 DEF ArgInv
<1> QED
  BY <1>3, <1>4, <1>5

\* The section is no setting that decrypt misses or that patch can be given.
LEMMA SectionStep ==
    ASSUME ArgInv, TakeSection
    PROVE  ArgInv'
<1>1. /\ argPc = "section" /\ argPc' = "accepted" /\ UNCHANGED <<operation, args, index>>
      /\ settings' = IF operation = "patch" THEN [settings EXCEPT !.section = Whole(Kernel)] ELSE settings
      /\ ArgTypeOK
  BY DEF TakeSection, Becomes, Goto, ArgInv
<1>2. /\ operation \in {"decrypt", "patch"} /\ operation \in Command /\ Callable(operation, args)
      /\ Taken(operation) \subseteq {"-d", "-b", "-v", "-s"}
  BY <1>1, DecryptSettings
<1>3. Whole(Kernel) \in Text
  BY ArgumentsAssumption DEF Whole, Text, Argument
<1>4. /\ settings' \in [Setting -> Text \cup {Null}]
      /\ \A s \in Setting : s # "section" \/ operation # "patch" => settings'[s] = settings[s]
      /\ operation = "patch" => settings'.section \in Text
  BY <1>1, <1>3 DEF ArgTypeOK, Setting
<1>5. {"archive", "patch", "device", "build", "version", "section"} = Setting
  BY DEF Setting
<1>6. ArgTypeOK' /\ Shape' /\ Loading'
  BY <1>1, <1>2, <1>4, <1>5, TextNotNull DEF ArgInv, ArgTypeOK, Shape, Loading, Named
<1>7. Parsed'
  <2>1. \A o : Given(o)' = Given(o) /\ Value(o)' = Value(o)
    BY <1>1, SameLine
  <2>2. \A s : ByName(s)' = ByName(s)
    BY <1>1, <1>4, <1>5, SameName
  <2>3. Resolved = {"device", "version"} /\ Resolved' = {"device", "version"} /\ (VersionTaken' <=> VersionTaken)
    BY <1>1, <1>2, <2>1 DEF Resolved, VersionTaken, FromName
  <2> SUFFICES ASSUME NEW o \in Taken(operation)
               PROVE  IF Given(o) # {} THEN IsGiven(o)'
                      ELSE IF SettingOf(o) \in Resolved THEN IsFromName(SettingOf(o))'
                      ELSE settings'[SettingOf(o)] = Null
    BY <1>1, <2>1, <2>3 DEF Parsed
  <2>4. /\ settings'[SettingOf(o)] = settings[SettingOf(o)] /\ settings'.device = settings.device
    <3>1. operation = "patch" => o # "-s"
      BY DEF Taken
    <3> QED
      BY <1>2, <1>4, <1>5, <3>1 DEF SettingOf
  <2>5. IF Given(o) # {} THEN IsGiven(o)
        ELSE IF SettingOf(o) \in Resolved THEN IsFromName(SettingOf(o))
        ELSE settings[SettingOf(o)] = Null
    BY <1>1 DEF ArgInv, Parsed, Named
  <2>6. IsGiven(o) => IsGiven(o)'
    BY <2>1, <2>3, <2>4 DEF IsGiven, Beginnings
  <2>7. IsFromName(SettingOf(o)) => IsFromName(SettingOf(o))'
    BY <2>2, <2>3, <2>4 DEF IsFromName, Beginnings
  <2> QED
    BY <2>4, <2>5, <2>6, <2>7
<1> QED
  BY <1>6, <1>7 DEF ArgInv

(* ----- update ---------------------------------------------------------- *)

LEMMA UpdateSettings ==
    ASSUME ArgInv, argPc \in {"pageDevice", "build", "pageVersion"}
    PROVE  /\ operation = "update" /\ operation \in Command /\ Callable(operation, args) /\ ArgTypeOK
           /\ Taken(operation) = {"-d", "-b", "-v"}
           /\ settings.archive.word \in Argument
           /\ ~VersionTaken
<1>1. operation = "update" /\ operation \in Command /\ Callable(operation, args) /\ ArgTypeOK
      /\ settings.archive = Whole(args[Len(args)])
  BY DEF ArgInv, Shape, Named
<1>2. Len(args) \in Nat /\ Len(args) >= 1 /\ args \in Seq(Argument)
  BY <1>1, LastOptionBound DEF ArgTypeOK
<1>3. settings.archive.word \in Argument
  BY <1>1, <1>2 DEF Whole
<1> QED
  BY <1>1, <1>3 DEF Taken, VersionTaken

\* A step that resolves one setting, by keeping what was given or by the file's name.
LEMMA Resolving ==
    ASSUME ArgInv, UNCHANGED <<operation, args, index>>, argPc \in {"pageDevice", "build"},
           argPc' \in {"build", "pageVersion"},
           NEW o \in {"-d", "-b"}, Resolved' = Resolved \cup {SettingOf(o)}, SettingOf(o) \notin Resolved,
           \/ settings' = settings /\ settings[SettingOf(o)] # Null
           \/ /\ settings[SettingOf(o)] = Null
              /\ \E t \in Text :
                    /\ t.word = ByName(SettingOf(o)) \/ (o = "-b" /\ t.word \in Typed)
                    /\ settings' = [settings EXCEPT ![SettingOf(o)] = t]
    PROVE  ArgInv'
<1>1. /\ operation = "update" /\ operation \in Command /\ Callable(operation, args) /\ ArgTypeOK
      /\ Taken(operation) = {"-d", "-b", "-v"} /\ ~VersionTaken /\ ~VersionTaken'
  BY UpdateSettings DEF VersionTaken
<1>2. SettingOf("-d") = "device" /\ SettingOf("-b") = "build" /\ SettingOf("-v") = "version"
  BY DEF SettingOf
<1>3. /\ settings' \in [Setting -> Text \cup {Null}] /\ settings'.archive = settings.archive
      /\ settings'.patch = settings.patch
      /\ \A u \in {"-d", "-b", "-v"} : u # o => settings'[SettingOf(u)] = settings[SettingOf(u)]
  BY <1>1, <1>2 DEF ArgTypeOK, Setting
<1>4. ArgTypeOK' /\ Shape' /\ Loading'
  BY <1>1, <1>3 DEF ArgInv, ArgTypeOK, Shape, Loading, Named
<1>5. \A u : Given(u)' = Given(u) /\ Value(u)' = Value(u)
  BY SameLine
<1>6. \A s : ByName(s)' = ByName(s)
  BY <1>3, SameName
<1>7. \A u \in {"-d", "-b", "-v"} :
         IF Given(u) # {} THEN settings[SettingOf(u)] = Value(u)
         ELSE IF SettingOf(u) \in Resolved THEN IsFromName(SettingOf(u)) ELSE settings[SettingOf(u)] = Null
  BY <1>1 DEF ArgInv, Parsed, IsGiven, Named
<1>8. IF Given(o) # {} THEN settings'[SettingOf(o)] = Value(o) ELSE IsFromName(SettingOf(o))'
  <2>1. CASE Given(o) # {}
    <3>1. settings[SettingOf(o)] # Null
      BY <1>1, <1>7, <2>1, ValueIsText, TextNotNull
    <3> QED
      BY <1>7, <2>1, <3>1
  <2>2. CASE Given(o) = {}
    <3>1. settings[SettingOf(o)] = Null /\ SettingOf(o) \in Setting
      BY <1>2, <1>7, <2>2 DEF Setting
    <3>2. PICK t \in Text : /\ t.word = ByName(SettingOf(o)) \/ (o = "-b" /\ t.word \in Typed)
                            /\ settings' = [settings EXCEPT ![SettingOf(o)] = t]
      BY <3>1
    <3>3. settings'[SettingOf(o)] = t
      BY <1>1, <3>1, <3>2 DEF ArgTypeOK
    <3> QED
      BY <1>2, <1>6, <2>2, <3>2, <3>3 DEF IsFromName
  <2> QED
    BY <2>1, <2>2
<1>9. Parsed'
  <2> SUFFICES ASSUME NEW u \in {"-d", "-b", "-v"}
               PROVE  IF Given(u) # {} THEN settings'[SettingOf(u)] = Value(u)
                      ELSE IF SettingOf(u) \in Resolved' THEN IsFromName(SettingOf(u))'
                      ELSE settings'[SettingOf(u)] = Null
    BY <1>1, <1>5 DEF Parsed, IsGiven
  <2>1. CASE u = o
    BY <1>8, <2>1
  <2>2. CASE u # o
    <3>1. SettingOf(u) # SettingOf(o) /\ settings'[SettingOf(u)] = settings[SettingOf(u)]
      BY <1>2, <1>3, <2>2
    <3>2. IsFromName(SettingOf(u)) => IsFromName(SettingOf(u))'
      BY <1>1, <1>6, <3>1 DEF IsFromName
    <3> QED
      BY <1>7, <3>1, <3>2
  <2> QED
    BY <2>1, <2>2
<1> QED
  BY <1>4, <1>9 DEF ArgInv

LEMMA PageDeviceStep ==
    ASSUME ArgInv, DeviceOfPage
    PROVE  ArgInv'
<1>1. argPc = "pageDevice" /\ UNCHANGED <<operation, args, index>>
  BY DEF DeviceOfPage
<1>2. operation = "update" /\ settings.archive.word \in Argument /\ SettingOf("-d") = "device"
  BY <1>1, UpdateSettings DEF SettingOf
<1>3. CASE argPc' = "refused" /\ settings' = settings
  BY <1>1, <1>3 DEF ArgInv, ArgTypeOK, Shape, Loading, Parsed, Named
<1>4. CASE /\ argPc' = "build"
           /\ \/ settings' = settings /\ settings.device # Null
              \/ /\ settings.device = Null
                 /\ \E t \in Text : t.word = ByName("device") /\ settings' = [settings EXCEPT !.device = t]
  <2>1. Resolved' = Resolved \cup {SettingOf("-d")} /\ SettingOf("-d") \notin Resolved
    BY <1>1, <1>2, <1>4 DEF Resolved
  <2>2. \/ settings' = settings /\ settings[SettingOf("-d")] # Null
        \/ /\ settings[SettingOf("-d")] = Null
           /\ \E t \in Text :
                 /\ t.word = ByName(SettingOf("-d")) \/ ("-d" = "-b" /\ t.word \in Typed)
                 /\ settings' = [settings EXCEPT ![SettingOf("-d")] = t]
    BY <1>2, <1>4
  <2>3. argPc \in {"pageDevice", "build"} /\ argPc' \in {"build", "pageVersion"} /\ "-d" \in {"-d", "-b"}
    BY <1>1, <1>4
  <2> QED
    BY <1>1, <2>1, <2>2, <2>3, Resolving
<1>5. CASE /\ Missing("device") /\ Says_("pageDevice") # Unsaid
           /\ Becomes("device", Whole(Says_("pageDevice"))) /\ Goto("build")
  <2>1. Whole(Says_("pageDevice")) \in Text /\ Whole(Says_("pageDevice")).word = ByName("device")
    <3>1. ByName("device") = Says_("pageDevice")
      BY <1>2 DEF ByName
    <3>2. Says_("pageDevice") \in Argument
      BY <1>2, <1>5, SaidIsWord
    <3> QED
      BY <3>1, <3>2 DEF Whole, Text
  <2> QED
    BY <1>4, <1>5, <2>1 DEF Missing, Becomes, Goto
<1> QED
  BY <1>3, <1>4, <1>5 DEF DeviceOfPage, Keep, Refuse, Missing, Goto

LEMMA PageBuildStep ==
    ASSUME ArgInv, BuildOfPage
    PROVE  ArgInv'
<1>1. argPc = "build" /\ UNCHANGED <<operation, args, index>>
  BY DEF BuildOfPage
<1>2. operation = "update" /\ settings.archive.word \in Argument /\ SettingOf("-b") = "build"
  BY <1>1, UpdateSettings DEF SettingOf
<1>3. CASE argPc' = "refused" /\ settings' = settings
  BY <1>1, <1>3 DEF ArgInv, ArgTypeOK, Shape, Loading, Parsed, Named
<1>4. CASE /\ argPc' = "pageVersion"
           /\ \/ settings' = settings /\ settings.build # Null
              \/ /\ settings.build = Null
                 /\ \E t \in Text : /\ t.word = ByName("build") \/ t.word \in Typed
                                    /\ settings' = [settings EXCEPT !.build = t]
  <2>1. Resolved' = Resolved \cup {SettingOf("-b")} /\ SettingOf("-b") \notin Resolved
    BY <1>1, <1>2, <1>4 DEF Resolved
  <2>2. \/ settings' = settings /\ settings[SettingOf("-b")] # Null
        \/ /\ settings[SettingOf("-b")] = Null
           /\ \E t \in Text :
                 /\ t.word = ByName(SettingOf("-b")) \/ ("-b" = "-b" /\ t.word \in Typed)
                 /\ settings' = [settings EXCEPT ![SettingOf("-b")] = t]
    BY <1>2, <1>4
  <2>3. argPc \in {"pageDevice", "build"} /\ argPc' \in {"build", "pageVersion"} /\ "-b" \in {"-d", "-b"}
    BY <1>1, <1>4
  <2> QED
    BY <1>1, <2>1, <2>2, <2>3, Resolving
<1>5. CASE /\ Missing("build") /\ Says_("build") # Unsaid
           /\ \E b \in Typed \cup {Says_("build")} : Becomes("build", Whole(b))
           /\ Goto("pageVersion")
  <2>1. PICK b \in Typed \cup {Says_("build")} : Becomes("build", Whole(b))
    BY <1>5
  <2>2. Whole(b) \in Text /\ Whole(b).word = b /\ ByName("build") = Says_("build")
    <3>1. b \in Argument
      BY <1>2, <1>5, SaidIsWord, ArgumentsAssumption DEF Argument
    <3> QED
      BY <3>1 DEF Whole, Text, ByName
  <2> QED
    BY <1>4, <1>5, <2>1, <2>2 DEF Missing, Becomes, Goto
<1> QED
  BY <1>3, <1>4, <1>5 DEF BuildOfPage, Keep, Refuse, Missing, Goto

LEMMA PageVersionStep ==
    ASSUME ArgInv, VersionOfPage
    PROVE  ArgInv'
<1>1. /\ argPc = "pageVersion" /\ UNCHANGED <<operation, args, index, settings>>
      /\ argPc' = IF settings.version = Null THEN "refused" ELSE "accepted"
  BY DEF VersionOfPage, Goto, Missing
<1>2. /\ operation = "update" /\ operation \in Command /\ Callable(operation, args) /\ ArgTypeOK
      /\ Taken(operation) = {"-d", "-b", "-v"} /\ ~VersionTaken
  BY <1>1, UpdateSettings
<1>3. ArgTypeOK' /\ Shape' /\ Loading'
  BY <1>1, <1>2 DEF ArgInv, ArgTypeOK, Shape, Loading, Named
<1>4. Parsed'
  <2>1. \A o : Given(o)' = Given(o) /\ Value(o)' = Value(o)
    BY <1>1, SameLine
  <2>2. \A s : ByName(s)' = ByName(s)
    BY <1>1, SameName
  <2>3. CASE argPc' = "refused"
    BY <2>3 DEF Parsed, Named
  <2>4. CASE argPc' = "accepted"
    <3>1. Resolved = {"device", "build"} /\ Resolved' = {"device", "build"} /\ ~VersionTaken'
      BY <1>1, <1>2, <2>4 DEF Resolved, FromName, VersionTaken
    <3>2. \A o \in Taken(operation) :
             IF Given(o) # {} THEN settings[SettingOf(o)] = Value(o)
             ELSE IF SettingOf(o) \in Resolved THEN IsFromName(SettingOf(o)) ELSE settings[SettingOf(o)] = Null
      BY <1>1, <1>2 DEF ArgInv, Parsed, IsGiven, Named
    <3>3. \A s : IsFromName(s) => IsFromName(s)'
      BY <1>1, <1>2, <2>2 DEF IsFromName
    <3> QED
      BY <1>1, <2>1, <3>1, <3>2, <3>3 DEF Parsed, IsGiven
  <2> QED
    BY <1>1, <2>3, <2>4
<1> QED
  BY <1>3, <1>4 DEF ArgInv

-----------------------------------------------------------------------------
(* Together.  *)

\* A new process reads its line from the first argument on, with no settings.
LEMMA ParseStep ==
    ASSUME ArgInv, NEW c \in Command \cup {"unknown"}, NEW l \in Seq(Argument), ParseArguments(c, l)
    PROVE  ArgInv'
<1>1. /\ argPc = "idle" /\ operation' = c /\ args' = l /\ index' = 1 /\ settings' = NoSettings
      /\ settings = NoSettings
      /\ argPc' = IF ~Callable(c, l) THEN "refused" ELSE IF Taken(c) = {} THEN "names" ELSE "options"
  BY DEF ParseArguments, Goto, ArgInv, Shape
<1>2. ArgTypeOK'
  <2>1. NoSettings \in [Setting -> Text \cup {Null}]
    BY DEF NoSettings
  <2>2. Len(l) \in Nat
    OBVIOUS
  <2> QED
    BY <1>1, <2>1, <2>2 DEF ArgTypeOK
<1>3. Shape'
  <2>1. Callable(c, l) => c \in Command
    BY DEF Callable
  <2> QED
    BY <1>1, <2>1 DEF Shape, Named
<1>4. Loading'
  <2>1. CASE argPc' = "options"
    <3>1. Callable(c, l) /\ c \in Command
      BY <1>1, <2>1 DEF Callable
    <3>2. \A o, i : i = 1 => GivenBelow(o, i)' = {}
      <4>1. \A o : Given(o)' \subseteq {i \in Int : i >= 1}
        BY DEF Given, Examined
      <4> QED
        BY <4>1 DEF GivenBelow
    <3>3. OptionsBefore(1)' = 0
      <4>1. {0} \cup {j \in 1..1 - 1 : args'[j] \notin Taken(operation')} = {0}
        OBVIOUS
      <4>2. Max({0}) = 0
        BY DEF Max
      <4> QED
        BY <4>1, <4>2 DEF OptionsBefore
    <3>4. \A o \in Taken(c) : SettingOf(o) \in Setting
      BY SettingOfOption DEF Setting
    <3> QED
      BY <1>1, <3>2, <3>3, <3>4 DEF Loading, LoadedBelow, NoSettings
  <2> QED
    BY <2>1 DEF Loading
<1>5. Parsed'
  <2>1. CASE argPc' = "names"
    <3>1. Taken(c) = {}
      BY <1>1, <2>1
    <3> QED
      BY <1>1, <3>1 DEF Parsed
  <2> QED
    BY <1>1, <2>1 DEF Parsed, Named
<1> QED
  BY <1>2, <1>3, <1>4, <1>5 DEF ArgInv

LEMMA ArgStep ==
    ASSUME ArgInv, ArgNext
    PROVE  ArgInv'
BY OptionStep, OtherStep, EndOptionsStep, NamesStep, DeviceStep, VersionStep, SectionStep,
   PageDeviceStep, PageBuildStep, PageVersionStep DEF ArgNext

LEMMA ArgBegins ==
    ASSUME ArgInit
    PROVE  ArgInv
<1>1. NoSettings \in [Setting -> Text \cup {Null}]
  BY DEF NoSettings
<1> QED
  BY <1>1 DEF ArgInit, ArgInv, ArgTypeOK, Shape, Loading, Parsed, Named

\* The end of a process is the beginning of the next.
LEMMA ArgEnds ==
    ASSUME operation' = "none", args' = <<>>, argPc' = "idle", index' = 0, settings' = NoSettings
    PROVE  ArgInv'
<1>1. NoSettings \in [Setting -> Text \cup {Null}]
  BY DEF NoSettings
<1> QED
  BY <1>1 DEF ArgInv, ArgTypeOK, Shape, Loading, Parsed, Named

LEMMA ArgSame ==
    ASSUME ArgInv, UNCHANGED argVars
    PROVE  ArgInv'
<1>1. UNCHANGED <<operation, args, argPc, index, settings>>
  BY DEF argVars
<1>2. \A s : ByName(s)' = ByName(s)
  BY <1>1, SameName
<1>3. /\ \A o : Given(o)' = Given(o) /\ Value(o)' = Value(o)
      /\ \A o, i : GivenBelow(o, i)' = GivenBelow(o, i)
      /\ \A i : OptionsBefore(i)' = OptionsBefore(i)
  BY <1>1, SameLine
<1>4. (VersionTaken' <=> VersionTaken) /\ Resolved' = Resolved
  BY <1>1, <1>3 DEF VersionTaken, Resolved
<1>5. Parsed'
  <2>1. \A o : IsGiven(o)' <=> IsGiven(o)
    BY <1>1, <1>3, <1>4 DEF IsGiven
  <2>2. \A s : IsFromName(s)' <=> IsFromName(s)
    BY <1>1, <1>2, <1>4 DEF IsFromName
  <2> QED
    BY <1>1, <1>3, <1>4, <2>1, <2>2 DEF ArgInv, Parsed
<1>6. Loading'
  BY <1>1, <1>3 DEF ArgInv, Loading, LoadedBelow, GivenBelow, OptionsBefore
<1> QED
  BY <1>1, <1>5, <1>6 DEF ArgInv, ArgTypeOK, Shape

\* An accepted line leaves out nothing that its command relies on but decrypt's section.
AllButSection ==
    \A s \in Needed(operation) : settings[s] # Null \/ (operation = "decrypt" /\ s = "section")

\* What an accepted line is known to have.
LEMMA AcceptedSettings ==
    ASSUME ArgInv, argPc = "accepted"
    PROVE  SettingsAsGiven /\ AllButSection
<1>1. /\ operation \in Command /\ Callable(operation, args) /\ ArgTypeOK
      /\ settings.archive = Whole(args[Len(args)])
      /\ operation = "patch" => settings.patch # Null /\ settings.section # Null
      /\ operation = "update" => settings.version # Null
  BY DEF ArgInv, Shape, Named
<1>2. /\ SettingOf("-d") = "device" /\ SettingOf("-v") = "version"
      /\ SettingOf("-b") = "build" /\ SettingOf("-s") = "section"
      /\ Taken(operation) \subseteq {"-d", "-b", "-v", "-s"}
  BY SettingOfOption DEF SettingOf
<1>3. \A o \in Taken(operation) :
         IF Given(o) # {} THEN IsGiven(o)
         ELSE IF SettingOf(o) \in FromName(operation) THEN IsFromName(SettingOf(o))
         ELSE settings[SettingOf(o)] = Null
  BY DEF ArgInv, Parsed, Named, Resolved
<1>4. VersionTaken <=> operation # "update" /\ Given("-v") = {}
  BY DEF VersionTaken
<1>5. SettingsAsGiven
  BY <1>2, <1>3, <1>4 DEF SettingsAsGiven, IsGiven, IsFromName
<1>6. AllButSection
  <2>1. settings.archive \in Text
    <3>1. Len(args) \in Nat /\ Len(args) >= 1
      BY <1>1, LastOptionBound DEF ArgTypeOK
    <3> QED
      BY <1>1, <3>1 DEF ArgTypeOK, Whole, Text
  <2>2. ASSUME NEW o \in Taken(operation), SettingOf(o) \in FromName(operation)
        PROVE  settings[SettingOf(o)] \in Text
    <3>1. Given(o) # {} => Value(o) \in Text
      BY <1>1, ValueIsText
    <3> QED
      BY <1>2, <1>3, <2>2, <3>1 DEF IsGiven, IsFromName
  <2>3. /\ operation \in {"decrypt", "patch"} => settings.device # Null /\ settings.version # Null
        /\ operation = "update" => settings.device # Null /\ settings.build # Null
    <3>1. operation \in {"decrypt", "patch"} => "-d" \in Taken(operation) /\ "-v" \in Taken(operation)
          /\ FromName(operation) = {"device", "version"}
      BY DEF Taken, FromName
    <3>2. operation = "update" => "-d" \in Taken(operation) /\ "-b" \in Taken(operation)
          /\ FromName(operation) = {"device", "build"}
      BY DEF Taken, FromName
    <3> QED
      BY <1>2, <2>2, <3>1, <3>2, TextNotNull
  <2> QED
    BY <1>1, <2>1, <2>3, TextNotNull DEF AllButSection, Needed, Command
<1> QED
  BY <1>5, <1>6

LEMMA ArgConsequences ==
    ArgInv => ArgTypeOK /\ SettingsAsGiven /\ (argPc = "accepted" => AllButSection)
BY AcceptedSettings DEF ArgInv, SettingsAsGiven

-----------------------------------------------------------------------------
(* The list of an archive: the walk over the records of an intact archive  *)
(* goes through its directory and nothing else.                            *)

Marker(f) == CHOOSE o \in InReach(f) : TRUE
EndOf(f) == f.ends[Marker(f)]
Offsets(f) == CHOOSE s \in Directories(f, EndOf(f)) : TRUE

\* Where the n+1st record begins, or the directory ends.
Next_(f, n) == IF n = EndOf(f).total THEN EndOf(f).offset + EndOf(f).size ELSE Offsets(f)[n + 1]

LEMMA FileFacts ==
    ASSUME NEW g \in DOMAIN Layout
    PROVE  /\ Layout[g].length \in Nat
           /\ \A o \in DOMAIN Layout[g].ends :
                 /\ o \in Nat /\ o <= Layout[g].length
                 /\ Layout[g].ends[o].total \in Nat
                 /\ Layout[g].ends[o].size \in Nat /\ Layout[g].ends[o].offset \in Nat
           /\ \A p \in DOMAIN Layout[g].records :
                 p \in Nat /\ Size(Layout[g].records[p]) \in Nat
                 /\ RecordSize \in Nat /\ RecordSize <= Size(Layout[g].records[p])
                 /\ 0 < Size(Layout[g].records[p])
<1> DEFINE f == Layout[g]
<1>1. f.length \in Nat /\ DOMAIN f.ends \subseteq 0..f.length - 4 /\ DOMAIN f.records \subseteq 0..f.length - 4
  BY ZipAssumption
<1>2. \A o \in DOMAIN f.ends : {f.ends[o].total, f.ends[o].size, f.ends[o].offset} \subseteq Nat
  BY ZipAssumption DEF Range
<1>3. \A p \in DOMAIN f.records :
         {f.records[p].nameLength, f.records[p].extraLength, f.records[p].commentLength} \subseteq Nat
  BY ZipAssumption DEF Range
<1>4. RecordSize \in Nat /\ 4 <= RecordSize
  BY ZipAssumption
<1>5. \A p \in DOMAIN f.records : Size(f.records[p]) \in Nat /\ RecordSize <= Size(f.records[p])
  BY <1>3, <1>4 DEF Size
<1> HIDE DEF f
<1>6. /\ \A o \in DOMAIN f.ends : o \in Nat /\ o <= f.length
      /\ \A p \in DOMAIN f.records : p \in Nat
  BY <1>1
<1>7. /\ f.length \in Nat
      /\ \A o \in DOMAIN f.ends :
            /\ o \in Nat /\ o <= f.length
            /\ f.ends[o].total \in Nat /\ f.ends[o].size \in Nat /\ f.ends[o].offset \in Nat
      /\ \A p \in DOMAIN f.records :
            p \in Nat /\ Size(f.records[p]) \in Nat
            /\ RecordSize \in Nat /\ RecordSize <= Size(f.records[p])
            /\ 0 < Size(f.records[p])
  BY <1>1, <1>2, <1>4, <1>5, <1>6
<1> QED
  BY <1>7 DEF f

\* The directory of an intact archive.
LEMMA IntactFacts ==
    ASSUME NEW g \in DOMAIN Layout, NEW f, f = Layout[g], Intact(f)
    PROVE  /\ Marker(f) \in DOMAIN f.ends /\ InReach(f) = {Marker(f)}
           /\ Marker(f) + EndSize <= f.length
           /\ EndOf(f).offset + EndOf(f).size <= Marker(f)
           /\ Offsets(f) \in Directories(f, EndOf(f))
<1>1. PICK o \in DOMAIN f.ends :
         /\ InReach(f) = {o} /\ o + EndSize <= f.length
         /\ f.ends[o].offset + f.ends[o].size <= o
         /\ Directories(f, f.ends[o]) # {}
  BY DEF Intact
<1>2. Marker(f) = o
  BY <1>1 DEF Marker
<1>3. EndOf(f) = f.ends[o]
  BY <1>2 DEF EndOf
<1>4. Offsets(f) \in Directories(f, EndOf(f))
  BY <1>1, <1>3 DEF Offsets
<1> QED
  BY <1>1, <1>2, <1>3, <1>4

LEMMA DirectoryFacts ==
    ASSUME NEW g \in DOMAIN Layout, NEW f, f = Layout[g], Intact(f)
    PROVE  /\ EndOf(f).total \in Nat /\ EndOf(f).total > 0
           /\ EndOf(f).size \in Nat /\ EndOf(f).offset \in Nat
           /\ DOMAIN Offsets(f) = 1..EndOf(f).total
           /\ \A i \in 1..EndOf(f).total :
                 /\ Offsets(f)[i] \in DOMAIN f.records
                 /\ Offsets(f)[i] + Size(f.records[Offsets(f)[i]]) = Next_(f, i)
           /\ Offsets(f)[1] = EndOf(f).offset
<1> DEFINE e == EndOf(f)
           s == Offsets(f)
           R == DOMAIN f.records
<1>1. e.total \in Nat /\ e.size \in Nat /\ e.offset \in Nat
  BY IntactFacts, FileFacts DEF EndOf
<1>2. Cardinality(R) \in Nat
  <2>1. f.length \in Nat /\ R \subseteq 0..f.length - 4
    BY ZipAssumption
  <2>2. IsFiniteSet(0..f.length - 4)
    <3>1. 0 \in Int /\ f.length - 4 \in Int
      BY <2>1
    <3> QED
      BY <3>1, FS_Interval
  <2>3. IsFiniteSet(R)
    BY <2>1, <2>2, FS_Subset
  <2> QED
    BY <2>3, FS_CardinalityType
<1>3. PICK n \in 0..Cardinality(R) : s \in [1..n -> R] /\ IsDirectory(f, e, s)
  <2>1. s \in Directories(f, e)
    BY IntactFacts
  <2>2. s \in UNION {[1..n -> R] : n \in 0..Cardinality(R)} /\ IsDirectory(f, e, s)
    BY <2>1 DEF Directories
  <2> HIDE DEF s, e, R
  <2> QED
    BY <2>2
<1>4. n \in Nat
  BY <1>2, <1>3
<1>5. Len(s) = n /\ DOMAIN s = 1..n
  <2> HIDE DEF s, R
  <2>1. s \in Seq(R)
    BY <1>3, <1>4
  <2> QED
    BY <1>3, <1>4, <2>1
<1>6. /\ n = e.total /\ e.total > 0 /\ s[1] = e.offset
      /\ \A i \in 1..e.total :
            s[i] + Size(f.records[s[i]]) = IF i = e.total THEN e.offset + e.size ELSE s[i + 1]
  BY <1>3, <1>5 DEF IsDirectory
<1>7. \A i \in 1..n : s[i] \in R
  BY <1>3
<1> QED
  BY <1>1, <1>5, <1>6, <1>7 DEF Next_

\* No record of the directory runs over its end.
LEMMA RecordsInDirectory ==
    ASSUME NEW g \in DOMAIN Layout, NEW f, f = Layout[g], Intact(f)
    PROVE  \A n \in 1..EndOf(f).total :
              Next_(f, n) \in Nat /\ Next_(f, n) <= EndOf(f).offset + EndOf(f).size
<1> DEFINE t == EndOf(f).total
           over == EndOf(f).offset + EndOf(f).size
           bad == {n \in 1..t : ~(Next_(f, n) \in Nat /\ Next_(f, n) <= over)}
<1>1. t \in Nat /\ over \in Nat
  BY DirectoryFacts
<1>2. \A n \in 1..t : /\ Offsets(f)[n] \in Nat /\ Size(f.records[Offsets(f)[n]]) \in Nat
                      /\ Offsets(f)[n] + Size(f.records[Offsets(f)[n]]) = Next_(f, n)
  BY DirectoryFacts, FileFacts
<1>3. \A n \in 1..t : n = t \/ (n + 1 \in 1..t /\ Next_(f, n) = Offsets(f)[n + 1])
  BY <1>1 DEF Next_
<1>4. Next_(f, t) = over
  BY DEF Next_
<1>5. SUFFICES ASSUME bad # {} PROVE FALSE
  OBVIOUS
<1> HIDE DEF t, over
<1>6. PICK n \in bad : \A m \in bad : n >= m
  <2>1. bad \in SUBSET Int /\ \A m \in bad : m <= t
    BY <1>1
  <2>2. Max(bad) \in bad /\ \A m \in bad : Max(bad) >= m
    <3> HIDE DEF bad
    <3>1. t \in Int
      BY <1>1
    <3> QED
      BY <1>5, <2>1, <3>1, MaxIn
  <2> HIDE DEF bad
  <2> QED
    BY <2>2
<1>7. n # t
  BY <1>1, <1>4, <1>6
<1>8. n + 1 \in 1..t /\ Next_(f, n) = Offsets(f)[n + 1]
  BY <1>3, <1>6, <1>7
<1>9. n + 1 \notin bad
  BY <1>1, <1>6, <1>8
<1>10. Next_(f, n + 1) \in Nat /\ Next_(f, n + 1) <= over
  BY <1>8, <1>9
<1> QED
  BY <1>1, <1>2, <1>6, <1>8, <1>10

-----------------------------------------------------------------------------
(* The walk.  Of an intact archive, the records that were read are the     *)
(* first of its directory, and the next begins where they end.             *)

Pcs == {"idle", "find", "open", "records", "listed", "failed", "crashed"}

Walks(f) ==
    /\ zip.pc \in {"open", "records", "listed"} => zip.end = EndOf(f)
    /\ zip.pc = "open" => zip.at = 0 /\ zip.offset = 0 /\ zip.nodes = <<>> /\ zip.files = <<>>
    /\ zip.pc \in {"records", "listed"} =>
          /\ zip.at \in 0..EndOf(f).total
          /\ zip.offset \in Nat
          /\ EndOf(f).offset + zip.offset = Next_(f, zip.at)
          /\ zip.nodes = [i \in 1..zip.at |-> f.records[Offsets(f)[i]].name]
          /\ zip.files = zip.nodes
    /\ zip.pc = "listed" => zip.at = EndOf(f).total

ZipInv ==
    /\ zip.pc \in Pcs /\ zipFaults \in Nat
    /\ zip.pc = "find" => zip.at = 0 /\ zip.offset = 0 /\ zip.nodes = <<>> /\ zip.files = <<>>
    /\ zip.pc \notin {"idle", "failed"} => zip.file \in DOMAIN Layout
    /\ DOMAIN zip = {"pc", "file", "end", "at", "offset", "nodes", "files", "error"}
    /\ zip.file \in DOMAIN Layout /\ Intact(File) =>
          Walks(File) /\ (zip.pc \in {"failed", "crashed"} => zipFaults > 0)

\* The end marker that is in reach is found, and its directory can be read.
LEMMA EndFound ==
    ASSUME NEW g \in DOMAIN Layout, NEW f, f = Layout[g], Intact(f)
    PROVE  /\ EndsInWindow(f) # {} /\ Min(EndsInWindow(f)) + EndSize <= f.length
           /\ f.ends[Min(EndsInWindow(f))] = EndOf(f)
           /\ EndOf(f).size > 0 /\ EndOf(f).offset + EndOf(f).size <= f.length
<1>1. /\ f.length \in Nat /\ Window \in Nat /\ EndSize \in Nat
      /\ \A o \in DOMAIN f.ends : o \in Nat /\ o <= f.length
  BY FileFacts, ZipAssumption
<1>2. EndsInWindow(f) = {Marker(f)}
  <2>1. \A o \in DOMAIN f.ends : o >= f.length - Window <=> o + Window >= f.length
    BY <1>1
  <2>2. EndsInWindow(f) = InReach(f)
    BY <2>1 DEF EndsInWindow, InReach
  <2> QED
    BY <2>2, IntactFacts
<1>3. Marker(f) \in Nat /\ Marker(f) <= f.length /\ Marker(f) + EndSize <= f.length
  BY <1>1, IntactFacts
<1>4. Min({Marker(f)}) = Marker(f)
  <2>1. PICK m \in Nat : m = Marker(f)
    BY <1>3
  <2>2. Min({m}) = m
    BY DEF Min
  <2> QED
    BY <2>1, <2>2
<1>5. EndOf(f).size > 0
  <2>1. 1 \in 1..EndOf(f).total /\ EndOf(f).size \in Nat /\ EndOf(f).offset \in Nat
    BY DirectoryFacts
  <2>2. /\ Offsets(f)[1] \in DOMAIN f.records /\ Offsets(f)[1] = EndOf(f).offset
        /\ Offsets(f)[1] + Size(f.records[Offsets(f)[1]]) = Next_(f, 1)
    BY <2>1, DirectoryFacts
  <2>3. 0 < Size(f.records[Offsets(f)[1]]) /\ Size(f.records[Offsets(f)[1]]) \in Nat
    BY <2>2, FileFacts
  <2>4. Next_(f, 1) \in Nat /\ Next_(f, 1) <= EndOf(f).offset + EndOf(f).size
    BY <2>1, RecordsInDirectory
  <2> QED
    BY <2>1, <2>2, <2>3, <2>4
<1>6. EndOf(f).offset + EndOf(f).size <= f.length
  <2>1. EndOf(f).offset + EndOf(f).size <= Marker(f)
    BY IntactFacts
  <2>2. EndOf(f).size \in Nat /\ EndOf(f).offset \in Nat
    BY DirectoryFacts
  <2> QED
    BY <1>1, <1>3, <2>1, <2>2
<1> QED
  BY <1>2, <1>3, <1>4, <1>5, <1>6 DEF EndOf

\* The record at hand is read whole.
LEMMA RecordAtHand ==
    ASSUME NEW g \in DOMAIN Layout, NEW f, f = Layout[g], Intact(f),
           NEW n \in Nat, n < EndOf(f).total,
           NEW offset \in Nat, EndOf(f).offset + offset = Next_(f, n)
    PROVE  LET p == EndOf(f).offset + offset IN
           /\ p = Offsets(f)[n + 1] /\ p \in DOMAIN f.records
           /\ offset + RecordSize <= EndOf(f).size
           /\ offset + Size(f.records[p]) <= EndOf(f).size
           /\ EndOf(f).offset + (offset + Size(f.records[p])) = Next_(f, n + 1)
           /\ offset + Size(f.records[p]) \in Nat
<1> DEFINE p == EndOf(f).offset + offset
<1>1. /\ EndOf(f).total \in Nat /\ EndOf(f).size \in Nat /\ EndOf(f).offset \in Nat
      /\ n + 1 \in 1..EndOf(f).total
  BY DirectoryFacts
<1>2. p = Offsets(f)[n + 1]
  BY <1>1 DEF Next_
<1>3. p \in DOMAIN f.records /\ p + Size(f.records[p]) = Next_(f, n + 1)
  BY <1>1, <1>2, DirectoryFacts
<1>4. /\ p \in Nat /\ RecordSize \in Nat /\ Size(f.records[p]) \in Nat
      /\ RecordSize <= Size(f.records[p])
  BY <1>3, FileFacts
<1>5. Next_(f, n + 1) <= EndOf(f).offset + EndOf(f).size
  BY <1>1, RecordsInDirectory
<1> QED
  BY <1>1, <1>2, <1>3, <1>4, <1>5

LEMMA ZipStep ==
    ASSUME ZipInv, ZipNext
    PROVE  ZipInv'
<1>1. /\ DOMAIN zip = {"pc", "file", "end", "at", "offset", "nodes", "files", "error"}
      /\ zipFaults \in Nat /\ MaxZipFaults \in Nat
  BY ZipAssumption DEF ZipInv
<1>2. /\ zip.pc \in {"find", "open", "records"}
      /\ zip'.pc \in {"open", "records", "listed", "failed", "crashed"}
      /\ DOMAIN zip' = DOMAIN zip /\ zip'.file = zip.file
      /\ zipFaults' \in Nat
  <2>1. ASSUME NEW error, ZipFails(error)
        PROVE  zip'.pc = "failed" /\ DOMAIN zip' = DOMAIN zip /\ zip'.file = zip.file
    BY <1>1, <2>1 DEF ZipFails
  <2>2. ASSUME ZipCalm \/ ZipFault PROVE zipFaults' \in Nat
    BY <1>1, <2>2 DEF ZipCalm, ZipFault
  <2>3. CASE FindCentralDirectoryEnd
    <3>1. \/ \E e : zip' = [zip EXCEPT !.pc = "open", !.end = e]
          \/ ZipFails("not a zip")
      BY <2>3 DEF FindCentralDirectoryEnd
    <3>2. zip.pc = "find" /\ (ZipCalm \/ ZipFault)
      BY <2>3 DEF FindCentralDirectoryEnd
    <3> QED
      BY <1>1, <2>1, <2>2, <3>1, <3>2
  <2>4. CASE OpenDirectory
    <3>1. zip' = [zip EXCEPT !.pc = "records"] \/ ZipFails("no directory")
      BY <2>4 DEF OpenDirectory
    <3>2. zip.pc = "open" /\ (ZipCalm \/ ZipFault)
      BY <2>4 DEF OpenDirectory
    <3> QED
      BY <1>1, <2>1, <2>2, <3>1, <3>2
  <2>5. CASE ReadRecord
    BY <1>1, <2>5 DEF ReadRecord, ZipCalm
  <2>6. CASE TraversalError
    BY <1>1, <2>6 DEF TraversalError, ZipCalm
  <2>7. CASE EndRecords
    BY <1>1, <2>7 DEF EndRecords, ZipCalm
  <2> QED
    BY <2>3, <2>4, <2>5, <2>6, <2>7 DEF ZipNext
<1>3. zip.file \in DOMAIN Layout
  BY <1>2 DEF ZipInv
<1>4. ASSUME Intact(File)
      PROVE  Walks(File)' /\ (zip'.pc \in {"failed", "crashed"} => zipFaults' > 0)
  <2>1. PICK f : f = File
    OBVIOUS
  <2>2. f = Layout[zip.file] /\ File' = f /\ Intact(f)
    BY <1>2, <1>4, <2>1 DEF File
  <2>3. Walks(f)
    BY <1>3, <1>4, <2>1 DEF ZipInv
  <2>4. /\ EndOf(f).total \in Nat /\ EndOf(f).total > 0
        /\ EndOf(f).size \in Nat /\ EndOf(f).offset \in Nat
        /\ Next_(f, 0) = EndOf(f).offset
    BY <1>3, <2>2, DirectoryFacts DEF Next_
  <2>5. CASE FindCentralDirectoryEnd
    <3>1. zip.at = 0 /\ zip.offset = 0 /\ zip.nodes = <<>> /\ zip.files = <<>>
      BY <2>5 DEF FindCentralDirectoryEnd, ZipInv
    <3>2. /\ EndsInWindow(File) # {} /\ Min(EndsInWindow(File)) + EndSize <= File.length
          /\ File.ends[Min(EndsInWindow(File))] = EndOf(f)
      BY <1>3, <2>1, <2>2, EndFound
    <3>3. \/ zip' = [zip EXCEPT !.pc = "open", !.end = EndOf(f)]
          \/ zip'.pc = "failed" /\ zipFaults' > 0
      <4>1. \/ zip' = [zip EXCEPT !.pc = "open", !.end = EndOf(f)]
            \/ ZipFails("not a zip") /\ ZipFault
        BY <2>5, <3>2 DEF FindCentralDirectoryEnd
      <4>2. ASSUME ZipFails("not a zip"), ZipFault PROVE zip'.pc = "failed" /\ zipFaults' > 0
        BY <1>1, <4>2 DEF ZipFails, ZipFault
      <4> QED
        BY <4>1, <4>2, Zenon
    <3> QED
      BY <1>1, <2>2, <3>1, <3>3 DEF Walks
  <2>6. CASE OpenDirectory
    <3>1. zip.end = EndOf(f) /\ zip.at = 0 /\ zip.offset = 0 /\ zip.nodes = <<>> /\ zip.files = <<>>
      BY <2>3, <2>6 DEF OpenDirectory, Walks
    <3>2. EndOf(f).size > 0 /\ EndOf(f).offset + EndOf(f).size <= File.length
      BY <1>3, <2>1, <2>2, EndFound
    <3>3. \/ zip' = [zip EXCEPT !.pc = "records"]
          \/ zip'.pc = "failed" /\ zipFaults' > 0
      <4>1. zip.end.size > 0 /\ zip.end.offset + zip.end.size <= File.length
        BY <3>1, <3>2
      <4>2. zip' = [zip EXCEPT !.pc = "records"] \/ (ZipFails("no directory") /\ ZipFault)
        BY <2>6, <4>1 DEF OpenDirectory
      <4>3. ASSUME ZipFails("no directory"), ZipFault PROVE zip'.pc = "failed" /\ zipFaults' > 0
        BY <1>1, <4>3 DEF ZipFails, ZipFault
      <4> QED
        BY <4>2, <4>3, Zenon
    <3>4. <<>> = [i \in 1..0 |-> f.records[Offsets(f)[i]].name]
      OBVIOUS
    <3> QED
      BY <1>1, <2>2, <2>4, <3>1, <3>3, <3>4 DEF Walks
  <2>7. ASSUME zip.pc = "records"
        PROVE  /\ zip.end = EndOf(f) /\ zip.at \in Nat /\ zip.at <= EndOf(f).total /\ zip.offset \in Nat
               /\ EndOf(f).offset + zip.offset = Next_(f, zip.at)
               /\ zip.nodes = [i \in 1..zip.at |-> f.records[Offsets(f)[i]].name]
               /\ zip.files = zip.nodes
    BY <2>3, <2>4, <2>7 DEF Walks
  <2>8. ASSUME zip.pc = "records", zip.at < EndOf(f).total
        PROVE  /\ Place = Offsets(f)[zip.at + 1] /\ Place \in DOMAIN File.records
               /\ HeaderRead /\ RecordEnd(File.records[Place]) <= zip.end.size
               /\ EndOf(f).offset + RecordEnd(File.records[Place]) = Next_(f, zip.at + 1)
               /\ RecordEnd(File.records[Place]) \in Nat
    <3>1. Place = EndOf(f).offset + zip.offset /\ File.records = f.records
      BY <2>1, <2>7, <2>8 DEF Place
    <3> QED
      BY <1>3, <2>2, <2>7, <2>8, <3>1, RecordAtHand DEF HeaderRead, RecordEnd
  <2>9. CASE ReadRecord
    <3> DEFINE r == File.records[Place]
               name(i) == f.records[Offsets(f)[i]].name
    <3>1. /\ zip.pc = "records" /\ zip.end = EndOf(f) /\ zip.at < EndOf(f).total
          /\ zip' = [zip EXCEPT !.at = @ + 1, !.offset = RecordEnd(r),
                                !.nodes = Append(@, r.name), !.files = Append(@, r.name)]
      BY <2>7, <2>9 DEF ReadRecord
    <3>2. r.name = name(zip.at + 1)
      BY <2>1, <2>8, <3>1
    <3>3. Append([i \in 1..zip.at |-> name(i)], name(zip.at + 1)) = [i \in 1..zip.at + 1 |-> name(i)]
      <4> HIDE DEF name
      <4>1. PICK n \in Nat : n = zip.at
        BY <2>7, <3>1
      <4>2. [i \in 1..n |-> name(i)] \in Seq({name(i) : i \in 1..n + 1})
            /\ Len([i \in 1..n |-> name(i)]) = n
        OBVIOUS
      <4>3. Append([i \in 1..n |-> name(i)], name(n + 1)) = [i \in 1..n + 1 |-> name(i)]
        BY <4>2
      <4> QED
        BY <4>1, <4>3
    <3>4. zip'.nodes = [i \in 1..zip.at + 1 |-> name(i)] /\ zip'.files = zip'.nodes
      BY <1>1, <2>7, <3>1, <3>2, <3>3
    <3>5. /\ zip'.pc = "records" /\ zip'.end = EndOf(f) /\ zip'.at = zip.at + 1
          /\ zip'.at \in 0..EndOf(f).total /\ zip'.offset = RecordEnd(r)
      BY <1>1, <2>4, <2>7, <3>1
    <3> QED
      BY <2>2, <2>8, <3>1, <3>4, <3>5 DEF Walks
  <2>10. CASE TraversalError
    <3>1. zip.pc = "records" /\ zip.at < EndOf(f).total
      BY <2>7, <2>10 DEF TraversalError
    <3>2. HeaderRead /\ RecordEnd(File.records[Place]) <= zip.end.size /\ zip.end.size \in Nat
          /\ RecordEnd(File.records[Place]) \in Nat
      BY <2>4, <2>7, <2>8, <3>1
    <3>3. RecordEnd(File.records[Place]) > zip.end.size
      BY <2>10, <3>2 DEF TraversalError
    <3>4. PICK x, y : x = RecordEnd(File.records[Place]) /\ y = zip.end.size
      OBVIOUS
    <3>5. x <= y /\ x > y /\ x \in Nat /\ y \in Nat
      BY <3>2, <3>3, <3>4
    <3> QED
      BY <3>5
  <2>11. CASE EndRecords
    <3>1. /\ zip.pc = "records" /\ zip.end = EndOf(f) /\ zip.at >= EndOf(f).total
          /\ zip' = [zip EXCEPT !.pc = "listed"]
      BY <2>7, <2>11 DEF EndRecords
    <3>2. zip.at = EndOf(f).total
      BY <2>4, <2>7, <3>1
    <3>3. /\ zip'.pc = "listed" /\ zip'.end = zip.end /\ zip'.at = zip.at /\ zip'.offset = zip.offset
          /\ zip'.nodes = zip.nodes /\ zip'.files = zip.files
      BY <1>1, <3>1
    <3>4. Walks(f)'
      BY <2>4, <2>7, <3>1, <3>2, <3>3 DEF Walks
    <3>5. Walks(File)'
      BY <2>2, <3>4 DEF Walks
    <3> QED
      BY <3>3, <3>5
  <2> QED
    BY <2>5, <2>6, <2>9, <2>10, <2>11 DEF ZipNext
<1>5. (Intact(File))' <=> Intact(File)
  BY <1>2 DEF File
<1> QED
  BY <1>1, <1>2, <1>3, <1>4, <1>5 DEF ZipInv, Pcs

\* An object that is made opens a file and has read nothing.
LEMMA ZipOpens ==
    ASSUME ZipInv, NEW g, AnalyzeFile(g)
    PROVE  ZipInv'
<1>1. \/ /\ g \in DOMAIN Layout /\ zip' = [NoZip EXCEPT !.pc = "find", !.file = g] /\ zipFaults' = zipFaults
      \/ /\ zip' = [NoZip EXCEPT !.pc = "failed", !.file = g, !.error = "system"]
         /\ zipFaults' \in Nat /\ (g \in DOMAIN Layout => zipFaults' > 0)
  BY DEF AnalyzeFile, ZipCalm, ZipFault, ZipInv
<1>2. DOMAIN zip' = {"pc", "file", "end", "at", "offset", "nodes", "files", "error"}
  BY <1>1 DEF NoZip
<1>3. zip'.file = g /\ zip'.at = 0 /\ zip'.offset = 0 /\ zip'.nodes = <<>> /\ zip'.files = <<>>
  BY <1>1 DEF NoZip
<1>4. \/ zip'.pc = "find" /\ g \in DOMAIN Layout
      \/ zip'.pc = "failed" /\ (g \in DOMAIN Layout => zipFaults' > 0)
  BY <1>1 DEF NoZip
<1>5. zipFaults' \in Nat
  BY <1>1 DEF ZipInv
<1>6. zip'.pc \in {"find", "failed"}
  BY <1>4
<1>7. Walks(File)'
  BY <1>6 DEF Walks
<1> QED
  BY <1>2, <1>3, <1>4, <1>5, <1>6, <1>7 DEF ZipInv, Pcs

LEMMA ZipBegins ==
    ASSUME zip = NoZip, zipFaults \in Nat
    PROVE  ZipInv
BY DEF ZipInv, NoZip, Walks, Pcs

LEMMA ZipConsequences ==
    ZipInv => ListIsDirectory
<1> SUFFICES ASSUME ZipInv, zip.file \in DOMAIN Layout, Intact(File), zip.pc = "listed"
             PROVE  zip.nodes = Names(File) /\ zip.files = Names(File)
  BY DEF ListIsDirectory, ZipInv
<1>1. PICK f : f = File
  OBVIOUS
<1>2. /\ zip.nodes = [i \in 1..EndOf(f).total |-> f.records[Offsets(f)[i]].name]
      /\ zip.files = zip.nodes
  BY <1>1 DEF ZipInv, Walks
<1>3. DOMAIN Offsets(f) = 1..EndOf(f).total
  BY <1>1, DirectoryFacts DEF File
<1>4. Names(f) = [i \in DOMAIN Offsets(f) |-> f.records[Offsets(f)[i]].name]
  BY DEF Names, EndOf, Offsets, Marker
<1> QED
  BY <1>1, <1>2, <1>3, <1>4

-----------------------------------------------------------------------------
(* Division by the size of a block.  *)

LEMMA Division ==
    ASSUME NEW b \in Nat \ {0}, NEW x \in Nat
    PROVE  /\ x \div b \in Nat /\ x % b \in Nat /\ x % b < b
           /\ x = b * (x \div b) + (x % b)
OBVIOUS

\* A larger factor makes the product larger by at least the other one.
LEMMA Products ==
    ASSUME NEW b \in Nat \ {0}, NEW m \in Int, NEW n \in Int, m < n
    PROVE  b * m + b <= b * n
<1>1. \A u, v \in Nat : u * v \in Nat
  OBVIOUS
<1>2. b * (n - m - 1) \in Nat
  <2>1. n - m - 1 \in Nat /\ b \in Nat
    OBVIOUS
  <2> QED
    BY <1>1, <2>1
<1>3. b * (n - m - 1) = b * n - b * m - b
  OBVIOUS
<1> QED
  BY <1>2, <1>3

\* What lies between two multiples of b is divided down to the first.
LEMMA Quotient ==
    ASSUME NEW b \in Nat \ {0}, NEW x \in Nat, NEW q \in Int, b * q <= x, x < b * q + b
    PROVE  x \div b = q
<1> DEFINE p == x \div b
<1>1. p \in Nat /\ b * p <= x /\ x < b * p + b
  BY Division
<1>2. ~(p < q)
  <2>1. p < q => b * p + b <= b * q
    BY <1>1, Products
  <2>2. b * p \in Int /\ b * q \in Int
    BY <1>1
  <2> HIDE DEF p
  <2> QED
    BY <1>1, <2>1, <2>2
<1>3. ~(q < p)
  <2>1. q < p => b * q + b <= b * p
    BY <1>1, Products
  <2>2. b * p \in Int /\ b * q \in Int
    BY <1>1
  <2> HIDE DEF p
  <2> QED
    BY <1>1, <2>1, <2>2
<1> QED
  BY <1>1, <1>2, <1>3

LEMMA BlockFacts ==
    ASSUME NEW i \in Nat \ {0}
    PROVE  /\ BlockOf(i) \in Nat \ {0}
           /\ i <= BlockOf(i) * Block /\ BlockOf(i) * Block < i + Block
           /\ BlockOf(i) * Block \in Nat
           /\ BlockOf(BlockOf(i) * Block) = BlockOf(i)
<1> DEFINE q == BlockOf(i)
<1>1. Block \in Nat \ {0} /\ i + Block - 1 \in Nat
  BY CipherAssumption
<1>2. q \in Nat /\ Block * q <= i + Block - 1 /\ i + Block - 1 < Block * q + Block
  BY <1>1, Division DEF BlockOf
<1>3. q * Block = Block * q /\ Block * q \in Nat
  BY <1>1, <1>2
<1> HIDE DEF q
<1>4. i <= q * Block /\ q * Block < i + Block
  BY <1>1, <1>2, <1>3
<1>5. q # 0
  BY <1>1, <1>4
<1>6. BlockOf(q * Block) = q
  <2>1. Block * q <= q * Block + Block - 1 /\ q * Block + Block - 1 < Block * q + Block
        /\ q * Block + Block - 1 \in Nat
    BY <1>1, <1>2, <1>3
  <2>2. (q * Block + Block - 1) \div Block = q
    BY <1>1, <1>2, <2>1, Quotient
  <2> QED
    BY <2>2 DEF BlockOf
<1> QED
  BY <1>2, <1>3, <1>4, <1>5, <1>6 DEF q

\* A block of a cell that is not behind n cells, which are whole blocks, is none either.
LEMMA BlockWithin ==
    ASSUME NEW n \in Nat, n % Block = 0, NEW i \in Nat \ {0}, i <= n
    PROVE  BlockOf(i) * Block <= n
<1> DEFINE q == BlockOf(i)
           k == n \div Block
<1>1. Block \in Nat \ {0} /\ k \in Nat /\ n = Block * k
  BY CipherAssumption, Division
<1>2. q \in Nat /\ q * Block < i + Block /\ q * Block = Block * q /\ Block * q \in Nat
  BY <1>1, BlockFacts
<1> HIDE DEF q, k
<1>3. ~(k < q)
  <2>1. k < q => Block * k + Block <= Block * q
    BY <1>1, <1>2, Products
  <2> QED
    BY <1>1, <1>2, <2>1
<1>4. k = q \/ Block * q + Block <= Block * k
  <2>1. q < k => Block * q + Block <= Block * k
    BY <1>1, <1>2, Products
  <2> QED
    BY <1>1, <1>2, <1>3, <2>1
<1> QED
  BY <1>1, <1>2, <1>4 DEF q

\* One block less is whole blocks, too.
LEMMA OneBlockLess ==
    ASSUME NEW n \in Nat, n % Block = 0, Block <= n
    PROVE  n - Block \in Nat /\ (n - Block) % Block = 0
<1>1. Block \in Nat \ {0}
  BY CipherAssumption
<1>2. PICK k \in Nat : n = Block * k
  <2>1. n \div Block \in Nat /\ n = Block * (n \div Block) + 0
    BY <1>1, Division, Zenon
  <2>2. PICK k \in Nat : n = Block * k + 0
    BY <2>1, Zenon
  <2>3. Block * k \in Int
    BY <1>1
  <2> QED
    BY <2>2, <2>3
<1>3. PICK x \in Nat : x = n - Block
  BY <1>1
<1>4. Block * (k - 1) = x /\ k - 1 \in Int
  BY <1>1, <1>2, <1>3
<1>5. x \div Block = k - 1
  <2>1. Block * (k - 1) <= x /\ x < Block * (k - 1) + Block
    BY <1>1, <1>4
  <2> QED
    BY <1>1, <1>4, <2>1, Quotient
<1>6. x = x + (x % Block) /\ x % Block \in Nat
  <2>1. x = Block * (x \div Block) + (x % Block) /\ x % Block \in Nat
    BY <1>1, Division, Zenon
  <2> QED
    BY <1>4, <1>5, <2>1, Zenon
<1> QED
  BY <1>3, <1>6

\* The data is padded to what was encrypted.
LEMMA PaddedIsSize ==
    ASSUME NEW s, IsSection(s)
    PROVE  Padded(s) = s.size
<1> DEFINE n == s.length
           k == s.size \div Block
           r == n % Block
           q == n \div Block
<1>1. /\ Block \in Nat \ {0} /\ n \in Nat /\ s.size \in Nat
      /\ n <= s.size /\ s.size < n + Block /\ s.size % Block = 0
  BY CipherAssumption DEF IsSection
<1>2. /\ k \in Nat /\ s.size = Block * k /\ q \in Nat /\ r \in Nat /\ r < Block /\ n = Block * q + r
  <2>1. q \in Nat /\ r \in Nat /\ r < Block /\ n = Block * q + r
    <3> HIDE DEF n
    <3> QED
      BY <1>1, Division, Zenon
  <2>2. k \in Nat /\ s.size = Block * k + (s.size % Block)
    <3>1. PICK m \in Nat : m = s.size
      BY <1>1
    <3>2. m \div Block \in Nat /\ m = Block * (m \div Block) + (m % Block)
      BY <1>1, Division, Zenon
    <3> QED
      BY <3>1, <3>2, Zenon
  <2> HIDE DEF n, k, r, q
  <2>3. Block * k + 0 = Block * k
    BY <1>1, <2>2
  <2> QED
    BY <1>1, <2>1, <2>2, <2>3
<1>3. Padded(s) = IF r # 0 THEN n + (Block - r) ELSE n
  BY DEF Padded
<1>4. Block * k \in Nat /\ Block * q \in Nat
  BY <1>1, <1>2
<1> HIDE DEF n, k, r, q
<1>5. k = q \/ k = q + 1
  <2>1. k < q => Block * k + Block <= Block * q
    BY <1>1, <1>2, Products
  <2>2. q + 1 < k => Block * (q + 1) + Block <= Block * k
    BY <1>1, <1>2, Products
  <2>3. Block * (q + 1) = Block * q + Block
    BY <1>1, <1>2
  <2> QED
    BY <1>1, <1>2, <1>4, <2>1, <2>2, <2>3
<1>6. CASE k = q
  BY <1>1, <1>2, <1>3, <1>4, <1>6
<1>7. CASE k = q + 1
  <2>1. Block * k = Block * q + Block
    BY <1>1, <1>2, <1>7
  <2> QED
    BY <1>1, <1>2, <1>3, <1>4, <2>1
<1> QED
  BY <1>5, <1>6, <1>7

-----------------------------------------------------------------------------
(* The steps.  *)

\* A cell that the last block spoils.
Spoiled(s, i) == s.length < s.size /\ i > s.size - Block

CipherInv(s) ==
    /\ DOMAIN cipher = {"pc", "data", "stored", "output", "freed"}
    /\ cipher.pc \in {"key", "decrypt", "check", "decrypted", "failed"}
    /\ cipher.pc \in {"key", "decrypt", "check"} => cipher.freed = FALSE
    /\ cipher.pc \in {"key", "decrypt"} =>
          /\ DOMAIN cipher.data = 1..s.size
          /\ \A i \in 1..s.length : cipher.data[i] = Encrypted(i)
    /\ RightFor(s, cipher.stored) /\ cipher.pc = "check" =>
          \E cells \in [1..s.size -> {Plain(i) : i \in 1..s.size} \cup {Junk}] :
             /\ cipher.output = cells
             /\ \A i \in 1..s.size : cells[i] = Plain(i) \/ Spoiled(s, i)
    /\ DecryptsRight(s)

LEMMA SectionFacts ==
    ASSUME NEW s, IsSection(s)
    PROVE  /\ s.size \in Nat /\ s.length \in Nat /\ s.length <= s.size /\ s.size < s.length + Block
           /\ s.size % Block = 0 /\ Block \in Nat \ {0} /\ HeaderSize \in Nat /\ Block < HeaderSize
           /\ s.marks \in 0..2 /\ s.stream \in Nat /\ (s.marks > 0 => s.length > 0)
           /\ s.marks = 2 /\ s.size >= HeaderSize => HeaderSize + s.stream <= s.size
BY CipherAssumption DEF IsSection

LEMMA CipherPrepares ==
    ASSUME NEW s, IsSection(s), NEW k, Prepare(s, k)
    PROVE  CipherInv(s)' /\ cipher'.stored = k
<1>1. PICK rest : cipher' = [NoCipher EXCEPT !.pc = "key", !.data = DataToDecrypt(s, rest), !.stored = k]
  BY DEF Prepare
<1>2. /\ DOMAIN cipher' = {"pc", "data", "stored", "output", "freed"}
      /\ cipher'.pc = "key" /\ cipher'.freed = FALSE /\ cipher'.stored = k
      /\ cipher'.data = DataToDecrypt(s, rest)
  BY <1>1 DEF NoCipher
<1>3. /\ DOMAIN DataToDecrypt(s, rest) = 1..s.size
      /\ \A i \in 1..s.length : DataToDecrypt(s, rest)[i] = Encrypted(i)
  BY PaddedIsSize, SectionFacts DEF DataToDecrypt
<1> QED
  BY <1>2, <1>3 DEF CipherInv, DecryptsRight

\* A cell that the last block does not spoil is decrypted when the key is right.
LEMMA CellDecrypted ==
    ASSUME NEW s, IsSection(s), NEW k, RightFor(s, k), NEW data, DOMAIN data = 1..s.size,
           \A i \in 1..s.length : data[i] = Encrypted(i), NEW i \in 1..s.size, ~Spoiled(s, i)
    PROVE  DecryptedCell(s, k, data, i) = Plain(i)
<1> DEFINE cells == {j \in DOMAIN data : BlockOf(j) = BlockOf(i)}
           last == BlockOf(i) * Block
<1>1. /\ s.size \in Nat /\ s.length \in Nat /\ s.length <= s.size /\ s.size < s.length + Block
      /\ s.size % Block = 0 /\ Block \in Nat \ {0}
  BY SectionFacts
<1>2. i \in Nat \ {0} /\ i <= s.size
  BY <1>1
<1>3. last \in Nat /\ i <= last /\ last < i + Block /\ last <= s.size /\ BlockOf(last) = BlockOf(i)
  BY <1>1, <1>2, BlockFacts, BlockWithin
<1>4. last \in cells
  BY <1>1, <1>2, <1>3
<1>5. last <= s.length
  <2>1. CASE s.length = s.size
    BY <1>3, <2>1
  <2>2. CASE s.length # s.size
    <3>1. i <= s.size - Block
      BY <1>1, <1>2, <2>2 DEF Spoiled
    <3>2. PICK n \in Nat : n = s.size - Block /\ n % Block = 0
      <4>1. Block <= s.size
        BY <1>1, <1>2, <3>1
      <4> QED
        BY <1>1, <4>1, OneBlockLess
    <3>3. last <= n
      BY <1>2, <3>1, <3>2, BlockWithin
    <3> HIDE DEF last
    <3> QED
      BY <1>1, <1>3, <3>2, <3>3
  <2> QED
    BY <2>1, <2>2
<1>6. \A j \in cells : data[j] = Encrypted(j)
  <2> SUFFICES ASSUME NEW j \in cells PROVE j \in 1..s.length
    OBVIOUS
  <2>1. j \in Nat \ {0} /\ BlockOf(j) = BlockOf(i)
    BY <1>1
  <2>2. j <= BlockOf(j) * Block
    BY <2>1, BlockFacts
  <2>3. j <= last
    BY <2>1, <2>2
  <2> HIDE DEF last, cells
  <2> QED
    BY <1>1, <1>3, <1>5, <2>1, <2>3
<1>7. k.key = s.secret /\ k.keyBits = 256 /\ k.iv = s.secret
  BY DEF RightFor
<1> QED
  BY <1>4, <1>6, <1>7 DEF DecryptedCell

\* Compressed data, from cells that only the last block spoils.
LEMMA ContentsDecompressed ==
    ASSUME NEW s, IsSection(s), s.marks = 2, s.size >= HeaderSize,
           NEW cells \in [1..s.size -> {Plain(i) : i \in 1..s.size} \cup {Junk}], cipher.output = cells,
           \A i \in 1..s.size : cells[i] = Plain(i) \/ Spoiled(s, i)
    PROVE  IsContents(s, Decompressed(s))
<1>1. /\ s.size \in Nat /\ Block \in Nat \ {0} /\ HeaderSize \in Nat /\ s.stream \in Nat
      /\ HeaderSize + s.stream <= s.size
  BY SectionFacts
<1>2. Contents(s) = [i \in 1..s.stream |-> Payload(i)]
  BY DEF Contents
<1>3. PICK out : out = Decompressed(s)
  OBVIOUS
<1>4. /\ DOMAIN out = 1..s.stream
      /\ \A i \in 1..s.stream : out[i] = Payload(i) \/ (s.length < s.size /\ HeaderSize + i > s.size - Block)
  <2>1. DOMAIN out = 1..s.stream
    BY <1>3 DEF Decompressed
  <2>2. ASSUME NEW i \in 1..s.stream, ~(s.length < s.size /\ HeaderSize + i > s.size - Block)
        PROVE  out[i] = Payload(i)
    <3>1. \A j \in 1..i : HeaderSize + j \in 1..s.size /\ ~Spoiled(s, HeaderSize + j)
      BY <1>1, <2>2 DEF Spoiled
    <3>2. \A j \in 1..i : cipher.output[HeaderSize + j] = Plain(HeaderSize + j)
      BY <3>1
    <3> QED
      BY <1>3, <3>2 DEF Decompressed
  <2> QED
    BY <2>1, <2>2
<1>5. Len(out) = s.stream /\ Len(Contents(s)) = s.stream
  <2>1. out = [i \in 1..s.stream |-> out[i]]
    BY <1>3 DEF Decompressed
  <2>2. Len([i \in 1..s.stream |-> out[i]]) = s.stream
    BY <1>1
  <2>3. Len([i \in 1..s.stream |-> Payload(i)]) = s.stream
    BY <1>1
  <2> QED
    BY <1>2, <2>1, <2>2, <2>3
<1>6. \A i \in 1..s.stream : Contents(s)[i] = Payload(i)
  BY <1>2
<1> QED
  BY <1>3, <1>4, <1>5, <1>6 DEF IsContents, InLastBlock

LEMMA CipherStep ==
    ASSUME NEW s, IsSection(s), CipherInv(s), CipherNext(s)
    PROVE  CipherInv(s)' /\ cipher'.stored = cipher.stored
<1>1. DOMAIN cipher = {"pc", "data", "stored", "output", "freed"}
  BY DEF CipherInv
<1>2. /\ s.size \in Nat /\ Block \in Nat \ {0} /\ HeaderSize \in Nat /\ Block < HeaderSize
      /\ s.length \in Nat /\ s.length <= s.size
      /\ s.marks \in 0..2 /\ (s.marks > 0 => s.length > 0)
  BY SectionFacts
<1>3. CASE SetKeyAndIV
  <2>1. /\ cipher'.pc \in {"decrypt", "failed"} /\ DOMAIN cipher' = DOMAIN cipher
        /\ cipher'.stored = cipher.stored /\ cipher'.data = cipher.data /\ cipher'.freed = cipher.freed
        /\ cipher'.pc = "failed" => ~Usable(cipher.stored)
        /\ cipher.pc = "key"
    BY <1>1, <1>3 DEF SetKeyAndIV
  <2>2. RightFor(s, cipher.stored) => Usable(cipher.stored)
    BY DEF RightFor, Usable
  <2> QED
    BY <1>1, <2>1, <2>2 DEF CipherInv, DecryptsRight
<1>4. CASE DecryptData(s)
  <2> DEFINE cell(i) == DecryptedCell(s, cipher.stored, cipher.data, i)
  <2>1. /\ cipher'.pc = "check" /\ DOMAIN cipher' = DOMAIN cipher
        /\ cipher'.stored = cipher.stored /\ cipher'.freed = cipher.freed
        /\ cipher'.output = [i \in DOMAIN cipher.data |-> cell(i)]
        /\ cipher.pc = "decrypt"
    BY <1>1, <1>4 DEF DecryptData
  <2>2. DOMAIN cipher.data = 1..s.size /\ (\A i \in 1..s.length : cipher.data[i] = Encrypted(i)) /\ cipher.freed = FALSE
    BY <2>1 DEF CipherInv
  <2>3. ASSUME RightFor(s, cipher.stored)
        PROVE  \E cells \in [1..s.size -> {Plain(i) : i \in 1..s.size} \cup {Junk}] :
                  /\ cipher'.output = cells
                  /\ \A i \in 1..s.size : cells[i] = Plain(i) \/ Spoiled(s, i)
    <3>1. \A i \in 1..s.size : cell(i) \in {Plain(j) : j \in 1..s.size} \cup {Junk}
      BY DEF DecryptedCell
    <3>2. \A i \in 1..s.size : cell(i) = Plain(i) \/ Spoiled(s, i)
      <4> SUFFICES ASSUME NEW i \in 1..s.size, ~Spoiled(s, i) PROVE cell(i) = Plain(i)
        OBVIOUS
      <4>1. PICK k, data : k = cipher.stored /\ data = cipher.data
        OBVIOUS
      <4>2. DecryptedCell(s, k, data, i) = Plain(i)
        BY <2>2, <2>3, <4>1, CellDecrypted
      <4> QED
        BY <4>1, <4>2
    <3> HIDE DEF cell
    <3>3. [i \in 1..s.size |-> cell(i)] \in [1..s.size -> {Plain(i) : i \in 1..s.size} \cup {Junk}]
      BY <3>1
    <3>4. cipher'.output = [i \in 1..s.size |-> cell(i)]
      BY <2>1, <2>2
    <3> QED
      BY <3>2, <3>3, <3>4
  <2> QED
    BY <1>1, <2>1, <2>2, <2>3 DEF CipherInv, DecryptsRight
<1>5. CASE LzssDecompress(s)
  <2>1. /\ cipher'.pc = "decrypted" /\ DOMAIN cipher' = DOMAIN cipher /\ cipher'.stored = cipher.stored
        /\ cipher.pc = "check" /\ cipher.freed = FALSE
        /\ cipher'.freed = (IsFileCompressed(s) /\ Len(cipher.output) < HeaderSize)
        /\ cipher'.output = IF IsFileCompressed(s) /\ ~(Len(cipher.output) < HeaderSize)
                            THEN Decompressed(s) ELSE cipher.output
    <3>1. cipher.pc = "check" /\ cipher.freed = FALSE
      BY <1>5 DEF LzssDecompress, CipherInv
    <3>2. CASE ~IsFileCompressed(s)
      BY <1>1, <1>5, <3>1, <3>2 DEF LzssDecompress
    <3>3. CASE IsFileCompressed(s) /\ Len(cipher.output) < HeaderSize
      BY <1>1, <1>5, <3>1, <3>3 DEF LzssDecompress
    <3>4. CASE IsFileCompressed(s) /\ ~(Len(cipher.output) < HeaderSize)
      BY <1>1, <1>5, <3>1, <3>4 DEF LzssDecompress
    <3> QED
      BY <3>2, <3>3, <3>4
  <2>2. DecryptsRight(s)'
    <3> SUFFICES ASSUME RightFor(s, cipher.stored)
                 PROVE  IF s.marks > 0 /\ s.size < HeaderSize
                        THEN cipher'.freed \/ (s.length < s.size /\ s.size <= Block)
                        ELSE /\ ~cipher'.freed
                             /\ IF s.marks = 1 THEN IsLost(s, cipher'.output) ELSE IsContents(s, cipher'.output)
      BY <2>1 DEF DecryptsRight
    <3>1. PICK cells \in [1..s.size -> {Plain(i) : i \in 1..s.size} \cup {Junk}] :
             /\ cipher.output = cells
             /\ \A i \in 1..s.size : cells[i] = Plain(i) \/ Spoiled(s, i)
      BY <2>1 DEF CipherInv
    <3>2. Len(cells) = s.size
      <4>1. cells \in Seq({Plain(i) : i \in 1..s.size} \cup {Junk})
        BY <1>2
      <4> QED
        BY <1>2, <4>1
    <3>3. CASE s.marks = 0
      <4>1. ~IsFileCompressed(s)
        BY <3>3 DEF IsFileCompressed
      <4>2. cipher'.freed = FALSE /\ cipher'.output = cells
        BY <2>1, <3>1, <4>1
      <4>3. Contents(s) = [i \in 1..s.size |-> Plain(i)]
        BY <3>3 DEF Contents
      <4>4. Len(Contents(s)) = s.size /\ \A i \in 1..s.size : Contents(s)[i] = Plain(i)
        BY <1>2, <4>3
      <4>5. IsContents(s, cells)
        BY <3>1, <3>2, <3>3, <4>4 DEF IsContents, InLastBlock, Spoiled
      <4> QED
        BY <3>3, <4>2, <4>5
    <3>4. CASE s.marks > 0
      <4>1. cells # NoData /\ 1 \in 1..s.size
        BY <1>2, <3>2, <3>4 DEF NoData
      <4>2. IsFileCompressed(s) \/ Spoiled(s, 1)
        BY <3>1, <3>4, <4>1 DEF IsFileCompressed
      <4>3. CASE s.size < HeaderSize
        <5>1. Spoiled(s, 1) => s.length < s.size /\ s.size <= Block
          BY <1>2 DEF Spoiled
        <5>2. IsFileCompressed(s) => cipher'.freed
          BY <2>1, <3>1, <3>2, <4>3
        <5> QED
          BY <3>4, <4>2, <4>3, <5>1, <5>2
      <4>4. CASE ~(s.size < HeaderSize)
        <5>1. ~Spoiled(s, 1)
          BY <1>2, <4>4 DEF Spoiled
        <5>2. cipher'.freed = FALSE /\ cipher'.output = Decompressed(s)
          BY <2>1, <3>1, <3>2, <4>2, <4>4, <5>1
        <5>3. CASE s.marks = 2
          <6>1. IsContents(s, Decompressed(s))
            BY <1>2, <3>1, <4>4, <5>3, ContentsDecompressed
          <6> QED
            BY <4>4, <5>2, <5>3, <6>1
        <5>4. CASE s.marks = 1
          <6>1. Decompressed(s) = [i \in 1..s.stream |-> Junk]
            BY <5>4 DEF Decompressed
          <6>2. s.stream \in Nat
            BY SectionFacts
          <6>3. IsLost(s, Decompressed(s))
            BY <6>1, <6>2 DEF IsLost
          <6> QED
            BY <4>4, <5>2, <5>4, <6>3
        <5> QED
          BY <1>2, <3>4, <5>3, <5>4
      <4> QED
        BY <4>3, <4>4
    <3> QED
      BY <1>2, <3>3, <3>4
  <2> QED
    BY <1>1, <2>1, <2>2 DEF CipherInv
<1> QED
  BY <1>3, <1>4, <1>5 DEF CipherNext

-----------------------------------------------------------------------------
(* The invariant.  *)

\* Where the program is, and what it has read of its line by then.
PhaseInv ==
    /\ phase \in {"idle", "arguments", "analyze", "update", "store", "next", "lookup", "cipher"}
    /\ phase \in {"analyze", "update", "store", "next", "lookup", "cipher"} => argPc = "accepted"
    /\ phase \in {"update", "store"} => operation = "update"
    /\ entry \in Nat /\ (entry > 0 <=> phase = "store")
    /\ phase = "analyze" /\ operation = "decrypt" => settings.section # Null
    /\ phase \in {"next", "lookup", "cipher"} => operation = "decrypt" /\ settings.section # Null
    /\ phase \in {"lookup", "cipher"} => At \in DOMAIN Section
    /\ runs \in 0..MaxRuns

Update == [device: Argument, version: Argument, page: DOMAIN Page, stored: Nat]

\* What is stored for a slot is what the last entry stored for it brought.
BookInv ==
    /\ updates \in Seq(Update)
    /\ \A i \in DOMAIN updates : updates[i].stored <= Len(Page[updates[i].page])
    /\ DOMAIN book \subseteq Slot
    /\ \A s \in DOMAIN book :
          \E i \in DOMAIN updates : \E j \in 1..updates[i].stored :
             /\ Brings(i, j, s) /\ Last(i, j, s)
             /\ book[s] = Page[updates[i].page][j].pair

\* While a page is stored, the last update is of that page, as far as it is stored.
StoreInv ==
    phase = "store" =>
        /\ Archive \in DOMAIN Page /\ entry <= Len(Page[Archive]) + 1
        /\ updates # <<>>
        /\ updates[Len(updates)] = [device |-> settings.device.word, version |-> settings.version.word,
                                   page |-> Archive, stored |-> entry - 1]

SectionInv == phase = "cipher" => CipherInv(Section[At])

Inv ==
    /\ ArgInv /\ ZipInv /\ PhaseInv /\ BookInv /\ StoreInv /\ StoredAsFar
    /\ KeyAsAsked /\ SectionInv

-----------------------------------------------------------------------------
(* What the steps leave alone.  *)

LEMMA Frames ==
    ASSUME Next
    PROVE  /\ \/ UNCHANGED argVars
              \/ ArgNext
              \/ \E l : Start(l) /\ runs < MaxRuns /\ l \in Line[runs + 1]
              \/ End
           /\ \/ UNCHANGED zipVars
              \/ ZipNext
              \/ \E f : AnalyzeFile(f)
              \/ End /\ UNCHANGED zipFaults
           /\ ReadPage \/ StoreEntry \/ UNCHANGED <<book, updates>>
           /\ (\E l : Start(l)) \/ UNCHANGED runs
<1>1. CASE StartNext
  BY <1>1 DEF StartNext, Start
<1>2. CASE InArguments
  BY <1>2 DEF InArguments, pastVars, handlerVars
<1>3. CASE Refused
  BY <1>3 DEF Refused, pastVars
<1>4. CASE BeginHandler
  BY <1>4 DEF BeginHandler, pastVars
<1>5. CASE InAnalyze
  BY <1>5 DEF InAnalyze, pastVars
<1>6. CASE Analyzed
  BY <1>6 DEF Analyzed, pastVars, zipVars
<1>7. CASE NextFile
  BY <1>7 DEF NextFile, pastVars, zipVars
<1>8. CASE Lookup
  BY <1>8 DEF Lookup, pastVars, zipVars
<1>9. CASE InCipher
  BY <1>9 DEF InCipher, pastVars
<1>10. CASE NoKeyOrIV
  BY <1>10 DEF NoKeyOrIV, pastVars
<1>11. CASE Write
  BY <1>11 DEF Write, pastVars, zipVars
<1>12. CASE ReadPage
  BY <1>12 DEF ReadPage, zipVars
<1>13. CASE StoreEntry
  BY <1>13 DEF StoreEntry
<1>14. CASE EndUpdate
  BY <1>14 DEF EndUpdate, pastVars
<1> QED
  BY <1>1, <1>2, <1>3, <1>4, <1>5, <1>6, <1>7, <1>8, <1>9, <1>10, <1>11, <1>12, <1>13, <1>14 DEF Next, Step

LEMMA LineIsTyped ==
    ASSUME runs \in 0..MaxRuns, runs < MaxRuns, NEW l \in Line[runs + 1]
    PROVE  l.command \in Command \cup {"unknown"} /\ l.args \in Seq(Argument) /\ runs + 1 \in 0..MaxRuns
<1>1. MaxRuns \in Nat /\ runs + 1 \in 1..MaxRuns
  BY ProgramAssumption
<1> QED
  BY <1>1, ProgramAssumption

LEMMA ArgKept ==
    ASSUME Inv, Next
    PROVE  ArgInv'
<1>1. ArgInv /\ runs \in 0..MaxRuns
  BY DEF Inv, PhaseInv
<1>2. CASE UNCHANGED argVars
  BY <1>1, <1>2, ArgSame
<1>3. CASE ArgNext
  BY <1>1, <1>3, ArgStep
<1>4. CASE \E l : Start(l) /\ runs < MaxRuns /\ l \in Line[runs + 1]
  <2>1. PICK l \in Line[runs + 1] : Start(l) /\ runs < MaxRuns
    BY <1>4
  <2>2. l.command \in Command \cup {"unknown"} /\ l.args \in Seq(Argument)
    BY <1>1, <2>1, LineIsTyped
  <2>3. PICK c \in Command \cup {"unknown"}, a \in Seq(Argument) : ParseArguments(c, a)
    BY <2>1, <2>2 DEF Start
  <2> QED
    BY <1>1, <2>3, ParseStep
<1>5. CASE End
  BY <1>5, ArgEnds DEF End
<1> QED
  BY <1>2, <1>3, <1>4, <1>5, Frames

LEMMA ZipSame ==
    ASSUME ZipInv, UNCHANGED zipVars
    PROVE  ZipInv'
<1>1. zip' = zip /\ zipFaults' = zipFaults
  BY DEF zipVars
<1>2. File' = File /\ (Walks(File)' <=> Walks(File))
  BY <1>1 DEF File, Walks
<1> QED
  BY <1>1, <1>2 DEF ZipInv

LEMMA ZipKept ==
    ASSUME Inv, Next
    PROVE  ZipInv'
<1>1. ZipInv
  BY DEF Inv
<1>2. CASE UNCHANGED zipVars
  BY <1>1, <1>2, ZipSame
<1>3. CASE ZipNext
  BY <1>1, <1>3, ZipStep
<1>4. CASE \E f : AnalyzeFile(f)
  BY <1>1, <1>4, ZipOpens
<1>5. CASE End /\ UNCHANGED zipFaults
  BY <1>1, <1>5, ZipBegins DEF End, ZipInv, NoZip, Walks, Pcs
<1> QED
  BY <1>2, <1>3, <1>4, <1>5, Frames

LEMMA PhaseKept ==
    ASSUME Inv, Next
    PROVE  PhaseInv'
<1>1. PhaseInv
  BY DEF Inv
<1>2. CASE StartNext
  <2>1. PICK l \in Line[runs + 1] : Start(l)
    BY <1>2 DEF StartNext
  <2>2. runs < MaxRuns
    BY <1>2 DEF StartNext
  <2>3. runs' \in 0..MaxRuns
    BY <1>1, <2>1, <2>2, LineIsTyped DEF PhaseInv, Start
  <2> QED
    BY <1>1, <1>2, <2>1, <2>3 DEF PhaseInv, Start, StartNext, Enter
<1>3. ASSUME End, UNCHANGED runs PROVE PhaseInv'
  BY <1>1, <1>3 DEF PhaseInv, End
<1>4. CASE InArguments
  BY <1>1, <1>4 DEF PhaseInv, InArguments, handlerVars, pastVars
<1>5. CASE Refused
  BY <1>3, <1>5 DEF Refused, pastVars
<1>6. CASE BeginHandler
  <2>1. UNCHANGED runs /\ argPc = "accepted"
    BY <1>6 DEF BeginHandler, pastVars
  <2>2. CASE /\ OpensArchive /\ ~(operation = "decrypt" /\ Missing("section"))
             /\ Enter("analyze") /\ UNCHANGED <<argVars, entry>> /\ phase = "arguments"
    BY <1>1, <2>1, <2>2 DEF PhaseInv, Enter, argVars, Missing
  <2>3. CASE operation = "update" /\ Enter("update") /\ UNCHANGED <<argVars, entry>> /\ phase = "arguments"
    BY <1>1, <2>1, <2>3 DEF PhaseInv, Enter, argVars
  <2> QED
    BY <1>3, <1>6, <2>1, <2>2, <2>3 DEF BeginHandler
<1>7. CASE InAnalyze
  BY <1>1, <1>7 DEF PhaseInv, InAnalyze, handlerVars, pastVars, argVars
<1>8. CASE Analyzed
  <2>1. UNCHANGED runs
    BY <1>8 DEF Analyzed, pastVars
  <2>2. CASE operation = "decrypt" /\ Enter("next") /\ UNCHANGED <<argVars, entry>> /\ phase = "analyze"
    BY <1>1, <2>1, <2>2 DEF PhaseInv, Enter, argVars
  <2> QED
    BY <1>3, <1>8, <2>1, <2>2 DEF Analyzed
<1>9. CASE NextFile
  <2>1. UNCHANGED runs /\ phase = "next"
    BY <1>9 DEF NextFile, pastVars
  <2>2. CASE /\ At \in DOMAIN Section /\ Enter("lookup") /\ UNCHANGED <<argVars, files, entry>>
    <3>1. At' = At
      BY <2>2 DEF At, Archive, argVars
    <3> QED
      BY <1>1, <2>1, <2>2, <3>1 DEF PhaseInv, Enter, argVars
  <2> QED
    BY <1>3, <1>9, <2>1, <2>2 DEF NextFile
<1>10. CASE Lookup
  <2>1. UNCHANGED runs /\ phase = "lookup"
    BY <1>10 DEF Lookup, pastVars
  <2>2. CASE Enter("cipher") /\ UNCHANGED <<argVars, files, entry>>
    <3>1. At' = At
      BY <2>2 DEF At, Archive, argVars
    <3> QED
      BY <1>1, <2>1, <2>2, <3>1 DEF PhaseInv, Enter, argVars
  <2> QED
    BY <1>3, <1>10, <2>1, <2>2 DEF Lookup
<1>11. CASE InCipher
  <2>1. At' = At
    BY <1>11 DEF InCipher, At, Archive, argVars, handlerVars
  <2> QED
    BY <1>1, <1>11, <2>1 DEF PhaseInv, InCipher, handlerVars, pastVars, argVars
<1>12. CASE NoKeyOrIV
  BY <1>3, <1>12 DEF NoKeyOrIV, pastVars
<1>13. CASE Write
  <2>1. UNCHANGED runs /\ phase = "cipher"
    BY <1>13 DEF Write, pastVars
  <2>2. CASE Enter("next") /\ UNCHANGED <<argVars, entry>>
    BY <1>1, <2>1, <2>2 DEF PhaseInv, Enter, argVars
  <2> QED
    BY <1>3, <1>13, <2>1, <2>2 DEF Write
<1>14. CASE ReadPage
  <2>1. CASE Enter("store") /\ entry' = 1 /\ UNCHANGED <<argVars, runs>> /\ phase = "update"
    BY <1>1, <2>1 DEF PhaseInv, Enter, argVars
  <2> QED
    BY <1>3, <1>14, <2>1 DEF ReadPage
<1>15. CASE StoreEntry
  BY <1>1, <1>15 DEF PhaseInv, StoreEntry, argVars
<1>16. CASE EndUpdate
  BY <1>3, <1>16 DEF EndUpdate, pastVars
<1> QED
  BY <1>2, <1>4, <1>5, <1>6, <1>7, <1>8, <1>9, <1>10, <1>11, <1>12, <1>13, <1>14, <1>15, <1>16 DEF Next, Step

-----------------------------------------------------------------------------
(* What an accepted line comes to.  *)

\* update stores under the device and the version that its line asks for.
LEMMA UpdateAsSaid ==
    ASSUME ArgInv, argPc = "accepted", operation = "update"
    PROVE  /\ settings.device.word = SaidDevice /\ settings.version.word = SaidVersion
           /\ settings.device.word \in Argument /\ settings.version.word \in Argument
           /\ Archive = args[Len(args)]
<1>1. /\ operation \in Command /\ Callable(operation, args) /\ ArgTypeOK
      /\ settings.archive = Whole(args[Len(args)]) /\ settings.version # Null
      /\ Taken(operation) = {"-d", "-b", "-v"} /\ FromName(operation) = {"device", "build"}
      /\ ~VersionTaken
  BY DEF ArgInv, Shape, Named, Taken, FromName, VersionTaken
<1>2. SettingOf("-d") = "device" /\ SettingOf("-v") = "version"
  BY DEF SettingOf
<1>3. /\ IF Given("-d") # {} THEN settings.device = Value("-d") ELSE IsFromName("device")
      /\ IF Given("-v") # {} THEN settings.version = Value("-v") ELSE settings.version = Null
  BY <1>1, <1>2 DEF ArgInv, Parsed, Named, Resolved, IsGiven
<1>4. settings.version = Value("-v") /\ Given("-v") # {}
  BY <1>1, <1>3
<1>5. settings.device \in Text /\ settings.version \in Text
  BY <1>1, <1>3, <1>4, ValueIsText DEF IsFromName
<1>6. settings.device.word = SaidDevice
  BY <1>1, <1>3 DEF SaidDevice, IsFromName
<1>7. settings.version.word = SaidVersion
  BY <1>4 DEF SaidVersion
<1> QED
  BY <1>1, <1>5, <1>6, <1>7 DEF Archive, Whole, Text

\* decrypt looks up what its line asks for, but for the end of the device.
LEMMA DecryptAsSaid ==
    ASSUME ArgInv, argPc = "accepted", operation = "decrypt", settings.section # Null
    PROVE  /\ settings.version.word = SaidVersion /\ settings.section.word = Value("-s").word
           /\ settings.device.word \in IF Given("-v") # {} THEN {SaidDevice} ELSE Beginnings(SaidDevice)
<1>1. /\ operation \in Command /\ Callable(operation, args) /\ ArgTypeOK
      /\ settings.archive = Whole(args[Len(args)])
      /\ Taken(operation) = {"-d", "-b", "-v", "-s"} /\ FromName(operation) = {"device", "version"}
      /\ VersionTaken <=> Given("-v") = {}
  BY DEF ArgInv, Shape, Named, Taken, FromName, VersionTaken
<1>2. SettingOf("-d") = "device" /\ SettingOf("-v") = "version" /\ SettingOf("-s") = "section"
  BY DEF SettingOf
<1>3. /\ IF Given("-d") # {} THEN IsGiven("-d") ELSE IsFromName("device")
      /\ IF Given("-v") # {} THEN settings.version = Value("-v") ELSE IsFromName("version")
      /\ IF Given("-s") # {} THEN settings.section = Value("-s") ELSE settings.section = Null
  BY <1>1, <1>2 DEF ArgInv, Parsed, Named, Resolved, IsGiven
<1>4. settings.version.word = SaidVersion
  BY <1>3 DEF SaidVersion, IsFromName
<1>5. settings.section = Value("-s")
  BY <1>3
<1>6. settings.device.word = SaidDevice \/ (VersionTaken /\ settings.device.word \in Beginnings(SaidDevice))
  BY <1>2, <1>3 DEF SaidDevice, IsGiven, IsFromName
<1>7. settings.device \in Text
  BY <1>1, <1>2, <1>3, ValueIsText DEF IsGiven, IsFromName
<1>8. settings.device.word = SaidDevice => settings.device.word \in Beginnings(SaidDevice)
  BY <1>7, BeginsWithItself DEF Text
<1> QED
  BY <1>1, <1>4, <1>5, <1>6, <1>8

-----------------------------------------------------------------------------
(* The database.  *)

LEMMA SameUpdates ==
    ASSUME UNCHANGED updates
    PROVE  \A i, j, s : (Brings(i, j, s)' <=> Brings(i, j, s)) /\ (Last(i, j, s)' <=> Last(i, j, s))
BY DEF Brings, Last, For

\* What is stored is an entry of a page.
LEMMA EntryStored ==
    ASSUME BookInv, NEW i \in DOMAIN updates, NEW j \in 1..updates[i].stored
    PROVE  Page[updates[i].page][j] \in Entry
<1>1. updates[i] \in Update
  <2>1. updates \in Seq(Update)
    BY DEF BookInv
  <2> HIDE DEF Update
  <2> QED
    BY <2>1
<1>2. updates[i].page \in DOMAIN Page /\ updates[i].stored \in Nat
  BY <1>1 DEF Update
<1>3. PICK E, l : E = Entry /\ l = Page[updates[i].page]
  OBVIOUS
<1>4. l \in Seq(E)
  BY <1>2, <1>3, ProgramAssumption
<1>5. updates[i].stored <= Len(l)
  BY <1>3 DEF BookInv
<1>6. l[j] \in E
  BY <1>2, <1>4, <1>5
<1> QED
  BY <1>3, <1>6

LEMMA BookSame ==
    ASSUME BookInv, UNCHANGED <<book, updates>>
    PROVE  BookInv'
BY SameUpdates DEF BookInv

\* A page that is opened has nothing stored yet.
LEMMA PageOpened ==
    ASSUME BookInv, NEW u \in Update, u.stored = 0, updates' = Append(updates, u)
    PROVE  /\ Len(updates') = Len(updates) + 1 /\ updates' \in Seq(Update)
           /\ DOMAIN updates' = 1..Len(updates) + 1 /\ DOMAIN updates = 1..Len(updates) /\ Len(updates) \in Nat
           /\ updates'[Len(updates) + 1] = u
           /\ \A i \in DOMAIN updates : updates'[i] = updates[i]
           /\ \A i, j, s : Brings(i, j, s)' <=> Brings(i, j, s)
<1>1. PICK U, l : U = Update /\ l = updates
  OBVIOUS
<1>2. l \in Seq(U) /\ u \in U
  BY <1>1 DEF BookInv
<1>3. /\ Len(Append(l, u)) = Len(l) + 1 /\ Append(l, u) \in Seq(U)
      /\ DOMAIN Append(l, u) = 1..Len(l) + 1 /\ DOMAIN l = 1..Len(l) /\ Len(l) \in Nat
      /\ Append(l, u)[Len(l) + 1] = u
      /\ \A i \in DOMAIN l : Append(l, u)[i] = l[i]
  BY <1>2
<1>4. /\ Len(updates') = Len(updates) + 1 /\ updates' \in Seq(Update)
      /\ DOMAIN updates' = 1..Len(updates) + 1 /\ DOMAIN updates = 1..Len(updates) /\ Len(updates) \in Nat
      /\ updates'[Len(updates) + 1] = u
      /\ \A i \in DOMAIN updates : updates'[i] = updates[i]
  BY <1>1, <1>3
<1>5. ASSUME NEW i, NEW j, NEW s
      PROVE  Brings(i, j, s)' <=> Brings(i, j, s)
  <2>1. CASE i \in DOMAIN updates
    <3>1. i \in DOMAIN updates' /\ updates'[i] = updates[i]
      BY <1>4, <2>1
    <3> QED
      BY <2>1, <3>1 DEF Brings, For
  <2>2. CASE i \notin DOMAIN updates
    <3>1. ~Brings(i, j, s)
      BY <2>2 DEF Brings
    <3>2. i \in DOMAIN updates' => updates'[i].stored = 0
      BY <1>4, <2>2
    <3>3. ~(j \in 1..0)
      OBVIOUS
    <3> QED
      BY <3>1, <3>2, <3>3 DEF Brings
  <2> QED
    BY <2>1, <2>2
<1> QED
  BY <1>4, <1>5

\* Of the page at hand one more entry is stored.
LEMMA OneStored ==
    ASSUME Inv, StoreEntry
    PROVE  /\ Len(updates) \in DOMAIN updates /\ DOMAIN updates' = DOMAIN updates
           /\ Len(updates') = Len(updates) /\ updates' \in Seq(Update)
           /\ DOMAIN updates = 1..Len(updates) /\ Len(updates) \in Nat \ {0}
           /\ updates'[Len(updates)] = [updates[Len(updates)] EXCEPT !.stored = entry]
           /\ \A i \in DOMAIN updates : i # Len(updates) => updates'[i] = updates[i]
           /\ updates[Len(updates)].stored = entry - 1 /\ updates[Len(updates)] \in Update
           /\ updates[Len(updates)].page = Archive /\ entry \in 1..Len(Page[Archive])
           /\ SlotAtHand \in Slot /\ For(Len(updates), entry) = SlotAtHand
           /\ \A i \in DOMAIN updates : \A j, s :
                 Brings(i, j, s)' <=> Brings(i, j, s) \/ (i = Len(updates) /\ j = entry /\ s = SlotAtHand)
<1>0. PICK n : n = Len(updates)
  OBVIOUS
<1>1. /\ phase = "store" /\ entry <= Len(Page[Archive]) /\ updates' = [updates EXCEPT ![n].stored = entry]
      /\ Archive \in DOMAIN Page /\ updates # <<>> /\ entry \in Nat /\ entry > 0
      /\ updates[n] = [device |-> settings.device.word, version |-> settings.version.word,
                       page |-> Archive, stored |-> entry - 1]
  BY <1>0 DEF Inv, StoreInv, PhaseInv, StoreEntry, Storable
<1>2. PICK U, l : U = Update /\ l = updates
  OBVIOUS
<1>3. l \in Seq(U) /\ l # <<>>
  BY <1>1, <1>2 DEF Inv, BookInv
<1>4. Len(l) \in DOMAIN l /\ DOMAIN l = 1..Len(l) /\ Len(l) \in Nat \ {0} /\ l[Len(l)] \in U
  BY <1>3
<1>5. n \in DOMAIN updates /\ DOMAIN updates = 1..n /\ n \in Nat \ {0} /\ updates[n] \in Update
  BY <1>0, <1>2, <1>4
<1>6. /\ DOMAIN updates' = DOMAIN updates /\ updates'[n] = [updates[n] EXCEPT !.stored = entry]
      /\ \A i \in DOMAIN updates : i # n => updates'[i] = updates[i]
  BY <1>1, <1>5
<1>7. updates'[n] = [device |-> updates[n].device, version |-> updates[n].version,
                     page |-> Archive, stored |-> entry]
  BY <1>1, <1>6
<1>8. updates'[n] \in Update
  BY <1>1, <1>5, <1>7 DEF Update
<1>9. updates' \in Seq(Update) /\ Len(updates') = n
  <2>1. \A i \in 1..n : updates[i] \in Update
    <3>1. \A i \in DOMAIN l : l[i] \in U
      BY <1>3
    <3> QED
      BY <1>2, <1>5, <3>1
  <2>2. \A i \in 1..n : updates'[i] \in Update
    BY <1>5, <1>6, <1>8, <2>1
  <2>3. updates' = [i \in 1..n |-> updates'[i]]
    BY <1>1, <1>5
  <2>4. PICK m, f : m = updates' /\ f = [i \in 1..n |-> updates'[i]]
    OBVIOUS
  <2>5. f \in [1..n -> U] /\ n \in Nat
    BY <1>2, <1>5, <2>2, <2>4
  <2>6. f \in Seq(U) /\ Len(f) = n
    BY <2>5
  <2> QED
    BY <1>2, <2>3, <2>4, <2>6
<1>10. SlotAtHand \in Slot /\ For(n, entry) = SlotAtHand
  <2>1. PICK E, p : E = Entry /\ p = Page[Archive]
    OBVIOUS
  <2>2. p \in Seq(E)
    BY <1>1, <2>1, ProgramAssumption
  <2>3. p[entry] \in E
    BY <1>1, <2>1, <2>2
  <2>4. AtHand.section \in Argument
    BY <2>1, <2>3 DEF AtHand, Entry
  <2>5. settings.device.word \in Argument /\ settings.version.word \in Argument
    BY <1>1, <1>5 DEF Update
  <2> QED
    BY <1>1, <2>4, <2>5 DEF SlotAtHand, Slot, For, AtHand
<1>11. ASSUME NEW i \in DOMAIN updates, NEW j, NEW s
       PROVE  Brings(i, j, s)' <=> Brings(i, j, s) \/ (i = n /\ j = entry /\ s = SlotAtHand)
  <2>1. CASE i # n
    <3>1. updates'[i] = updates[i] /\ i \in DOMAIN updates'
      BY <1>6, <2>1
    <3> QED
      BY <2>1, <3>1 DEF Brings, For
  <2>2. CASE i = n
    <3>1. For(n, j)' = For(n, j)
      <4>1. /\ updates'[n].device = updates[n].device /\ updates'[n].version = updates[n].version
            /\ updates'[n].page = updates[n].page
        BY <1>1, <1>7
      <4> QED
        BY <4>1 DEF For
    <3>2. j \in 1..entry <=> j \in 1..entry - 1 \/ j = entry
      BY <1>1
    <3>3. updates'[n].stored = entry /\ updates[n].stored = entry - 1
      BY <1>1, <1>7
    <3>4. Brings(n, j, s)' <=> j \in 1..entry /\ For(n, j) = s
      BY <1>5, <1>6, <3>1, <3>3 DEF Brings
    <3>5. Brings(n, j, s) <=> j \in 1..entry - 1 /\ For(n, j) = s
      BY <1>5, <3>3 DEF Brings
    <3> QED
      BY <1>10, <2>2, <3>2, <3>4, <3>5
  <2> QED
    BY <2>1, <2>2
<1>12. entry \in 1..Len(Page[Archive])
  <2>1. Len(Page[Archive]) \in Nat
    BY <1>1, ProgramAssumption
  <2> QED
    BY <1>1, <2>1
<1> QED
  BY <1>0, <1>1, <1>5, <1>6, <1>9, <1>10, <1>11, <1>12

\* A page that is opened changes nothing; an entry that is stored is the last of its slot.
LEMMA BookKept ==
    ASSUME Inv, Next
    PROVE  BookInv'
<1>1. BookInv /\ ArgInv /\ PhaseInv
  BY DEF Inv
<1>2. CASE UNCHANGED <<book, updates>>
  BY <1>1, <1>2, BookSame
<1>3. CASE ReadPage
  <2>1. CASE Archive \in DOMAIN Page
    <3>1. PICK u \in Update : u.stored = 0 /\ updates' = Append(updates, u) /\ book' = book
      <4>1. argPc = "accepted" /\ operation = "update"
        BY <1>1, <1>3 DEF ReadPage, PhaseInv
      <4>2. [device |-> SaidDevice, version |-> SaidVersion, page |-> args[Len(args)], stored |-> 0] \in Update
        BY <1>1, <2>1, <4>1, UpdateAsSaid DEF Update
      <4> QED
        BY <1>3, <2>1, <4>2 DEF ReadPage
    <3>2. \A i, j, s : Brings(i, j, s)' <=> Brings(i, j, s)
      BY <1>1, <3>1, PageOpened
    <3>3. /\ updates' \in Seq(Update) /\ DOMAIN updates \subseteq DOMAIN updates'
          /\ \A i \in DOMAIN updates : updates'[i] = updates[i]
          /\ \A i \in DOMAIN updates' : i \in DOMAIN updates \/ updates'[i] = u
      BY <1>1, <3>1, PageOpened
    <3>4. ASSUME NEW i \in DOMAIN updates, NEW j, NEW s, Brings(i, j, s), Last(i, j, s)
          PROVE  Last(i, j, s)'
      <4> SUFFICES ASSUME NEW k \in DOMAIN updates', NEW m \in 1..updates'[k].stored, Brings(k, m, s)'
                   PROVE  k < i \/ (k = i /\ m <= j)
        BY DEF Last
      <4>1. Brings(k, m, s)
        BY <3>2
      <4> QED
        BY <3>4, <4>1 DEF Last, Brings
    <3>5. ASSUME NEW s \in DOMAIN book
          PROVE  \E i \in DOMAIN updates' : \E j \in 1..updates'[i].stored :
                    /\ Brings(i, j, s)' /\ Last(i, j, s)'
                    /\ book[s] = Page[updates'[i].page][j].pair
      <4>1a. PICK i \in DOMAIN updates : \E j \in 1..updates[i].stored :
               Brings(i, j, s) /\ Last(i, j, s) /\ book[s] = Page[updates[i].page][j].pair
        BY <1>1 DEF BookInv
      <4>1. PICK j \in 1..updates[i].stored :
               Brings(i, j, s) /\ Last(i, j, s) /\ book[s] = Page[updates[i].page][j].pair
        BY <4>1a
      <4>2. i \in DOMAIN updates' /\ updates'[i] = updates[i]
        BY <3>3
      <4> QED
        BY <3>2, <3>4, <4>1, <4>2
    <3>6. \A i \in DOMAIN updates' : updates'[i].stored <= Len(Page[updates'[i].page])
      <4>1. Len(Page[u.page]) \in Nat
        BY ProgramAssumption DEF Update
      <4> QED
        BY <1>1, <3>1, <3>3, <4>1 DEF BookInv
    <3> QED
      BY <1>1, <3>1, <3>3, <3>5, <3>6 DEF BookInv
  <2>2. CASE Archive \notin DOMAIN Page
    BY <1>1, <1>3, <2>2, BookSame DEF ReadPage
  <2> QED
    BY <2>1, <2>2
<1>4. CASE StoreEntry
  <2>0. PICK n, e : n = Len(updates) /\ e = entry
    OBVIOUS
  <2>1. /\ n \in DOMAIN updates /\ DOMAIN updates' = DOMAIN updates /\ updates' \in Seq(Update)
        /\ DOMAIN updates = 1..n /\ n \in Nat \ {0}
        /\ updates'[n] = [updates[n] EXCEPT !.stored = e] /\ updates[n] \in Update
        /\ \A i \in DOMAIN updates : i # n => updates'[i] = updates[i]
        /\ updates[n].page = Archive /\ e \in 1..Len(Page[Archive]) /\ SlotAtHand \in Slot
        /\ updates[n].stored = e - 1
    BY <2>0, <1>4, OneStored
  <2>2. \A i \in DOMAIN updates : \A j, s :
           Brings(i, j, s)' <=> Brings(i, j, s) \/ (i = n /\ j = e /\ s = SlotAtHand)
    BY <2>0, <1>4, OneStored
  <2>3. updates'[n].stored = e /\ updates'[n].page = Archive /\ e \in Nat \ {0}
    BY <2>1 DEF Update
  <2>4. \A i \in DOMAIN updates : updates'[i].page = updates[i].page
    BY <2>1, <2>3
  <2>5. book' = Published
    BY <1>4 DEF StoreEntry
  <2>6. DOMAIN book' = DOMAIN book \cup {SlotAtHand} /\ DOMAIN book' \subseteq Slot
    BY <1>1, <2>1, <2>5 DEF Published, BookInv
  <2>7. \A i \in DOMAIN updates' : updates'[i].stored <= Len(Page[updates'[i].page])
    <3> SUFFICES ASSUME NEW i \in DOMAIN updates
                 PROVE  updates'[i].stored <= Len(Page[updates'[i].page])
      BY <2>1
    <3>1. Len(Page[Archive]) \in Nat
      BY <2>1, ProgramAssumption DEF Update
    <3>2. CASE i = n
      <4>1. updates'[i].stored = e /\ updates'[i].page = Archive
        BY <2>3, <3>2
      <4>2. e <= Len(Page[Archive])
        BY <2>1, <3>1
      <4> QED
        BY <4>1, <4>2
    <3>3. CASE i # n
      BY <1>1, <2>1, <3>3 DEF BookInv
    <3> QED
      BY <3>2, <3>3
  <2>8. ASSUME NEW s \in DOMAIN book'
        PROVE  \E i \in DOMAIN updates' : \E j \in 1..updates'[i].stored :
                  /\ Brings(i, j, s)' /\ Last(i, j, s)'
                  /\ book'[s] = Page[updates'[i].page][j].pair
    <3>1. CASE s = SlotAtHand
      <4>1. Brings(n, e, s)'
        BY <2>1, <2>2, <3>1
      <4>2. Last(n, e, s)'
        <5> SUFFICES ASSUME NEW k \in DOMAIN updates', NEW m \in 1..updates'[k].stored
                     PROVE  k < n \/ (k = n /\ m <= e)
          BY DEF Last
        <5>1. k \in 1..n
          BY <2>1
        <5>2. CASE k = n
          <6>1. m \in 1..e
            BY <2>3, <5>2
          <6> QED
            BY <2>3, <5>2, <6>1
        <5>3. CASE k # n
          BY <2>1, <5>1, <5>3
        <5> QED
          BY <5>2, <5>3
      <4>3. book'[s] = Page[updates'[n].page][e].pair
        BY <2>0, <2>3, <2>5, <2>6, <3>1 DEF Published, AtHand
      <4>4. n \in DOMAIN updates' /\ e \in 1..updates'[n].stored
        BY <2>1, <2>3
      <4>5. \E j \in 1..updates'[n].stored :
               Brings(n, j, s)' /\ Last(n, j, s)' /\ book'[s] = Page[updates'[n].page][j].pair
        BY <4>1, <4>2, <4>3, <4>4, Zenon
      <4> QED
        BY <4>4, <4>5, Zenon
    <3>2. CASE s # SlotAtHand
      <4>1. s \in DOMAIN book /\ book'[s] = book[s]
        BY <2>5, <2>6, <3>2 DEF Published
      <4>2a. PICK i \in DOMAIN updates : \E j \in 1..updates[i].stored :
               Brings(i, j, s) /\ Last(i, j, s) /\ book[s] = Page[updates[i].page][j].pair
        BY <1>1, <4>1 DEF BookInv
      <4>2. PICK j \in 1..updates[i].stored :
               Brings(i, j, s) /\ Last(i, j, s) /\ book[s] = Page[updates[i].page][j].pair
        BY <4>2a
      <4>3. Brings(i, j, s)' /\ i \in DOMAIN updates'
        BY <2>1, <2>2, <4>2
      <4>4. j \in 1..updates'[i].stored
        BY <4>3 DEF Brings
      <4>5. Last(i, j, s)'
        <5> SUFFICES ASSUME NEW k \in DOMAIN updates', NEW m \in 1..updates'[k].stored, Brings(k, m, s)'
                     PROVE  k < i \/ (k = i /\ m <= j)
          BY DEF Last
        <5>1. k \in DOMAIN updates /\ Brings(k, m, s)
          BY <2>1, <2>2, <3>2
        <5> QED
          BY <4>2, <5>1 DEF Last, Brings
      <4>6. Page[updates'[i].page][j] = Page[updates[i].page][j]
        BY <2>4
      <4> QED
        BY <4>1, <4>2, <4>3, <4>4, <4>5, <4>6
    <3> QED
      BY <3>1, <3>2
  <2> QED
    BY <2>1, <2>6, <2>7, <2>8 DEF BookInv
<1> QED
  BY <1>2, <1>3, <1>4, Frames

\* The update at hand is the last one, up to the entry before the one at hand.
LEMMA StoreKept ==
    ASSUME Inv, Next
    PROVE  StoreInv'
<1>1. BookInv /\ ArgInv /\ PhaseInv /\ StoreInv
  BY DEF Inv
<1>2. CASE phase' # "store"
  BY <1>2 DEF StoreInv
<1>3. CASE ReadPage /\ phase' = "store"
  <2>1. /\ argPc = "accepted" /\ operation = "update" /\ Archive \in DOMAIN Page
        /\ entry' = 1 /\ UNCHANGED <<argVars>>
        /\ updates' = Append(updates, [device |-> SaidDevice, version |-> SaidVersion,
                                       page |-> args[Len(args)], stored |-> 0])
    BY <1>1, <1>3 DEF ReadPage, PhaseInv, End
  <2>2. /\ settings.device.word = SaidDevice /\ settings.version.word = SaidVersion
        /\ settings.device.word \in Argument /\ settings.version.word \in Argument
        /\ Archive = args[Len(args)]
    BY <1>1, <2>1, UpdateAsSaid
  <2>3. PICK u : u = [device |-> settings.device.word, version |-> settings.version.word,
                      page |-> Archive, stored |-> 0]
    OBVIOUS
  <2>4. u \in Update /\ u.stored = 0 /\ updates' = Append(updates, u)
    BY <2>1, <2>2, <2>3 DEF Update
  <2>5. Len(updates') = Len(updates) + 1 /\ updates'[Len(updates) + 1] = u /\ Len(updates) \in Nat
    BY <1>1, <2>4, PageOpened
  <2>6. updates' # <<>> /\ updates'[Len(updates')] = u
    BY <2>5
  <2>7. settings' = settings /\ Archive' = Archive
    BY <2>1 DEF Archive, argVars
  <2>8. Len(Page[Archive]) \in Nat
    BY <2>1, ProgramAssumption
  <2>9. entry' <= Len(Page[Archive]) + 1 /\ entry' - 1 = 0
    BY <2>1, <2>8
  <2> QED
    BY <2>1, <2>3, <2>6, <2>7, <2>9 DEF StoreInv
<1>4. CASE StoreEntry
  <2>0. PICK n : n = Len(updates)
    OBVIOUS
  <2>1. /\ Len(updates') = n /\ updates'[n] = [updates[n] EXCEPT !.stored = entry]
        /\ n \in DOMAIN updates /\ DOMAIN updates' = DOMAIN updates /\ entry \in 1..Len(Page[Archive])
    BY <2>0, <1>4, OneStored
  <2>2. phase = "store" /\ entry' = entry + 1 /\ settings' = settings /\ Archive' = Archive
    BY <1>4 DEF StoreEntry, argVars, Archive
  <2>3. /\ updates[n] = [device |-> settings.device.word, version |-> settings.version.word,
                         page |-> Archive, stored |-> entry - 1]
        /\ Archive \in DOMAIN Page /\ entry \in Nat
    BY <2>0, <1>1, <2>2 DEF StoreInv, PhaseInv
  <2>4. updates'[n] = [device |-> settings.device.word, version |-> settings.version.word,
                       page |-> Archive, stored |-> entry]
    BY <2>1, <2>3
  <2>5. Len(Page[Archive]) \in Nat
    BY <2>3, ProgramAssumption
  <2>6. entry' - 1 = entry /\ entry' <= Len(Page[Archive]) + 1
    BY <2>1, <2>2, <2>3, <2>5
  <2>7. updates' # <<>>
    BY <2>1
  <2> QED
    BY <2>0, <2>1, <2>2, <2>3, <2>4, <2>6, <2>7 DEF StoreInv
<1>5. (ReadPage /\ phase' = "store") \/ StoreEntry \/ phase' # "store"
  BY <1>1 DEF Next, Step, StartNext, Start, InArguments, Refused, BeginHandler, InAnalyze, Analyzed, NextFile,
         Lookup, InCipher, NoKeyOrIV, Write, ReadPage, EndUpdate, End, Enter, handlerVars, PhaseInv
<1> QED
  BY <1>2, <1>3, <1>4, <1>5

\* Where an update had to stop it still had to, whatever is stored behind.
LEMMA FarSame ==
    ASSUME StoredAsFar, UNCHANGED updates, phase = "store" => phase' = "store"
    PROVE  StoredAsFar'
<1>1. \A i, j : HadToStop(i, j)' <=> HadToStop(i, j)
  BY DEF HadToStop, For, Brings
<1> QED
  BY <1>1 DEF StoredAsFar

LEMMA FarKept ==
    ASSUME Inv, Next
    PROVE  StoredAsFar'
<1>1. BookInv /\ ArgInv /\ PhaseInv /\ StoreInv /\ StoredAsFar
  BY DEF Inv
<1>2. CASE ReadPage
  <2>1. CASE Archive \in DOMAIN Page
    <3>1. PICK u \in Update : u.stored = 0 /\ updates' = Append(updates, u) /\ phase' = "store" /\ phase = "update"
      <4>1. argPc = "accepted" /\ operation = "update"
        BY <1>1, <1>2 DEF ReadPage, PhaseInv
      <4>2. [device |-> SaidDevice, version |-> SaidVersion, page |-> args[Len(args)], stored |-> 0] \in Update
        BY <1>1, <2>1, <4>1, UpdateAsSaid DEF Update
      <4> QED
        BY <1>2, <2>1, <4>2 DEF ReadPage, Enter
    <3>2. /\ \A i, j, s : Brings(i, j, s)' <=> Brings(i, j, s)
          /\ Len(updates') = Len(updates) + 1 /\ Len(updates) \in Nat
          /\ DOMAIN updates' = 1..Len(updates) + 1 /\ DOMAIN updates = 1..Len(updates)
          /\ \A i \in DOMAIN updates : updates'[i] = updates[i]
      BY <1>1, <3>1, PageOpened
    <3>3. ASSUME NEW i \in DOMAIN updates, NEW j
          PROVE  HadToStop(i, j) => HadToStop(i, j)'
      <4>1. updates'[i] = updates[i] /\ For(i, j)' = For(i, j)
        BY <3>2 DEF For
      <4>2. \A k \in 1..i : k \in DOMAIN updates /\ updates'[k] = updates[k]
        BY <3>2
      <4> QED
        BY <3>2, <4>1, <4>2 DEF HadToStop
    <3>4. ASSUME NEW i \in DOMAIN updates'
          PROVE  \/ i = Len(updates') /\ phase' = "store"
                 \/ updates'[i].stored = Len(Page[updates'[i].page])
                 \/ HadToStop(i, updates[i].stored + 1)'
      <4>1. CASE i \in DOMAIN updates
        <5>1. updates'[i] = updates[i]
          BY <3>2, <4>1
        <5>2. updates[i].stored = Len(Page[updates[i].page]) \/ HadToStop(i, updates[i].stored + 1)
          BY <1>1, <3>1, <4>1 DEF StoredAsFar
        <5> QED
          BY <3>3, <4>1, <5>1, <5>2
      <4>2. CASE i \notin DOMAIN updates
        BY <3>1, <3>2, <4>2
      <4> QED
        BY <4>1, <4>2
    <3> QED
      BY <3>4 DEF StoredAsFar
  <2>2. CASE Archive \notin DOMAIN Page
    <3>1. UNCHANGED updates /\ phase = "update"
      BY <1>2, <2>2 DEF ReadPage
    <3> QED
      BY <1>1, <3>1, FarSame
  <2> QED
    BY <2>1, <2>2
<1>3. CASE StoreEntry
  <2>0. PICK n : n = Len(updates)
    OBVIOUS
  <2>1. /\ n \in DOMAIN updates /\ DOMAIN updates' = DOMAIN updates /\ Len(updates') = n
        /\ DOMAIN updates = 1..n /\ n \in Nat \ {0}
        /\ \A i \in DOMAIN updates : i # n => updates'[i] = updates[i]
    BY <2>0, <1>3, OneStored
  <2>2. \A i \in DOMAIN updates : \A j, s :
           Brings(i, j, s)' <=> Brings(i, j, s) \/ (i = n /\ j = entry /\ s = SlotAtHand)
    BY <2>0, <1>3, OneStored
  <2>3. phase = "store" /\ phase' = "store"
    BY <1>3 DEF StoreEntry
  <2>4. ASSUME NEW i \in DOMAIN updates, i # n
        PROVE  \/ updates'[i].stored = Len(Page[updates'[i].page])
               \/ HadToStop(i, updates[i].stored + 1)'
    <3>1. updates'[i] = updates[i]
      BY <2>1, <2>4
    <3>2. updates[i].stored = Len(Page[updates[i].page]) \/ HadToStop(i, updates[i].stored + 1)
      BY <2>0, <1>1, <2>4 DEF StoredAsFar
    <3>3. ASSUME NEW j, HadToStop(i, j) PROVE HadToStop(i, j)'
      <4>1. For(i, j)' = For(i, j)
        BY <3>1 DEF For
      <4>2. \A k \in 1..i : k \in DOMAIN updates /\ k # n /\ updates'[k] = updates[k]
        BY <2>1, <2>4
      <4>3. \A k \in 1..i : \A l, s : Brings(k, l, s) => Brings(k, l, s)'
        BY <2>2, <4>2
      <4> QED
        BY <3>1, <3>3, <4>1, <4>2, <4>3 DEF HadToStop
    <3> QED
      BY <3>1, <3>2, <3>3
  <2> QED
    BY <2>1, <2>3, <2>4 DEF StoredAsFar
<1>4. CASE EndUpdate
  <2>0. PICK n : n = Len(updates)
    OBVIOUS
  <2>1. /\ phase = "store" /\ UNCHANGED updates /\ ~Storable /\ n \in Nat /\ DOMAIN updates = 1..n
        /\ Archive \in DOMAIN Page /\ entry <= Len(Page[Archive]) + 1 /\ entry \in Nat
        /\ updates[n] = [device |-> settings.device.word, version |-> settings.version.word,
                         page |-> Archive, stored |-> entry - 1]
    <3>1. phase = "store" /\ UNCHANGED updates /\ ~Storable
      BY <1>4 DEF EndUpdate, pastVars
    <3>2. n \in Nat /\ DOMAIN updates = 1..n
      <4>1. PICK U, l : U = Update /\ l = updates
        OBVIOUS
      <4>2. l \in Seq(U)
        BY <1>1, <4>1 DEF BookInv
      <4>3. Len(l) \in Nat /\ DOMAIN l = 1..Len(l)
        BY <4>2
      <4> QED
        BY <2>0, <4>1, <4>3
    <3> QED
      BY <2>0, <1>1, <3>1, <3>2 DEF StoreInv, PhaseInv
  <2>2. \A i, j : HadToStop(i, j)' <=> HadToStop(i, j)
    BY <2>1 DEF HadToStop, For, Brings
  <2>3. updates[n].stored = Len(Page[updates[n].page]) \/ HadToStop(n, updates[n].stored + 1)
    <3>1. Len(Page[Archive]) \in Nat
      BY <2>1, ProgramAssumption
    <3>2. updates[n].stored = entry - 1 /\ updates[n].stored + 1 = entry /\ updates[n].page = Archive
          /\ updates[n].device = settings.device.word /\ updates[n].version = settings.version.word
      BY <2>1
    <3>3. CASE ~(entry <= Len(Page[Archive]))
      BY <2>1, <3>1, <3>2, <3>3
    <3>4. CASE ~AtHand.fits
      BY <3>2, <3>4 DEF HadToStop, AtHand
    <3>5. CASE settings.device.word \in NeedsQuotes /\ SlotAtHand \in DOMAIN book
      <4>1a. PICK i \in DOMAIN updates : \E j \in 1..updates[i].stored :
               Brings(i, j, SlotAtHand)
        BY <1>1, <3>5 DEF BookInv
      <4>1. PICK j \in 1..updates[i].stored :
               Brings(i, j, SlotAtHand)
        BY <4>1a
      <4>2. For(n, entry) = SlotAtHand
        BY <3>2 DEF For, SlotAtHand, AtHand
      <4>3. i \in 1..n
        BY <2>1
      <4> QED
        BY <3>2, <3>5, <4>1, <4>2, <4>3 DEF HadToStop
    <3> QED
      BY <2>1, <3>3, <3>4, <3>5 DEF Storable
  <2> QED
    BY <2>0, <1>1, <2>1, <2>2, <2>3 DEF StoredAsFar
<1>5. CASE UNCHANGED updates /\ phase # "store"
  BY <1>1, <1>5, FarSame
<1>6. ReadPage \/ StoreEntry \/ EndUpdate \/ (UNCHANGED updates /\ phase # "store")
  BY DEF Next, Step, StartNext, Start, InArguments, Refused, BeginHandler, InAnalyze, Analyzed, NextFile,
         Lookup, InCipher, NoKeyOrIV, Write, pastVars
<1> QED
  BY <1>2, <1>3, <1>4, <1>5, <1>6

\* What is stored was published last for just that slot.
LEMMA KeyKept ==
    ASSUME Inv, Next
    PROVE  KeyAsAsked'
<1>1. ArgInv /\ PhaseInv /\ BookInv /\ KeyAsAsked /\ SectionInv
  BY DEF Inv
<1>2. ASSUME UNCHANGED argVars
      PROVE  /\ SaidVersion' = SaidVersion /\ SaidDevice' = SaidDevice /\ Value("-s")' = Value("-s")
             /\ Given("-v")' = Given("-v")
  <2>1. UNCHANGED <<operation, args, settings>>
    BY <1>2 DEF argVars
  <2>2. \A o : Given(o)' = Given(o) /\ Value(o)' = Value(o)
    BY <2>1, SameLine
  <2>3. \A s : ByName(s)' = ByName(s)
    BY <2>1, SameName
  <2> QED
    BY <2>2, <2>3 DEF SaidVersion, SaidDevice
<1>3. CASE Lookup /\ phase' = "cipher"
  <2>1. PICK d \in Read(settings.device), v \in Read(settings.version) :
           LET asked == [device |-> d, version |-> v, section |-> settings.section.word] IN
           /\ asked \in DOMAIN book /\ slot' = asked
           /\ Prepare(Section[At], book[asked])
           /\ UNCHANGED <<argVars, zip, files>>
    BY <1>3 DEF Lookup, End
  <2>2. PICK asked : asked = [device |-> d, version |-> v, section |-> settings.section.word]
    OBVIOUS
  <2>3. /\ asked \in DOMAIN book /\ slot' = asked /\ Prepare(Section[At], book[asked])
        /\ UNCHANGED argVars
        /\ asked.device = d /\ asked.version = v /\ asked.section = settings.section.word
    BY <2>1, <2>2
  <2>4. phase = "lookup" /\ updates' = updates
    BY <1>3 DEF Lookup, pastVars
  <2>5. d # Garbled /\ v # Garbled
    BY <1>1, <2>3, ProgramAssumption DEF BookInv, Slot
  <2>6. d = settings.device.word /\ v = settings.version.word
    BY <2>5 DEF Read
  <2>7. /\ v = SaidVersion /\ asked.section = Value("-s").word
        /\ d \in IF Given("-v") # {} THEN {SaidDevice} ELSE Beginnings(SaidDevice)
    BY <1>1, <2>3, <2>4, <2>6, DecryptAsSaid DEF PhaseInv
  <2>8. cipher'.stored = book[asked]
    <3>1. At \in DOMAIN Section
      BY <1>1, <2>4 DEF PhaseInv
    <3>2. PICK x, k : x = Section[At] /\ k = book[asked]
      OBVIOUS
    <3>3. IsSection(x)
      BY <3>1, <3>2, ProgramAssumption
    <3>4. cipher'.stored = k
      BY <2>3, <3>2, <3>3, CipherPrepares
    <3> QED
      BY <3>2, <3>4
  <2>9. \E i \in DOMAIN updates : \E j \in 1..updates[i].stored :
           /\ Brings(i, j, asked) /\ Last(i, j, asked)
           /\ book[asked] = Page[updates[i].page][j].pair
    BY <1>1, <2>3 DEF BookInv
  <2>10. \E i \in DOMAIN updates' : \E j \in 1..updates'[i].stored :
           /\ Brings(i, j, slot)' /\ Last(i, j, slot)'
           /\ cipher'.stored = Page[updates'[i].page][j].pair
    BY <2>3, <2>4, <2>8, <2>9, SameUpdates
  <2> QED
    BY <1>2, <2>3, <2>7, <2>10 DEF KeyAsAsked, Beginnings
<1>4. CASE InCipher
  <2>1. phase = "cipher" /\ UNCHANGED argVars /\ slot' = slot /\ updates' = updates
    BY <1>4 DEF InCipher, handlerVars, pastVars
  <2>2. cipher'.stored = cipher.stored
    <3>1. PICK x : x = Section[At]
      OBVIOUS
    <3>2. IsSection(x) /\ CipherInv(x) /\ CipherNext(x)
      BY <1>1, <1>4, <2>1, <3>1, ProgramAssumption DEF PhaseInv, SectionInv, InCipher
    <3> QED
      BY <3>2, CipherStep
  <2> QED
    BY <1>1, <1>2, <2>1, <2>2, SameUpdates DEF KeyAsAsked, Beginnings
<1>5. ASSUME phase' # "cipher" PROVE KeyAsAsked'
  BY <1>5 DEF KeyAsAsked
<1>6. (Lookup /\ phase' = "cipher") \/ InCipher \/ phase' # "cipher"
  BY DEF Next, Step, StartNext, Start, InArguments, Refused, BeginHandler, InAnalyze, Analyzed, NextFile,
         NoKeyOrIV, Write, ReadPage, StoreEntry, EndUpdate, End, Enter, handlerVars
<1> QED
  BY <1>3, <1>4, <1>5, <1>6

LEMMA SectionKept ==
    ASSUME Inv, Next
    PROVE  SectionInv'
<1>1. PhaseInv /\ SectionInv
  BY DEF Inv
<1>2. CASE Lookup /\ phase' = "cipher"
  <2>1. PICK k : Prepare(Section[At], k) /\ UNCHANGED <<argVars, files>> /\ phase = "lookup"
    BY <1>2 DEF Lookup, End
  <2>2. PICK x : x = Section[At]
    OBVIOUS
  <2>3. At' = At
    BY <2>1 DEF At, Archive, argVars
  <2>4. IsSection(x)
    BY <1>1, <2>1, <2>2, ProgramAssumption DEF PhaseInv
  <2>5. CipherInv(x)'
    BY <2>1, <2>2, <2>4, CipherPrepares
  <2> QED
    BY <2>2, <2>3, <2>5 DEF SectionInv, CipherInv, DecryptsRight
<1>3. CASE InCipher
  <2>1. UNCHANGED <<argVars, files>> /\ phase = "cipher"
    BY <1>3 DEF InCipher, handlerVars
  <2>2. PICK x : x = Section[At]
    OBVIOUS
  <2>3. At' = At
    BY <2>1 DEF At, Archive, argVars
  <2>4. IsSection(x) /\ CipherInv(x) /\ CipherNext(x)
    BY <1>1, <1>3, <2>1, <2>2, ProgramAssumption DEF PhaseInv, SectionInv, InCipher
  <2>5. CipherInv(x)'
    BY <2>4, CipherStep
  <2> QED
    BY <2>2, <2>3, <2>5 DEF SectionInv, CipherInv, DecryptsRight
<1>4. ASSUME phase' # "cipher" PROVE SectionInv'
  BY <1>4 DEF SectionInv
<1>5. (Lookup /\ phase' = "cipher") \/ InCipher \/ phase' # "cipher"
  BY DEF Next, Step, StartNext, Start, InArguments, Refused, BeginHandler, InAnalyze, Analyzed, NextFile,
         NoKeyOrIV, Write, ReadPage, StoreEntry, EndUpdate, End, Enter, handlerVars
<1> QED
  BY <1>2, <1>3, <1>4, <1>5

-----------------------------------------------------------------------------
(* The types: what TypeOK says, with what it takes to be kept.             *)

LEMMA Longer ==
    ASSUME NEW T, NEW l \in Seq(T), NEW e \in T
    PROVE  Append(l, e) \in Seq(T) /\ Len(Append(l, e)) = Len(l) + 1
OBVIOUS

\* Matching keeps members of the list.
LEMMA MatchingIsList ==
    ASSUME NEW S, NEW nodes \in Seq(S)
    PROVE  Matching(nodes) \in Seq(S)
<1> DEFINE n == Len(nodes)
           Taken_(t, i) == IF settings.section.word \in Shows[nodes[i]] THEN Append(t, nodes[i]) ELSE t
           T == Seq(S)
           step == [i \in 1..n |-> [t \in T |-> Taken_(t, i)]]
           taken == CHOOSE f : f = [i \in 0..n |-> IF i = 0 THEN <<>> ELSE Taken_(f[i - 1], i)]
<1>1. n \in Nat /\ \A i \in 1..n : nodes[i] \in S
  OBVIOUS
<1>2. \A t \in T, i \in 1..n : Taken_(t, i) \in T
  BY <1>1
<1>3. step \in [1..n -> [T -> T]] /\ <<>> \in T
  BY <1>2
<1>4. \A t \in T, i \in 1..n : step[i][t] = Taken_(t, i)
  OBVIOUS
<1>5. Matching(nodes) = taken[n]
  BY DEF Matching
<1> HIDE DEF n, step, Taken_, T
<1>6. PICK g : Iterates(g, n, T, <<>>, step)
  BY <1>1, <1>3, Recursion
<1>7. g = [i \in 0..n |-> IF i = 0 THEN <<>> ELSE Taken_(g[i - 1], i)]
  <2>1. ASSUME NEW i \in 0..n PROVE g[i] = IF i = 0 THEN <<>> ELSE Taken_(g[i - 1], i)
    <3>1. i = 0 \/ (i \in 1..n /\ i - 1 \in 0..n)
      BY <1>1
    <3>2. ASSUME i \in 1..n PROVE g[i] = Taken_(g[i - 1], i)
      <4>1. g[i - 1] \in T
        BY <1>1, <1>6, <3>2 DEF Iterates
      <4> QED
        BY <1>4, <1>6, <3>2, <4>1 DEF Iterates
    <3> QED
      BY <1>1, <1>6, <3>1, <3>2 DEF Iterates
  <2> QED
    BY <1>6, <2>1 DEF Iterates
<1>8. taken = [i \in 0..n |-> IF i = 0 THEN <<>> ELSE Taken_(taken[i - 1], i)]
  BY <1>7
<1> HIDE DEF taken
<1> DEFINE P == {i \in 0..n : taken[i] \in T}
<1>9. 0 \in P
  <2>1. taken[0] = <<>> /\ 0 \in 0..n
    BY <1>1, <1>8
  <2> QED
    BY <1>3, <2>1
<1>10. ASSUME NEW i \in 0..(n - 1), i \in P PROVE i + 1 \in P
  <2>1. i + 1 \in 0..n /\ i + 1 \in 1..n /\ (i + 1) - 1 = i /\ i + 1 # 0
    BY <1>1
  <2>2. taken[i + 1] = Taken_(taken[i], i + 1)
    BY <1>8, <2>1
  <2> QED
    BY <1>2, <1>10, <2>1, <2>2
<1> HIDE DEF P
<1>11. 0..n \subseteq P
  BY <1>1, <1>9, <1>10, Upward
<1>12. n \in 0..n
  BY <1>1
<1> QED
  BY <1>5, <1>11, <1>12 DEF P, T

ZipTyped ==
    /\ ZipTypeOK
    /\ zip.nodes \in Seq(DOMAIN Shows) /\ zip.files \in Seq(DOMAIN Shows)
    /\ zip.pc \in {"find", "open", "records"} => Len(zip.nodes) = zip.at /\ Len(zip.files) = zip.at

LEMMA ZipTypedSame ==
    ASSUME ZipTyped, UNCHANGED zip, zipFaults' \in 0..MaxZipFaults
    PROVE  ZipTyped'
BY DEF ZipTyped, ZipTypeOK

LEMMA NoZipTyped ==
    ASSUME zip = NoZip, zipFaults \in 0..MaxZipFaults
    PROVE  ZipTyped
BY DEF ZipTyped, ZipTypeOK, NoZip, NoEnd

LEMMA FaultCounts ==
    ASSUME zipFaults \in 0..MaxZipFaults, ZipCalm \/ ZipFault
    PROVE  zipFaults' \in 0..MaxZipFaults
BY ZipAssumption DEF ZipCalm, ZipFault

LEMMA OpenTyped ==
    ASSUME zipFaults \in 0..MaxZipFaults, NEW f, AnalyzeFile(f)
    PROVE  ZipTyped'
<1>1. zipFaults' \in 0..MaxZipFaults
  BY FaultCounts DEF AnalyzeFile
<1>2. CASE zip' = [NoZip EXCEPT !.pc = "find", !.file = f]
  BY <1>1, <1>2 DEF ZipTyped, ZipTypeOK, NoZip, NoEnd
<1>3. CASE zip' = [NoZip EXCEPT !.pc = "failed", !.file = f, !.error = "system"]
  BY <1>1, <1>3 DEF ZipTyped, ZipTypeOK, NoZip, NoEnd
<1> QED
  BY <1>2, <1>3 DEF AnalyzeFile

LEMMA ZipStepTyped ==
    ASSUME ZipTyped, ZipInv, ZipNext
    PROVE  ZipTyped'
<1>1. /\ DOMAIN zip = {"pc", "file", "end", "at", "offset", "nodes", "files", "error"}
      /\ zip.at \in Nat
      /\ zip.nodes \in Seq(DOMAIN Shows) /\ zip.files \in Seq(DOMAIN Shows)
      /\ zip.pc \in Pcs
      /\ zip.pc = "failed" <=> zip.error # "none"
      /\ zip.error \in {"none", "system", "not a zip", "no directory"}
  BY DEF ZipInv, ZipTyped, ZipTypeOK
<1>2. zipFaults' \in 0..MaxZipFaults
  BY FaultCounts DEF ZipNext, FindCentralDirectoryEnd, OpenDirectory, ReadRecord, TraversalError, EndRecords,
                     ZipTyped, ZipTypeOK, ZipCalm
<1>3. ASSUME NEW e \in {"not a zip", "no directory"}, ZipFails(e), zip.pc \in {"find", "open"} PROVE ZipTyped'
  BY <1>1, <1>2, <1>3 DEF ZipFails, ZipTyped, ZipTypeOK
<1>4. CASE FindCentralDirectoryEnd
  <2>1. zip.pc = "find" /\ zip.at = 0 /\ zip.offset = 0 /\ zip.nodes = <<>> /\ zip.files = <<>>
        /\ zip.file \in DOMAIN Layout
    BY <1>4 DEF FindCentralDirectoryEnd, ZipInv
  <2>2. CASE \E e : ZipFails(e) /\ e \in {"not a zip", "no directory"}
    BY <1>3, <2>1, <2>2
  <2>3. CASE /\ EndsInWindow(File) # {}
             /\ \E e \in IF Min(EndsInWindow(File)) + EndSize <= File.length
                         THEN {File.ends[Min(EndsInWindow(File))]} ELSE Behind :
                   zip' = [zip EXCEPT !.pc = "open", !.end = e]
    <3>1. EndsInWindow(File) \in SUBSET DOMAIN File.ends /\ DOMAIN File.ends \subseteq Nat
      BY <2>1, FileFacts DEF EndsInWindow, File
    <3>2. Min(EndsInWindow(File)) \in DOMAIN File.ends
      BY <2>3, <3>1, MinIn
    <3>3. File.ends[Min(EndsInWindow(File))].size \in Nat
      BY <2>1, <3>2, FileFacts DEF File
    <3>4. PICK e : e.size \in Nat /\ zip' = [zip EXCEPT !.pc = "open", !.end = e]
      BY <2>3, <3>3, ZipAssumption
    <3>5. /\ zip'.pc = "open" /\ zip'.end = e /\ zip'.error = zip.error /\ zip'.at = 0 /\ zip'.offset = 0
          /\ zip'.nodes = <<>> /\ zip'.files = <<>>
      BY <1>1, <2>1, <3>4
    <3>6. Len(<<>>) = 0 /\ <<>> \in Seq(DOMAIN Shows)
      OBVIOUS
    <3> QED
      <4>1. zip.error = "none"
        BY <1>1, <2>1
      <4>2. zip'.offset <= zip'.end.size
        BY <3>4, <3>5
      <4>3. ZipTypeOK'
        BY <1>2, <3>5, <3>6, <4>1, <4>2 DEF ZipTypeOK
      <4> QED
        BY <3>5, <3>6, <4>3 DEF ZipTyped
  <2> QED
    BY <1>4, <2>2, <2>3 DEF FindCentralDirectoryEnd
<1>5. CASE OpenDirectory
  <2>1. zip.pc = "open"
    BY <1>5 DEF OpenDirectory
  <2>2. CASE ZipFails("no directory")
    BY <1>3, <2>1, <2>2
  <2>3. CASE zip' = [zip EXCEPT !.pc = "records"]
    BY <1>1, <1>2, <2>1, <2>3 DEF ZipTyped, ZipTypeOK
  <2> QED
    BY <1>5, <2>2, <2>3 DEF OpenDirectory
<1>6. CASE ReadRecord
  <2>1. zip.pc = "records" /\ zip.file \in DOMAIN Layout /\ Place \in DOMAIN File.records
    BY <1>6 DEF ReadRecord, HeaderRead, ZipInv
  <2>2. PICK r : r = File.records[Place]
    OBVIOUS
  <2>3. r.name \in DOMAIN Shows
    BY <2>1, <2>2, ProgramAssumption DEF File, Range
  <2>4. /\ RecordEnd(r) <= zip.end.size
        /\ zip' = [zip EXCEPT !.at = @ + 1, !.offset = RecordEnd(r),
                              !.nodes = Append(@, r.name), !.files = Append(@, r.name)]
    BY <1>6, <2>2 DEF ReadRecord
  <2>5. /\ zip'.pc = zip.pc /\ zip'.error = zip.error /\ zip'.end = zip.end
        /\ zip'.at = zip.at + 1 /\ zip'.offset = RecordEnd(r)
        /\ zip'.nodes = Append(zip.nodes, r.name) /\ zip'.files = Append(zip.files, r.name)
    BY <1>1, <2>4
  <2>6. Len(zip.nodes) = zip.at /\ Len(zip.files) = zip.at
    BY <2>1 DEF ZipTyped
  <2>7. /\ Append(zip.nodes, r.name) \in Seq(DOMAIN Shows) /\ Len(Append(zip.nodes, r.name)) = zip.at + 1
        /\ Append(zip.files, r.name) \in Seq(DOMAIN Shows) /\ Len(Append(zip.files, r.name)) = zip.at + 1
    <3>1. PICK T, l, m : T = DOMAIN Shows /\ l = zip.nodes /\ m = zip.files
      OBVIOUS
    <3>2. l \in Seq(T) /\ m \in Seq(T) /\ r.name \in T /\ Len(l) = zip.at /\ Len(m) = zip.at
      BY <1>1, <2>3, <2>6, <3>1
    <3>3. /\ Append(l, r.name) \in Seq(T) /\ Len(Append(l, r.name)) = Len(l) + 1
          /\ Append(m, r.name) \in Seq(T) /\ Len(Append(m, r.name)) = Len(m) + 1
      BY <3>2, Longer
    <3> QED
      BY <3>1, <3>2, <3>3
  <2> QED
    <3>1. zip.error = "none" /\ zip.at \in Nat
      BY <1>1, <2>1
    <3>2. zip'.offset <= zip'.end.size
      BY <2>4, <2>5
    <3>3. Len(zip'.nodes) = zip'.at /\ Len(zip'.files) = zip'.at /\ zip'.at \in Nat
      BY <2>5, <2>7, <3>1
    <3>4. ZipTypeOK'
      BY <1>2, <2>1, <2>5, <3>1, <3>2, <3>3 DEF ZipTypeOK
    <3> QED
      BY <2>5, <2>7, <3>3, <3>4 DEF ZipTyped
<1>7. CASE TraversalError
  <2>1. zip.pc = "records" /\ zip.file \in DOMAIN Layout /\ Len(zip.nodes) = zip.at /\ Len(zip.files) = zip.at
    BY <1>7 DEF TraversalError, ZipInv, ZipTyped
  <2>2. CASE zip' = [zip EXCEPT !.pc = "crashed"]
    BY <1>1, <1>2, <2>1, <2>2 DEF ZipTyped, ZipTypeOK
  <2>3. CASE zip' = [zip EXCEPT !.pc = "failed", !.error = "no directory", !.nodes = <<>>,
                       !.files = IF HeaderRead THEN Append(@, File.records[Place].name) ELSE @]
    <3>1. /\ zip'.pc = "failed" /\ zip'.error = "no directory" /\ zip'.nodes = <<>> /\ zip'.at = zip.at
          /\ zip'.files = IF HeaderRead THEN Append(zip.files, File.records[Place].name) ELSE zip.files
      BY <1>1, <2>3
    <3>2. HeaderRead => File.records[Place].name \in DOMAIN Shows
      BY <2>1, ProgramAssumption DEF HeaderRead, File, Range
    <3>3. zip'.files \in Seq(DOMAIN Shows) /\ Len(zip'.files) \in {zip.at, zip.at + 1}
      <4>1. CASE HeaderRead
        <5>1. zip'.files = Append(zip.files, File.records[Place].name)
          BY <3>1, <4>1
        <5> QED
          <6>1. PICK T, l, e : T = DOMAIN Shows /\ l = zip.files /\ e = File.records[Place].name
            OBVIOUS
          <6>2. l \in Seq(T) /\ e \in T
            BY <1>1, <3>2, <4>1, <6>1
          <6>3. Append(l, e) \in Seq(T) /\ Len(Append(l, e)) = Len(l) + 1
            BY <6>2, Longer
          <6> QED
            BY <2>1, <5>1, <6>1, <6>3
      <4>2. CASE ~HeaderRead
        BY <1>1, <2>1, <3>1, <4>2
      <4> QED
        BY <4>1, <4>2
    <3>4. <<>> \in Seq(DOMAIN Shows) /\ Len(<<>>) = 0
      OBVIOUS
    <3> QED
      <4>1. Len(zip'.files) \in zip'.at..zip'.at + 1 /\ zip'.at \in Nat
        <5>1. PICK a, n : a = zip'.at /\ n = Len(zip'.files)
          OBVIOUS
        <5>2. a \in Nat /\ n \in {a, a + 1}
          BY <1>1, <3>1, <3>3, <5>1
        <5>3. n \in a..a + 1
          BY <5>2
        <5> QED
          BY <5>1, <5>2, <5>3
      <4>2. ZipTypeOK'
        BY <1>2, <3>1, <3>4, <4>1 DEF ZipTypeOK
      <4> QED
        BY <3>1, <3>3, <3>4, <4>2 DEF ZipTyped
  <2> QED
    BY <1>7, <2>2, <2>3 DEF TraversalError
<1>8. CASE EndRecords
  <2>1. zip.pc = "records" /\ zip' = [zip EXCEPT !.pc = "listed"]
    BY <1>8 DEF EndRecords
  <2> QED
    BY <1>1, <1>2, <2>1 DEF ZipTyped, ZipTypeOK
<1> QED
  BY <1>4, <1>5, <1>6, <1>7, <1>8 DEF ZipNext

-----------------------------------------------------------------------------
LEMMA CellsAreSequence ==
    ASSUME NEW n \in Nat, NEW f, DOMAIN f = 1..n, f = [i \in 1..n |-> f[i]],
           \A i \in 1..n : f[i] \in Cell
    PROVE  f \in Seq(Cell)
<1>1. [i \in 1..n |-> f[i]] \in [1..n -> Cell]
  OBVIOUS
<1> QED
  BY <1>1

LEMMA KindsOfCell ==
    /\ \A i \in Nat : Encrypted(i) \in Cell /\ Plain(i) \in Cell /\ Payload(i) \in Cell
    /\ Junk \in Cell
BY DEF Encrypted, Plain, Payload, Junk, Cell

LEMMA PrepareTyped ==
    ASSUME NEW s, IsSection(s), NEW k, Prepare(s, k)
    PROVE  CipherTypeOK' /\ cipher'.pc = "key"
<1>1. PICK rest \in {[i \in 1..Padded(s) |-> Junk], [i \in 1..Padded(s) |-> Encrypted(i)]} :
         cipher' = [NoCipher EXCEPT !.pc = "key", !.data = DataToDecrypt(s, rest), !.stored = k]
  BY DEF Prepare
<1>2. PICK n \in Nat : n = Padded(s)
  BY PaddedIsSize, SectionFacts
<1>3. \A i \in 1..n : i \in Nat /\ rest[i] \in Cell
  BY <1>1, <1>2, KindsOfCell
<1>4. PICK data : data = DataToDecrypt(s, rest)
  OBVIOUS
<1>5. data = [i \in 1..n |-> IF i <= s.length THEN Encrypted(i) ELSE rest[i]]
  BY <1>2, <1>4 DEF DataToDecrypt
<1>6. data \in Seq(Cell)
  BY <1>3, <1>5, CellsAreSequence, KindsOfCell
<1>7. cipher'.pc = "key" /\ cipher'.data = data /\ cipher'.output = <<>> /\ cipher'.freed = FALSE
  BY <1>1, <1>4 DEF NoCipher, NoData
<1> QED
  BY <1>6, <1>7 DEF CipherTypeOK

LEMMA CipherStepTyped ==
    ASSUME NEW s, IsSection(s), CipherInv(s), CipherTypeOK, CipherNext(s)
    PROVE  CipherTypeOK' /\ cipher'.pc # "idle"
<1>1. /\ DOMAIN cipher = {"pc", "data", "stored", "output", "freed"}
      /\ cipher.data \in Seq(Cell) /\ cipher.output \in Seq(Cell)
      /\ cipher.pc \in {"key", "decrypt", "check"} => cipher.freed = FALSE
  BY DEF CipherInv, CipherTypeOK
<1>2. CASE SetKeyAndIV
  BY <1>1, <1>2 DEF SetKeyAndIV, CipherTypeOK
<1>3. CASE DecryptData(s)
  <2> DEFINE out == [i \in DOMAIN cipher.data |-> DecryptedCell(s, cipher.stored, cipher.data, i)]
  <2>1. cipher.pc = "decrypt" /\ cipher' = [cipher EXCEPT !.pc = "check", !.output = out]
    BY <1>3 DEF DecryptData
  <2>2. s.size \in Nat /\ DOMAIN cipher.data = 1..s.size
    BY <2>1, SectionFacts DEF CipherInv
  <2>3. \A i \in 1..s.size : DecryptedCell(s, cipher.stored, cipher.data, i) \in Cell
    BY <2>2, KindsOfCell DEF DecryptedCell
  <2>4. out \in Seq(Cell)
    BY <2>2, <2>3, CellsAreSequence
  <2> HIDE DEF out
  <2> QED
    BY <1>1, <2>1, <2>4 DEF CipherTypeOK
<1>4. CASE LzssDecompress(s)
  <2>1. cipher.pc = "check"
    BY <1>4 DEF LzssDecompress
  <2>2. Decompressed(s) \in Seq(Cell)
    <3> DEFINE out == Decompressed(s)
    <3>1. s.stream \in Nat
      BY SectionFacts
    <3>2. DOMAIN out = 1..s.stream /\ out = [i \in 1..s.stream |-> out[i]]
          /\ \A i \in 1..s.stream : out[i] \in Cell
      BY <3>1, KindsOfCell DEF Decompressed
    <3> HIDE DEF out
    <3>3. out \in Seq(Cell)
      BY <3>1, <3>2, CellsAreSequence
    <3> QED
      BY <3>3 DEF out
  <2>3. CASE cipher' = [cipher EXCEPT !.pc = "decrypted"]
    BY <1>1, <2>1, <2>3 DEF CipherTypeOK
  <2>4. CASE cipher' = [cipher EXCEPT !.pc = "decrypted", !.freed = TRUE]
    BY <1>1, <2>1, <2>4 DEF CipherTypeOK
  <2>5. CASE cipher' = [cipher EXCEPT !.pc = "decrypted", !.output = Decompressed(s)]
    BY <1>1, <2>1, <2>2, <2>5 DEF CipherTypeOK
  <2> QED
    BY <1>4, <2>3, <2>4, <2>5 DEF LzssDecompress
<1> QED
  BY <1>2, <1>3, <1>4 DEF CipherNext

-----------------------------------------------------------------------------
LEMMA NoSlotFacts == NoSlot \notin Slot
<1>1. DOMAIN NoSlot = {"device"} /\ \A s \in Slot : DOMAIN s = {"device", "version", "section"}
  BY DEF NoSlot, Slot
<1> QED
  BY <1>1

\* The rest of TypeOK, with what it takes to be kept.
TypeInv ==
    /\ ZipTyped /\ CipherTypeOK
    /\ argPc = "idle" <=> phase = "idle"
    /\ files \in Seq(DOMAIN Shows \cup Argument)
    /\ phase \in {"lookup", "cipher"} => files # <<>>
    /\ IF phase = "cipher" THEN slot \in Slot ELSE slot = NoSlot
    /\ cipher.pc # "idle" <=> phase = "cipher"
    /\ Len(updates) + (IF phase \in {"idle", "store"} THEN 0 ELSE 1) <= runs

LEMMA TypedConsequences ==
    ASSUME Inv, TypeInv
    PROVE  TypeOK
<1>1. \A s \in DOMAIN book : book[s] \in Stored
  <2> SUFFICES ASSUME NEW s \in DOMAIN book PROVE book[s] \in Stored
    OBVIOUS
  <2>1a. PICK i \in DOMAIN updates : \E j \in 1..updates[i].stored :
           book[s] = Page[updates[i].page][j].pair
    BY DEF Inv, BookInv
  <2>1. PICK j \in 1..updates[i].stored :
           book[s] = Page[updates[i].page][j].pair
    BY <2>1a
  <2>2. Page[updates[i].page][j] \in Entry
    BY EntryStored DEF Inv
  <2> QED
    BY <2>1, <2>2 DEF Entry
<1>2. Len(updates) \in Nat /\ runs \in 0..MaxRuns /\ MaxRuns \in Nat
  BY ProgramAssumption DEF Inv, BookInv, PhaseInv
<1>3. Len(updates) <= runs
  BY <1>2 DEF TypeInv
<1>4. slot \in Slot <=> phase = "cipher"
  BY NoSlotFacts DEF TypeInv
<1> QED
  BY <1>1, <1>2, <1>3, <1>4, ArgConsequences DEF TypeOK, TypeInv, Inv, ZipTyped, BookInv, PhaseInv

LEMMA EndTyped ==
    ASSUME Inv, TypeInv, End, zipFaults' = zipFaults, Len(updates') <= runs' 
    PROVE  TypeInv'
<1>1. ZipTyped'
  <2>1. zip' = NoZip /\ zipFaults' \in 0..MaxZipFaults
    BY DEF End, TypeInv, ZipTyped, ZipTypeOK
  <2> QED
    BY <2>1 DEF ZipTyped, ZipTypeOK, NoZip, NoEnd
<1>2. CipherTypeOK' /\ cipher'.pc = "idle"
  BY DEF End, CipherTypeOK, NoCipher, NoData
<1>3. phase' = "idle" /\ argPc' = "idle" /\ files' = <<>> /\ slot' = NoSlot
  BY DEF End
<1>4. <<>> \in Seq(DOMAIN Shows \cup Argument)
  OBVIOUS
<1> QED
  BY <1>1, <1>2, <1>3, <1>4 DEF TypeInv

\* The file that a line names is an argument.
LEMMA ArchiveIsArgument ==
    ASSUME ArgInv, argPc = "accepted"
    PROVE  Archive \in Argument
<1>1. /\ operation \in Command /\ Callable(operation, args) /\ args \in Seq(Argument)
      /\ settings.archive = Whole(args[Len(args)])
  BY DEF ArgInv, ArgTypeOK, Shape, Named
<1>2. Len(args) \in Nat /\ Len(args) >= 1
  BY <1>1, LastOptionBound
<1>3. PICK T, l : T = Argument /\ l = args
  OBVIOUS
<1>4. l \in Seq(T) /\ Len(l) \in 1..Len(l)
  BY <1>1, <1>2, <1>3
<1>5. l[Len(l)] \in T
  BY <1>4
<1> QED
  BY <1>1, <1>3, <1>5 DEF Archive, Whole

\* While a line is read, the place in it is one.
LEMMA ArgNotIdle ==
    ASSUME ArgNext
    PROVE  argPc # "idle" /\ argPc' # "idle"
BY DEF ArgNext, TakeOption, OtherArgument, EndOptions, TakeNames, DeviceFromName, VersionFromName, TakeSection,
       DeviceOfPage, BuildOfPage, VersionOfPage, InOptions, Goto, Keep, Refuse

\* What the rest of the steps leave alone.
LEMMA OthersTyped ==
    ASSUME TypeInv, ZipTyped', CipherTypeOK', argPc' # "idle", phase # "idle", phase' # "idle",
           phase # "store", phase' # "store",
           UNCHANGED pastVars, files' \in Seq(DOMAIN Shows \cup Argument),
           phase' \in {"lookup", "cipher"} => files' # <<>>,
           IF phase' = "cipher" THEN slot' \in Slot ELSE slot' = NoSlot,
           cipher'.pc # "idle" <=> phase' = "cipher"
    PROVE  TypeInv'
BY DEF TypeInv, pastVars

LEMMA TypedKept ==
    ASSUME Inv, TypeInv, Next
    PROVE  TypeInv'
<1>1. /\ ArgInv /\ ZipInv /\ PhaseInv /\ BookInv /\ SectionInv
      /\ ZipTyped /\ CipherTypeOK /\ zipFaults \in 0..MaxZipFaults
      /\ runs \in Nat /\ updates \in Seq(Update) /\ Len(updates) \in Nat
  <2>1. updates \in Seq(Update)
    BY DEF Inv, BookInv
  <2>2. Len(updates) \in Nat
    <3> HIDE DEF Update
    <3> QED
      BY <2>1
  <2>3. runs \in Nat
    BY ProgramAssumption DEF Inv, PhaseInv
  <2>4. zipFaults \in 0..MaxZipFaults
    BY DEF TypeInv, ZipTyped, ZipTypeOK
  <2> QED
    BY <2>1, <2>2, <2>3, <2>4 DEF Inv, TypeInv
<1>2. CASE StartNext
  <2>1. PICK l \in Line[runs + 1] : Start(l)
    BY <1>2 DEF StartNext
  <2>2. /\ phase = "idle" /\ phase' = "arguments" /\ runs' = runs + 1 /\ argPc' # "idle"
        /\ UNCHANGED <<zip, zipFaults, cipher, files, slot, book, updates>>
    BY <2>1 DEF Start, Enter, ParseArguments, Goto, zipVars
  <2>3. ZipTyped'
    BY <1>1, <2>2, ZipTypedSame
  <2>4. CipherTypeOK'
    BY <1>1, <2>2 DEF CipherTypeOK
  <2>5. Len(updates') + 1 <= runs'
    BY <1>1, <2>2 DEF TypeInv
  <2> QED
    BY <2>2, <2>3, <2>4, <2>5 DEF TypeInv
<1>3. ASSUME End, UNCHANGED <<zipFaults, pastVars>> PROVE TypeInv'
  <2>1. Len(updates') <= runs'
    BY <1>1, <1>3 DEF TypeInv, pastVars
  <2> QED
    BY <1>3, <2>1, EndTyped
<1>4. CASE InArguments
  <2>1. /\ phase = "arguments" /\ argPc' # "idle" /\ UNCHANGED <<zip, zipFaults, cipher, phase, files, slot, pastVars>>
    BY <1>4, ArgNotIdle DEF InArguments, zipVars, handlerVars
  <2>2. ZipTyped' /\ CipherTypeOK'
    BY <1>1, <2>1, ZipTypedSame DEF CipherTypeOK
  <2> QED
    BY <2>1, <2>2, OthersTyped DEF TypeInv
<1>5. CASE Refused
  BY <1>3, <1>5 DEF Refused
<1>6. CASE BeginHandler
  <2>1. phase = "arguments" /\ argPc = "accepted" /\ UNCHANGED pastVars
    BY <1>6 DEF BeginHandler
  <2>2. CASE /\ AnalyzeFile(Archive) /\ Enter("analyze") /\ UNCHANGED <<argVars, cipher, files, slot>>
    <3>1. ZipTyped'
      BY <1>1, <2>2, OpenTyped
    <3>2. CipherTypeOK'
      BY <1>1, <2>2 DEF CipherTypeOK
    <3> QED
      BY <2>1, <2>2, <3>1, <3>2, OthersTyped DEF TypeInv, Enter, argVars
  <2>3. CASE /\ Enter("update") /\ UNCHANGED <<argVars, zipVars, cipher, files, slot>>
    <3>1. ZipTyped' /\ CipherTypeOK'
      BY <1>1, <2>3, ZipTypedSame DEF CipherTypeOK, zipVars
    <3> QED
      BY <2>1, <2>3, <3>1, OthersTyped DEF TypeInv, Enter, argVars
  <2>4. CASE End /\ UNCHANGED zipFaults
    BY <1>3, <2>1, <2>4
  <2> QED
    BY <1>6, <2>2, <2>3, <2>4 DEF BeginHandler
<1>7. CASE InAnalyze
  <2>1. phase = "analyze" /\ ZipNext /\ UNCHANGED <<argPc, cipher, phase, files, slot, pastVars>>
    BY <1>7 DEF InAnalyze, argVars, handlerVars
  <2>2. ZipTyped'
    BY <1>1, <2>1, ZipStepTyped
  <2>3. CipherTypeOK'
    BY <1>1, <2>1 DEF CipherTypeOK
  <2> QED
    BY <2>1, <2>2, <2>3, OthersTyped DEF TypeInv
<1>8. CASE Analyzed
  <2>1. phase = "analyze" /\ argPc = "accepted" /\ UNCHANGED <<zipFaults, pastVars>>
    BY <1>1, <1>8 DEF Analyzed, PhaseInv
  <2>2. CASE /\ files' = IF zip.pc = "listed" THEN Matching(zip.nodes) ELSE <<Archive>>
             /\ Enter("next")
             /\ UNCHANGED <<argVars, zip, cipher, slot>>
    <3>1. ZipTyped' /\ CipherTypeOK'
      BY <1>1, <2>1, <2>2, ZipTypedSame DEF CipherTypeOK
    <3>2. files' \in Seq(DOMAIN Shows \cup Argument)
      <4>1. Matching(zip.nodes) \in Seq(DOMAIN Shows)
        <5>1. PICK S, nodes : S = DOMAIN Shows /\ nodes = zip.nodes
          OBVIOUS
        <5>2. nodes \in Seq(S)
          BY <1>1, <5>1 DEF ZipTyped
        <5> QED
          BY <5>1, <5>2, MatchingIsList
      <4>2. PICK S, T, m, a : S = DOMAIN Shows /\ T = Argument /\ m = Matching(zip.nodes) /\ a = Archive
        OBVIOUS
      <4>3. m \in Seq(S) /\ a \in T
        BY <1>1, <2>1, <4>1, <4>2, ArchiveIsArgument
      <4>4. m \in Seq(S \cup T) /\ <<a>> \in Seq(S \cup T)
        BY <4>3
      <4> QED
        BY <2>2, <4>2, <4>4
    <3> QED
      BY <2>1, <2>2, <3>1, <3>2, OthersTyped DEF TypeInv, Enter, argVars
  <2>3. CASE End
    BY <1>3, <2>1, <2>3
  <2> QED
    BY <1>8, <2>2, <2>3 DEF Analyzed
<1>9. CASE NextFile
  <2>1. phase = "next" /\ UNCHANGED <<zipFaults, pastVars>>
    BY <1>9 DEF NextFile
  <2>2. CASE files # <<>> /\ Enter("lookup") /\ UNCHANGED <<argVars, zip, cipher, files, slot>>
    <3>1. ZipTyped' /\ CipherTypeOK'
      BY <1>1, <2>1, <2>2, ZipTypedSame DEF CipherTypeOK
    <3> QED
      BY <2>1, <2>2, <3>1, OthersTyped DEF TypeInv, Enter, argVars
  <2>3. CASE End
    BY <1>3, <2>1, <2>3
  <2> QED
    BY <1>9, <2>2, <2>3 DEF NextFile
<1>10. CASE Lookup
  <2>1. phase = "lookup" /\ UNCHANGED <<zipFaults, pastVars>>
    BY <1>10 DEF Lookup
  <2>2. CASE End
    BY <1>3, <2>1, <2>2
  <2>3. CASE \E asked : /\ asked \in DOMAIN book /\ slot' = asked
                        /\ Prepare(Section[At], book[asked])
                        /\ Enter("cipher") /\ UNCHANGED <<argVars, zip, files>>
    <3>1. PICK asked : /\ asked \in DOMAIN book /\ slot' = asked
                       /\ Prepare(Section[At], book[asked])
                       /\ Enter("cipher") /\ UNCHANGED <<argVars, zip, files>>
      BY <2>3
    <3>2. asked \in Slot
      BY <1>1, <3>1 DEF BookInv
    <3>3. CipherTypeOK' /\ cipher'.pc = "key"
      <4>1. PICK x, k : x = Section[At] /\ k = book[asked]
        OBVIOUS
      <4>2. IsSection(x) /\ Prepare(x, k)
        BY <1>1, <2>1, <3>1, <4>1, ProgramAssumption DEF PhaseInv
      <4> QED
        BY <4>2, PrepareTyped
    <3>4. ZipTyped'
      BY <1>1, <2>1, <3>1, ZipTypedSame
    <3> QED
      BY <2>1, <3>1, <3>2, <3>3, <3>4, OthersTyped DEF TypeInv, Enter, argVars
  <2> QED
    BY <1>10, <2>2, <2>3 DEF Lookup
<1>11. CASE InCipher
  <2>1. phase = "cipher" /\ UNCHANGED <<argPc, zip, zipFaults, phase, files, slot, pastVars>>
    BY <1>11 DEF InCipher, argVars, zipVars, handlerVars
  <2>2. CipherTypeOK' /\ cipher'.pc # "idle"
    <3>1. PICK x : x = Section[At]
      OBVIOUS
    <3>2. IsSection(x) /\ CipherInv(x) /\ CipherNext(x)
      BY <1>1, <1>11, <2>1, <3>1, ProgramAssumption DEF PhaseInv, SectionInv, InCipher
    <3> QED
      BY <1>1, <3>2, CipherStepTyped
  <2>3. ZipTyped'
    BY <1>1, <2>1, ZipTypedSame
  <2> QED
    BY <2>1, <2>2, <2>3, OthersTyped DEF TypeInv
<1>12. CASE NoKeyOrIV
  BY <1>3, <1>12 DEF NoKeyOrIV
<1>13. CASE Write
  <2>1. phase = "cipher" /\ UNCHANGED <<zipFaults, pastVars>>
    BY <1>13 DEF Write
  <2>2. CASE /\ files' = Tail(files)
             /\ Enter("next") /\ slot' = NoSlot /\ cipher' = NoCipher
             /\ UNCHANGED <<argVars, zip>>
    <3>1. ZipTyped'
      BY <1>1, <2>1, <2>2, ZipTypedSame
    <3>2. CipherTypeOK' /\ cipher'.pc = "idle"
      BY <2>2 DEF CipherTypeOK, NoCipher, NoData
    <3>3. files' \in Seq(DOMAIN Shows \cup Argument)
      <4>1. PICK T, l : T = DOMAIN Shows \cup Argument /\ l = files
        OBVIOUS
      <4>2. l \in Seq(T) /\ l # <<>>
        BY <2>1, <4>1 DEF TypeInv
      <4>3. Tail(l) \in Seq(T)
        BY <4>2
      <4> QED
        BY <2>2, <4>1, <4>3
    <3> QED
      BY <2>1, <2>2, <3>1, <3>2, <3>3, OthersTyped DEF TypeInv, Enter, argVars
  <2>3. CASE End
    BY <1>3, <2>1, <2>3
  <2> QED
    BY <1>13, <2>2, <2>3 DEF Write
<1>14. CASE ReadPage
  <2>1. phase = "update" /\ UNCHANGED <<zipFaults, runs>>
    BY <1>14 DEF ReadPage
  <2>2. Len(updates) + 1 <= runs
    BY <1>1, <2>1 DEF TypeInv
  <2>3. CASE End /\ UNCHANGED updates
    <3>1. Len(updates') <= runs'
      BY <1>1, <2>1, <2>2, <2>3
    <3> QED
      BY <2>1, <2>3, <3>1, EndTyped
  <2>4. CASE /\ Enter("store") /\ UNCHANGED <<argVars, zip, cipher, files, slot>>
             /\ \E u : updates' = Append(updates, u)
    <3>1. PICK u : updates' = Append(updates, u)
      BY <2>4
    <3>2. Len(updates') = Len(updates) + 1
      <4>1. PICK T, l : T = Update /\ l = updates
        OBVIOUS
      <4>2. l \in Seq(T)
        BY <1>1, <4>1
      <4>3. Len(Append(l, u)) = Len(l) + 1
        BY <4>2
      <4> QED
        BY <3>1, <4>1, <4>3
    <3>3. ZipTyped' /\ CipherTypeOK'
      BY <1>1, <2>1, <2>4, ZipTypedSame DEF CipherTypeOK
    <3>4. Len(updates') <= runs'
      BY <2>1, <2>2, <3>2
    <3>5. phase' = "store" /\ UNCHANGED <<argPc, files, slot, cipher>>
      BY <2>4 DEF Enter, argVars
    <3> QED
      BY <1>1, <2>1, <3>3, <3>4, <3>5 DEF TypeInv
  <2> QED
    BY <1>14, <2>3, <2>4 DEF ReadPage
<1>15. CASE StoreEntry
  <2>1. phase = "store" /\ UNCHANGED <<argPc, zip, zipFaults, cipher, phase, files, slot, runs>>
    BY <1>15 DEF StoreEntry, argVars, zipVars
  <2>2. ZipTyped' /\ CipherTypeOK'
    BY <1>1, <2>1, ZipTypedSame DEF CipherTypeOK
  <2>3. Len(updates') = Len(updates)
    BY <1>1, <1>15, OneStored DEF Inv
  <2> QED
    BY <2>1, <2>2, <2>3 DEF TypeInv
<1>16. CASE EndUpdate
  BY <1>3, <1>16 DEF EndUpdate
<1> QED
  BY <1>2, <1>4, <1>5, <1>6, <1>7, <1>8, <1>9, <1>10, <1>11, <1>12, <1>13, <1>14, <1>15, <1>16 DEF Next, Step

-----------------------------------------------------------------------------
(* The theorems.  *)

LEMMA Begins ==
    ASSUME Init
    PROVE  Inv
<1>1. ArgInv
  BY ArgBegins DEF Init
<1>2. ZipInv
  BY ZipBegins DEF Init, ZipInit
<1>3. PhaseInv
  BY ProgramAssumption DEF Init, PhaseInv
<1>4. BookInv /\ StoreInv /\ StoredAsFar
  BY DEF Init, BookInv, StoreInv, StoredAsFar
<1>5. KeyAsAsked /\ SectionInv
  BY DEF Init, KeyAsAsked, SectionInv
<1> QED
  BY <1>1, <1>2, <1>3, <1>4, <1>5 DEF Inv

LEMMA Stutters ==
    ASSUME Inv, UNCHANGED vars
    PROVE  Inv'
<1>1. UNCHANGED <<argVars, zipVars, cipher, phase, files, slot, entry, book, updates, runs>>
  BY DEF vars, handlerVars, pastVars
<1>2. ArgInv' /\ ZipInv' /\ BookInv'
  BY <1>1, ArgSame, ZipSame, BookSame DEF Inv
<1>3. UNCHANGED <<operation, args, argPc, settings>> /\ At' = At
  BY <1>1 DEF argVars, At, Archive
<1>4. PhaseInv'
  BY <1>1, <1>3 DEF Inv, PhaseInv
<1>5. SectionInv'
  BY <1>1, <1>3 DEF Inv, SectionInv, CipherInv, DecryptsRight
<1>6. KeyAsAsked'
  <2>1. \A o : Given(o)' = Given(o) /\ Value(o)' = Value(o)
    BY <1>3, SameLine
  <2>2. \A s : ByName(s)' = ByName(s)
    BY <1>3, SameName
  <2>3. SaidVersion' = SaidVersion /\ SaidDevice' = SaidDevice
    BY <2>1, <2>2 DEF SaidVersion, SaidDevice
  <2> QED
    BY <1>1, <2>1, <2>3, SameUpdates DEF Inv, KeyAsAsked, Beginnings
<1>7. StoreInv'
  BY <1>1, <1>3 DEF Inv, StoreInv, Archive
<1>8. StoredAsFar'
  BY <1>1, FarSame DEF Inv
<1> QED
  BY <1>2, <1>4, <1>5, <1>6, <1>7, <1>8 DEF Inv

\* The invariant holds in every run of the program: main, from the command line to the
\* data that decrypt writes.
THEOREM Invariant == Spec => []Inv
<1>1. Init => Inv
  BY Begins
<1>2. Inv /\ [Next]_vars => Inv'
  <2>1. Inv /\ Next => Inv'
    BY ArgKept, ZipKept, PhaseKept, BookKept, StoreKept, FarKept, KeyKept, SectionKept DEF Inv
  <2> QED
    BY <2>1, Stutters
<1> QED
  BY <1>1, <1>2, PTL DEF Spec

\* The types of TypeOK, in every run of the program: an empty list of files is never
\* looked into, the cipher works on cells only, and nothing is stored but keys that a
\* page publishes, under slots that lines can ask for.
THEOREM TypeCorrect == Spec => []TypeOK
<1>1. Init => TypeInv
  <2> SUFFICES ASSUME Init PROVE TypeInv
    OBVIOUS
  <2>1. ZipTyped
    BY ZipAssumption, NoZipTyped DEF Init, ZipInit
  <2>2. CipherTypeOK /\ cipher.pc = "idle"
    BY DEF Init, CipherInit, CipherTypeOK, NoCipher, NoData
  <2>3. <<>> \in Seq(DOMAIN Shows \cup Argument) /\ Len(<<>>) = 0
    OBVIOUS
  <2> QED
    BY <2>1, <2>2, <2>3 DEF Init, ArgInit, TypeInv
<1>2. Inv /\ TypeInv /\ [Next]_vars => TypeInv'
  <2>1. ASSUME TypeInv, UNCHANGED vars PROVE TypeInv'
    <3>1. UNCHANGED <<argPc, zip, zipFaults, cipher, phase, files, slot, updates, runs>>
      BY <2>1 DEF vars, argVars, zipVars, handlerVars, pastVars
    <3>2. ZipTyped' /\ CipherTypeOK'
      BY <2>1, <3>1, ZipTypedSame DEF TypeInv, ZipTyped, ZipTypeOK, CipherTypeOK
    <3> QED
      BY <2>1, <3>1, <3>2 DEF TypeInv
  <2> QED
    BY <2>1, TypedKept
<1>3. Inv /\ TypeInv => TypeOK
  BY TypedConsequences
<1> QED
  BY <1>1, <1>2, <1>3, Invariant, PTL DEF Spec

\* ParseArguments takes each setting from the last option for it that the line has in the
\* place of an option, else from the name of the file: for lines of any length, with
\* options in any order and any names.
THEOREM SettingsAreGiven == Spec => []SettingsAsGiven
<1>1. Inv => SettingsAsGiven
  BY ArgConsequences DEF Inv
<1> QED
  BY <1>1, Invariant, PTL

\* No function behind a command is entered without a setting that it relies on, for lines
\* of any length: a line without one is refused, or ends the command where decrypt asserts
\* its section.
THEOREM NothingIsMissing == Spec => []NothingMissing
<1>1. Inv /\ TypeOK => NothingMissing
  <2> SUFFICES ASSUME Inv, TypeOK, argPc = "accepted", NEW s \in Needed(operation)
               PROVE  settings[s] # Null \/ (phase = "arguments" /\ s = "section")
    BY DEF NothingMissing
  <2>1. settings[s] # Null \/ (operation = "decrypt" /\ s = "section")
    BY ArgConsequences DEF Inv, AllButSection
  <2>2. phase # "idle"
    BY DEF TypeOK
  <2>3. operation = "decrypt" /\ phase # "arguments" => settings.section # Null
    BY <2>2 DEF Inv, PhaseInv
  <2> QED
    BY <2>1, <2>3
<1> QED
  BY <1>1, Invariant, TypeCorrect, PTL

\* AnalyzeFile lists the directory of every intact archive, all of it and nothing else,
\* whatever its comments and its members look like.
THEOREM ListsAreDirectories == Spec => []ListIsDirectory
<1>1. Inv => ListIsDirectory
  BY ZipConsequences DEF Inv
<1> QED
  BY <1>1, Invariant, PTL

\* DecryptIMG3Data works with the key from the last entry that was stored for what the
\* line asks for, after any number of updates of pages of any length, wherever they stopped.
THEOREM KeysAreAsAsked == Spec => []KeyAsAsked
<1>1. Inv => KeyAsAsked
  BY DEF Inv
<1> QED
  BY <1>1, Invariant, PTL

\* UpdateDatabase stores each page up to its end or to an entry at which it had to stop,
\* in pages of any length and after any updates before.
THEOREM PagesAreStored == Spec => []StoredAsFar
<1>1. Inv => StoredAsFar
  BY DEF Inv
<1> QED
  BY <1>1, Invariant, PTL

\* What DecryptIMG3Data makes of a section of any size with the right key: what was
\* encrypted or compressed, but for what comes of a last block that is not whole; junk for a
\* section with one of the two marks; and freed data just for one that is shorter than the
\* header of which it has a mark.
THEOREM OutputsAreContents == Spec => []OutputIsContents
<1>1. Inv => OutputIsContents
  BY DEF Inv, SectionInv, CipherInv, OutputIsContents
<1> QED
  BY <1>1, Invariant, PTL
=============================================================================
