-------------------------- MODULE ConfigStoreProofs --------------------------
(***************************************************************************)
(* Proofs about ConfigStore, for every set of writers, settings, requests  *)
(* and values and every content of the files before the first start.       *)
(*                                                                         *)
(* No lock of the program orders two updates, and the theorems assume      *)
(* none.  The invariant they rest on tells the writers that have met       *)
(* another one between the truncation of the file and replace_config()     *)
(* from those that are there alone: of the latter the file is exactly what *)
(* they have put there.                                                    *)
(***************************************************************************)
EXTENDS ConfigStore, TLAPS

-----------------------------------------------------------------------------
(* The inductive invariant. *)

FileTellsActive == file.kind = "toml" /\ Loaded(file.settings) = active

\* Who has met nobody is alone in its section,
UnmetAreAlone ==
    \A v, w \in Writers :
        pc[v] \in Section /\ pc[w] \in Section /\ v \notin met => v = w

\* and the file holds what it has put there.
FileFollowsWriter ==
    \A a \in Actors \ met :
        /\ pc[a] = "truncated" => file = Empty
        /\ pc[a] = "saved" => file = Toml(copy[a])

\* A file that does not parse comes from a save that was cut short or met another.
OnlyStrayFilesGarble == file = Garbled => DamagedBar

\* Outside the sections the file of a running program loads as the
\* configuration in force.
UntouchedFileTellsActive ==
    running = "on" /\ ~astray /\ (\A w \in Writers : pc[w] \notin Section)
        => FileTellsActive

\* A start that has to save first saves what the files give.
BootSavesExpected ==
    running = "booting" =>
        /\ pc[Boot] \in {"save"} \cup Section
        /\ pc[Boot] = "save" => Expected = copy[Boot]

SaveInv ==
    /\ UnmetAreAlone
    /\ FileFollowsWriter
    /\ OnlyStrayFilesGarble
    /\ UntouchedFileTellsActive
    /\ BootSavesExpected

-----------------------------------------------------------------------------
(* The operations on configurations. *)

\* What some of the settings may be.
LEMMA PartialValue ==
    ASSUME NEW V, NEW settings
    PROVE  settings \in Partial(V) <=>
               DOMAIN settings \subseteq Fields /\ settings \in [DOMAIN settings -> V]
<1>1. ASSUME settings \in Partial(V)
      PROVE  DOMAIN settings \subseteq Fields /\ settings \in [DOMAIN settings -> V]
  <2>1. PICK S \in SUBSET Fields : settings \in [S -> V]
    BY <1>1 DEF Partial
  <2> QED BY <2>1
<1>2. ASSUME DOMAIN settings \subseteq Fields, settings \in [DOMAIN settings -> V]
      PROVE  settings \in Partial(V)
  BY <1>2 DEF Partial
<1> QED BY <1>1, <1>2

\* What validate() accepts is a configuration.
LEMMA ValidIsConfig ==
    /\ \A config, settings : Valid(Apply(config, settings)) => Apply(config, settings) \in Config
    /\ \A settings : Valid(Loaded(settings)) => Loaded(settings) \in Config
    /\ \A settings : Valid(TakenOver(settings)) => TakenOver(settings) \in Config
<1>1. ASSUME NEW c, DOMAIN c = Fields, c = [f \in Fields |-> c[f]], Valid(c)
      PROVE  c \in Config
  BY <1>1 DEF Valid, Config
<1>2. ASSUME NEW config, NEW settings, Valid(Apply(config, settings))
      PROVE  Apply(config, settings) \in Config
  BY <1>1, <1>2 DEF Apply
<1>3. ASSUME NEW settings, NEW c, Valid(c),
             \/ c = Apply(Default, settings)
             \/ \E f : c = [Apply(Default, settings) EXCEPT ![f] = Default[f]]
      PROVE  c \in Config
  <2> DEFINE base == Apply(Default, settings)
  <2>1. DOMAIN base = Fields /\ base = [f \in Fields |-> base[f]]
    BY DEF Apply
  <2> HIDE DEF base
  <2>2. c = base \/ \E f : c = [base EXCEPT ![f] = Default[f]]
    BY <1>3 DEF base
  <2>3. DOMAIN c = Fields /\ c = [f \in Fields |-> c[f]]
    BY <2>1, <2>2
  <2> QED BY <1>1, <1>3, <2>3
<1>4. ASSUME NEW settings, Valid(Loaded(settings))
      PROVE  Loaded(settings) \in Config
  BY <1>3, <1>4 DEF Loaded
<1>5. ASSUME NEW settings, Valid(TakenOver(settings))
      PROVE  TakenOver(settings) \in Config
  BY <1>3, <1>5 DEF TakenOver
<1> QED BY <1>2, <1>4, <1>5

\* A whole configuration, once in the file, loads as itself: it has an https
\* entry and no migration touches it.
LEMMA WholeLoadsAsItself ==
    ASSUME NEW config \in Config
    PROVE  Loaded(config) = config
<1>1. Apply(Default, config) = config
  BY DEF Apply, Config
<1>2. ~IsLegacyServer(config)
  BY FieldsAssumption DEF IsLegacyServer, Config
<1> QED BY <1>1, <1>2 DEF Loaded

\* The files are told apart by what they hold.
LEMMA FileKinds ==
    /\ \A settings : /\ Toml(settings).kind = "toml" /\ Toml(settings).settings = settings
                     /\ Toml(settings) \notin {Absent, Garbled}
    /\ Absent # Garbled /\ Absent.kind # "toml" /\ Garbled.kind # "toml"
  BY DEF Toml, Absent, Garbled

\* What a save may leave in the file is a file.
LEMMA TomlIsFile ==
    /\ \A settings \in Partial(Values) : Toml(settings) \in File
    /\ \A config \in Config, S \in SUBSET Fields : Toml([f \in S |-> config[f]]) \in File
    /\ \A config \in Config : Toml(config) \in File
    /\ Empty \in File
<1>1. ASSUME NEW settings, DOMAIN settings \subseteq Fields,
             settings \in [DOMAIN settings -> Values]
      PROVE  Toml(settings) \in File
  <2>1. settings \in [DOMAIN settings -> Values \cup BadValues]
    BY <1>1
  <2>2. settings \in Partial(Values \cup BadValues)
    BY <1>1, <2>1, PartialValue
  <2> QED BY <2>2 DEF Toml, File, Stored
<1>2. \A settings \in Partial(Values) : Toml(settings) \in File
  BY <1>1, PartialValue
<1>3. \A config \in Config, S \in SUBSET Fields : Toml([f \in S |-> config[f]]) \in File
  BY <1>1 DEF Config
<1>4. \A config \in Config : Toml(config) \in File
  BY <1>1 DEF Config
<1>5. Empty \in File
  <2> DEFINE none == [f \in {} |-> LegacyPort]
  <2>1. DOMAIN none \subseteq Fields /\ none \in [DOMAIN none -> Values]
    OBVIOUS
  <2> HIDE DEF none
  <2>2. Toml(none) \in File
    BY <1>1, <2>1
  <2> QED BY <2>2 DEF Empty, none
<1> QED BY <1>2, <1>3, <1>4, <1>5

\* The request that sends nothing is one of the requests.
LEMMA NothingIsSendable == Empty.settings \in Partial(Values)
<1> DEFINE none == [f \in {} |-> LegacyPort]
<1>1. DOMAIN none \subseteq Fields /\ none \in [DOMAIN none -> Values]
  OBVIOUS
<1> HIDE DEF none
<1>2. none \in Partial(Values)
  BY <1>1, PartialValue
<1> QED BY <1>2 DEF Empty, Toml, none

\* A request whose result is accepted sends accepted values only.
LEMMA ValidIsSendable ==
    ASSUME NEW config, NEW settings \in Partial(Values \cup BadValues),
           Valid(Apply(config, settings))
    PROVE  settings \in Partial(Values)
<1>1. \A f \in DOMAIN settings : f \in Fields /\ settings[f] \in Values
  BY PartialValue DEF Valid, Apply
<1>2. DOMAIN settings \subseteq Fields /\ settings \in [DOMAIN settings -> Values]
  BY <1>1, PartialValue
<1> QED BY <1>2, PartialValue

-----------------------------------------------------------------------------
(* Types. *)

\* The start is well typed, whatever the files hold.
LEMMA TypeInit == Init => TypeOK
<1> SUFFICES ASSUME Init PROVE TypeOK
  OBVIOUS
<1>1. file \in File /\ legacy \in Stored \cup {Absent}
  BY OriginalsAssumption DEF Init, File
<1>2. active \in Config /\ Default \in Config
  <2>1. Default \in Config
    BY DefaultAssumption
  <2>2. Valid(Expected) => Expected \in Config
    BY <2>1, ValidIsConfig DEF Expected
  <2> QED BY <2>1, <2>2 DEF Init
<1>3. Empty.settings \in Partial(Values)
  BY NothingIsSendable
<1> QED BY <1>1, <1>2, <1>3 DEF Init, TypeOK, Actors, Boot, Saving, Section

\* One step of a writer, of a start or of the end keeps every variable in its
\* range: what is refused is never held, saved or put in force.
LEMMA TypeStep == TypeOK /\ [Next]_vars => TypeOK'
<1> SUFFICES ASSUME TypeOK, [Next]_vars PROVE TypeOK'
  OBVIOUS
<1> USE WritersAssumption, DefaultAssumption, NothingIsSendable
    DEF TypeOK, Actors, Boot, Saving, Section
<1>1. ASSUME NEW a \in Actors, Truncate(a) PROVE TypeOK'
  <2>1. file' \in File
    BY <1>1, TomlIsFile DEF Truncate
  <2>2. pc' = [pc EXCEPT ![a] = "truncated"]
    BY <1>1 DEF Truncate, Goto
  <2>3. met' \subseteq {w \in Writers : pc'[w] \in Section}
    <3> DEFINE others == {w \in Writers \ {a} : pc[w] \in Section}
    <3>1. met' = met \/ (met' = met \cup others \cup {a} /\ others # {})
      BY <1>1 DEF Truncate
    <3>2. others # {} => a \in Writers
      BY <1>1 DEF Truncate
    <3> QED BY <2>2, <3>1, <3>2
  <2> QED BY <1>1, <2>1, <2>2, <2>3 DEF Truncate
<1>2. ASSUME NEW a \in Actors, Write(a) PROVE TypeOK'
  <2>1. file' \in File
    BY <1>2, TomlIsFile DEF Write, File
  <2>2. pc' = [pc EXCEPT ![a] = "saved"]
    BY <1>2 DEF Write, Goto
  <2>3. astray' \in BOOLEAN
    BY <1>2 DEF Write
  <2> QED BY <1>2, <2>1, <2>2, <2>3 DEF Write
<1>3. ASSUME NEW a \in Actors, SaveFails(a) PROVE TypeOK'
  <2>1. file' \in File
    BY <1>3, TomlIsFile DEF SaveFails, File
  <2>2. /\ pc' = [pc EXCEPT ![a] = "idle"] /\ copy' = [copy EXCEPT ![a] = Default]
        /\ sent' = [sent EXCEPT ![a] = Empty.settings] /\ met' = met \ {a}
        /\ UNCHANGED <<legacy, active, unfinished>>
        /\ running' = IF a = "load" THEN "off" ELSE running
        /\ pc[a] \in {"save", "truncated"}
    BY <1>3 DEF SaveFails, Goto, Leave
  <2>3. astray' \in BOOLEAN
    BY <1>3 DEF SaveFails
  <2>4. running' # "on" => \A w \in Writers : pc'[w] = "idle"
    BY <2>2
  <2>5. running' # "booting" => pc'["load"] = "idle"
    BY <2>2
  <2> QED BY <2>1, <2>2, <2>3, <2>4, <2>5
<1>4. ASSUME NEW w \in Writers, NEW settings \in Requests,
             Update(w, settings) \/ EditCopy(w, settings)
      PROVE  TypeOK'
  <2>1. PICK config : /\ Valid(Apply(config, settings))
                      /\ copy' = [copy EXCEPT ![w] = Apply(config, settings)]
    BY <1>4 DEF Update, EditCopy
  <2>2. Apply(config, settings) \in Config
    BY <2>1, ValidIsConfig
  <2>3. settings \in Partial(Values)
    BY <1>4, <2>1, ValidIsSendable, RequestsAssumption
  <2> QED BY <1>4, <2>1, <2>2, <2>3 DEF Update, EditCopy, Goto, histories
<1>5. ASSUME NEW w \in Writers, TakeCopy(w) PROVE TypeOK'
  BY <1>5 DEF TakeCopy, Goto, histories
<1>6. ASSUME NEW w \in Writers, DropCopy(w) PROVE TypeOK'
  BY <1>6 DEF DropCopy, Goto, Leave
<1>7. ASSUME NEW w \in Writers, Replace(w) PROVE TypeOK'
  <2>1. /\ pc' = [pc EXCEPT ![w] = "idle"] /\ copy' = [copy EXCEPT ![w] = Default]
        /\ sent' = [sent EXCEPT ![w] = Empty.settings] /\ met' = met \ {w}
        /\ UNCHANGED <<file, legacy, running, unfinished>>
        /\ active' = copy[w]
    BY <1>7 DEF Replace, Goto, Leave
  <2>2. astray' \in BOOLEAN
    BY <1>7 DEF Replace
  <2> QED BY <2>1, <2>2
<1>8. CASE LoadFile
  <2>1. Loaded(file.settings) \in Config
    BY <1>8, ValidIsConfig DEF LoadFile
  <2>2. CASE IsLegacyServer(file.settings)
    BY <1>8, <2>1, <2>2 DEF LoadFile, SaveFirst, Goto, histories
  <2>3. CASE ~IsLegacyServer(file.settings)
    BY <1>8, <2>1, <2>3 DEF LoadFile, PutInForce, updates
  <2> QED BY <2>2, <2>3
<1>9. CASE CreateFile
  <2>1. Expected \in Config
    BY <1>9, ValidIsConfig, DefaultAssumption DEF CreateFile, Expected
  <2> QED BY <1>9, <2>1 DEF CreateFile, SaveFirst, Goto, histories
<1>10. CASE LoadFails
  BY <1>10 DEF LoadFails, vars, updates, histories
<1>11. CASE Booted
  BY <1>11 DEF Booted, PutInForce, Leave, Goto
<1>12. CASE Stop
  <2>1. unfinished' \subseteq Config
    BY <1>12 DEF Stop
  <2>2. astray' \in BOOLEAN
    BY <1>12 DEF Stop
  <2> QED BY <1>12, <2>1, <2>2 DEF Stop
<1>13. CASE UNCHANGED vars
  BY <1>13 DEF vars, updates, histories
<1> QED
  BY <1>1, <1>2, <1>3, <1>4, <1>5, <1>6, <1>7, <1>8, <1>9, <1>10, <1>11, <1>12, <1>13
  DEF Next

\* However updates, failures, ends and starts interleave, the configuration in
\* force and those about to be saved are ones validate() accepts, and the file is
\* whole, partial, empty or garbled.
THEOREM ConfigTypeCorrect == Spec => []TypeOK
BY TypeInit, TypeStep, PTL DEF Spec

-----------------------------------------------------------------------------
(* The file follows the configuration in force. *)

\* At the start the file is one that parses, and nobody uses it.
LEMMA SaveInit == Init => SaveInv
<1> SUFFICES ASSUME Init PROVE SaveInv
  OBVIOUS
<1>1. file # Garbled
  BY OriginalsAssumption, FileKinds DEF Init, Stored
<1>2. running = "off" /\ \A a \in Actors : pc[a] = "idle"
  BY DEF Init
<1> QED
  BY <1>1, <1>2
     DEF SaveInv, UnmetAreAlone, FileFollowsWriter, OnlyStrayFilesGarble,
         UntouchedFileTellsActive, BootSavesExpected, Section, Actors

\* What a whole file gives.
LEMMA WholeFileTells ==
    ASSUME NEW config \in Config, file = Toml(config)
    PROVE  /\ file.kind = "toml" /\ Loaded(file.settings) = config
           /\ Expected = config
           /\ file # Garbled /\ file # Empty
<1>1. file.kind = "toml" /\ file.settings = config /\ file \notin {Absent, Garbled}
  BY FileKinds
<1>2. Loaded(file.settings) = config
  BY <1>1, WholeLoadsAsItself
<1>3. config # [f \in {} |-> LegacyPort]
  BY FieldsAssumption DEF Config
<1>4. Empty.settings = [f \in {} |-> LegacyPort]
  BY FileKinds DEF Empty
<1> QED BY <1>1, <1>2, <1>3, <1>4 DEF Expected

\* Where the actors may be in each phase of the program.
LEMMA Phases ==
    ASSUME TypeOK
    PROVE  /\ Boot \in Actors /\ Boot \notin Writers /\ Boot \notin met
           /\ \A w \in Writers : w \in Actors
           /\ pc \in [Actors -> {"idle", "editing", "save", "truncated", "saved"}]
           /\ copy \in [Actors -> Config] /\ sent \in [Actors -> Partial(Values)]
           /\ running \in {"off", "booting", "on"}
           /\ met \subseteq {w \in Writers : pc[w] \in Section}
           /\ running # "on" => met = {} /\ \A w \in Writers : pc[w] = "idle"
           /\ running # "booting" => pc[Boot] = "idle"
           /\ astray \in BOOLEAN
BY WritersAssumption DEF TypeOK, Actors, Boot, Saving, Section

\* A truncation leaves the one who makes it alone, or marks it and whoever is
\* there as having met.
LEMMA TruncateStep ==
    ASSUME TypeOK, SaveInv, NEW a \in Actors, Truncate(a)
    PROVE  SaveInv'
<1> USE DEF Section
<1>t. /\ Boot \in Actors /\ Boot \notin Writers /\ Boot \notin met
      /\ \A w \in Writers : w \in Actors
      /\ pc \in [Actors -> {"idle", "editing", "save", "truncated", "saved"}]
      /\ met \subseteq {w \in Writers : pc[w] \in Section}
      /\ running # "on" => met = {} /\ \A w \in Writers : pc[w] = "idle"
      /\ running # "booting" => pc[Boot] = "idle"
  BY Phases
<1> DEFINE others == {w \in Writers \ {a} : pc[w] \in Section}
<1>1. /\ pc' = [pc EXCEPT ![a] = "truncated"] /\ file' = Empty
      /\ UNCHANGED <<legacy, running, active, copy, astray>>
      /\ pc[a] = "save"
      /\ met' = IF others = {} THEN met ELSE met \cup others \cup {a}
  BY DEF Truncate, Goto
<1>2. \A w \in Writers \ {a} : pc'[w] \in Section => w \in met'
  BY <1>t, <1>1
<1>3. UnmetAreAlone'
  <2> SUFFICES ASSUME NEW v \in Writers, NEW w \in Writers,
                      pc'[v] \in Section, pc'[w] \in Section, v \notin met'
               PROVE  v = w
    BY DEF UnmetAreAlone
  <2>1. v = a
    BY <1>2
  <2>2. others = {}
    BY <1>1, <2>1
  <2> QED BY <1>t, <1>1, <2>1, <2>2
<1>4. FileFollowsWriter'
  <2> SUFFICES ASSUME NEW b \in Actors, b \notin met', b # a
               PROVE  pc'[b] \notin {"truncated", "saved"}
    BY <1>t, <1>1 DEF FileFollowsWriter
  <2>1. CASE b \in Writers
    BY <1>2, <2>1
  <2>2. CASE b = Boot
    BY <1>t, <1>1, <2>2 DEF Actors
  <2> QED BY <2>1, <2>2 DEF Actors
<1>5. OnlyStrayFilesGarble'
  BY <1>1, FileKinds DEF OnlyStrayFilesGarble, Empty
<1>6. UntouchedFileTellsActive'
  BY <1>t, <1>1 DEF UntouchedFileTellsActive, Actors
<1>7. BootSavesExpected'
  BY <1>t, <1>1 DEF BootSavesExpected, SaveInv, Actors
<1> QED BY <1>3, <1>4, <1>5, <1>6, <1>7 DEF SaveInv

\* A write by one that has met nobody makes the file whole; one that has met
\* another may garble it, and is marked.
LEMMA WriteStep ==
    ASSUME TypeOK, SaveInv, NEW a \in Actors, Write(a)
    PROVE  SaveInv'
<1> USE DEF Section
<1>t. /\ Boot \in Actors /\ Boot \notin Writers /\ Boot \notin met
      /\ \A w \in Writers : w \in Actors
      /\ pc \in [Actors -> {"idle", "editing", "save", "truncated", "saved"}]
      /\ copy \in [Actors -> Config]
      /\ met \subseteq {w \in Writers : pc[w] \in Section}
      /\ running # "on" => met = {} /\ \A w \in Writers : pc[w] = "idle"
      /\ running # "booting" => pc[Boot] = "idle"
      /\ astray \in BOOLEAN
  BY Phases
<1>1. /\ pc' = [pc EXCEPT ![a] = "saved"]
      /\ UNCHANGED <<legacy, running, active, copy, met>>
      /\ pc[a] = "truncated"
      /\ astray' = (astray /\ a \in met \cup {Boot})
  BY DEF Write, Goto
<1>2. a \notin met => file' = Toml(copy[a])
  BY <1>1 DEF Write, SaveInv, FileFollowsWriter
<1>3. UnmetAreAlone'
  BY <1>t, <1>1 DEF UnmetAreAlone, SaveInv
<1>4. FileFollowsWriter'
  <2> SUFFICES ASSUME NEW b \in Actors, b \notin met, pc'[b] \in Section
               PROVE  b = a
    BY <1>t, <1>1, <1>2 DEF FileFollowsWriter
  <2>1. pc[b] \in Section /\ pc[a] \in Section
    BY <1>t, <1>1
  <2>2. CASE b \in Writers /\ a \in Writers
    BY <2>1, <2>2 DEF SaveInv, UnmetAreAlone
  <2>3. CASE b = Boot \/ a = Boot
    BY <1>t, <2>1, <2>3 DEF Actors
  <2> QED BY <2>2, <2>3 DEF Actors
<1>5. OnlyStrayFilesGarble'
  BY <1>1, <1>2, FileKinds DEF OnlyStrayFilesGarble, DamagedBar
<1>6. UntouchedFileTellsActive'
  BY <1>t, <1>1 DEF UntouchedFileTellsActive, Actors
<1>7. BootSavesExpected'
  BY <1>t, <1>1 DEF BootSavesExpected, SaveInv, Actors
<1> QED BY <1>3, <1>4, <1>5, <1>6, <1>7 DEF SaveInv

\* A save that fails leaves the file as it was, or is remembered as cut short.
LEMMA SaveFailsStep ==
    ASSUME TypeOK, SaveInv, NEW a \in Actors, SaveFails(a)
    PROVE  SaveInv'
<1> USE DEF Section, Saving
<1>t. /\ Boot \in Actors /\ Boot \notin Writers /\ Boot \notin met
      /\ \A w \in Writers : w \in Actors
      /\ pc \in [Actors -> {"idle", "editing", "save", "truncated", "saved"}]
      /\ copy \in [Actors -> Config]
      /\ met \subseteq {w \in Writers : pc[w] \in Section}
      /\ running # "on" => met = {} /\ \A w \in Writers : pc[w] = "idle"
      /\ running # "booting" => pc[Boot] = "idle"
  BY Phases
<1>1. /\ pc' = [pc EXCEPT ![a] = "idle"] /\ copy' = [copy EXCEPT ![a] = Default]
      /\ met' = met \ {a}
      /\ UNCHANGED <<legacy, active>>
      /\ pc[a] \in {"save", "truncated"}
      /\ running' = IF a = Boot THEN "off" ELSE running
      /\ astray' = (astray \/ pc[a] = "truncated")
      /\ pc[a] = "save" => file' = file
  BY DEF SaveFails, Goto, Leave
<1>2. \A b \in Actors : b # a => pc'[b] = pc[b] /\ copy'[b] = copy[b]
  BY <1>t, <1>1
<1>3. pc'[a] = "idle"
  BY <1>t, <1>1
<1>4. UnmetAreAlone'
  BY <1>t, <1>1, <1>2, <1>3 DEF UnmetAreAlone, SaveInv
<1>5. FileFollowsWriter'
  <2>1. CASE pc[a] = "save"
    <3>1. \A b \in Actors : b # a => pc'[b] = pc[b] /\ copy'[b] = copy[b]
      BY <1>2
    <3>2. \A b \in Actors : b # a /\ b \notin met' => b \notin met
      BY <1>1
    <3> QED BY <1>1, <1>3, <2>1, <3>1, <3>2 DEF FileFollowsWriter, SaveInv
  <2>2. CASE pc[a] = "truncated"
    <3> SUFFICES ASSUME NEW b \in Actors, b \notin met', b # a, pc[b] \in Section
                 PROVE  FALSE
      BY <1>2, <1>3 DEF FileFollowsWriter
    <3>1. b \notin met
      BY <1>1
    <3>2. CASE b \in Writers /\ a \in Writers
      BY <2>2, <3>1, <3>2 DEF SaveInv, UnmetAreAlone
    <3>3. CASE b = Boot \/ a = Boot
      BY <1>t, <2>2, <3>3 DEF Actors
    <3> QED BY <3>2, <3>3 DEF Actors
  <2> QED BY <1>1, <2>1, <2>2
<1>6. OnlyStrayFilesGarble'
  BY <1>t, <1>1 DEF OnlyStrayFilesGarble, SaveInv, DamagedBar
<1>7. UntouchedFileTellsActive'
  <2> SUFFICES ASSUME running' = "on", ~astray', \A w \in Writers : pc'[w] \notin Section
               PROVE  FileTellsActive'
    BY DEF UntouchedFileTellsActive
  <2>1. a # Boot /\ running = "on" /\ ~astray /\ pc[a] = "save" /\ file' = file
    BY <1>1
  <2>2. \A w \in Writers : pc[w] \notin Section
    BY <1>2, <1>t, <2>1
  <2> QED BY <1>1, <2>1, <2>2 DEF SaveInv, UntouchedFileTellsActive, FileTellsActive
<1>8. BootSavesExpected'
  BY <1>t, <1>1 DEF BootSavesExpected, Actors
<1> QED BY <1>4, <1>5, <1>6, <1>7, <1>8 DEF SaveInv

\* replace_config() by one that has met nobody makes memory follow the file; one
\* that has met another leaves a mark.
LEMMA ReplaceStep ==
    ASSUME TypeOK, SaveInv, NEW w \in Writers, Replace(w)
    PROVE  SaveInv'
<1> USE DEF Section
<1>t. /\ Boot \in Actors /\ Boot \notin Writers /\ Boot \notin met
      /\ \A v \in Writers : v \in Actors
      /\ pc \in [Actors -> {"idle", "editing", "save", "truncated", "saved"}]
      /\ copy \in [Actors -> Config]
      /\ running # "on" => \A v \in Writers : pc[v] = "idle"
      /\ running # "booting" => pc[Boot] = "idle"
      /\ running \in {"off", "booting", "on"}
  BY Phases
<1>1. /\ pc' = [pc EXCEPT ![w] = "idle"] /\ copy' = [copy EXCEPT ![w] = Default]
      /\ active' = copy[w] /\ met' = met \ {w}
      /\ UNCHANGED <<file, legacy, running>>
      /\ pc[w] = "saved"
      /\ astray' = (astray \/ w \in met)
  BY DEF Replace, Goto, Leave
<1>2. running = "on"
  BY <1>t, <1>1
<1>3. \A b \in Actors : b # w => pc'[b] = pc[b] /\ copy'[b] = copy[b]
  BY <1>t, <1>1
<1>4. pc'[w] = "idle"
  BY <1>t, <1>1
<1>5. UnmetAreAlone'
  BY <1>t, <1>1, <1>3, <1>4 DEF UnmetAreAlone, SaveInv
<1>6. FileFollowsWriter'
  <2>1. \A b \in Actors : b # w /\ b \notin met' => b \notin met
    BY <1>1
  <2> QED BY <1>1, <1>3, <1>4, <2>1 DEF FileFollowsWriter, SaveInv
<1>7. OnlyStrayFilesGarble'
  BY <1>1 DEF OnlyStrayFilesGarble, SaveInv, DamagedBar
<1>8. UntouchedFileTellsActive'
  <2> SUFFICES ASSUME ~astray' PROVE FileTellsActive'
    BY DEF UntouchedFileTellsActive
  <2>1. file = Toml(copy[w]) /\ copy[w] \in Config
    BY <1>t, <1>1 DEF SaveInv, FileFollowsWriter
  <2> QED BY <1>1, <2>1, WholeFileTells DEF FileTellsActive
<1>9. BootSavesExpected'
  BY <1>1, <1>2 DEF BootSavesExpected
<1> QED BY <1>5, <1>6, <1>7, <1>8, <1>9 DEF SaveInv

\* A start puts in force what the file gives, or is about to save it.
LEMMA StartStep ==
    ASSUME TypeOK, SaveInv, LoadFile \/ CreateFile \/ Booted
    PROVE  SaveInv'
<1> USE DEF Section
<1>t. /\ Boot \in Actors /\ Boot \notin Writers
      /\ \A w \in Writers : w \in Actors
      /\ pc \in [Actors -> {"idle", "editing", "save", "truncated", "saved"}]
      /\ copy \in [Actors -> Config]
      /\ running # "on" => met = {} /\ \A w \in Writers : pc[w] = "idle"
      /\ running # "booting" => pc[Boot] = "idle"
  BY Phases
<1>1. ASSUME running = "off", file # Garbled, UNCHANGED <<file, legacy>>, SaveFirst(Expected)
      PROVE  SaveInv'
  <2>1. /\ pc' = [pc EXCEPT ![Boot] = "save"] /\ running' = "booting"
        /\ copy' = [copy EXCEPT ![Boot] = Expected]
        /\ UNCHANGED <<met, astray>>
    BY <1>1 DEF SaveFirst, Goto, histories
  <2>2. Expected' = Expected
    BY <1>1 DEF Expected
  <2>3. \A a \in Actors : pc'[a] \notin Section
    BY <1>t, <1>1, <2>1 DEF Actors
  <2>4. BootSavesExpected'
    BY <1>t, <2>1, <2>2 DEF BootSavesExpected
  <2>5. UnmetAreAlone' /\ FileFollowsWriter'
    BY <1>t, <2>3 DEF UnmetAreAlone, FileFollowsWriter
  <2> QED
    BY <1>1, <2>1, <2>4, <2>5 DEF SaveInv, OnlyStrayFilesGarble, UntouchedFileTellsActive
<1>2. ASSUME running # "on", FileTellsActive', file' # Garbled, running' = "on",
             \A a \in Actors : pc'[a] \notin Section
      PROVE  SaveInv'
  BY <1>t, <1>2
     DEF SaveInv, UnmetAreAlone, FileFollowsWriter, OnlyStrayFilesGarble,
         UntouchedFileTellsActive, BootSavesExpected
<1>3. CASE LoadFile
  <2>1. /\ running = "off" /\ file.kind = "toml" /\ UNCHANGED <<file, legacy>>
    BY <1>3 DEF LoadFile
  <2>2. Expected = Loaded(file.settings) /\ file # Garbled
    BY <2>1, FileKinds DEF Expected
  <2>3. CASE IsLegacyServer(file.settings)
    BY <1>1, <1>3, <2>1, <2>2, <2>3 DEF LoadFile
  <2>4. CASE ~IsLegacyServer(file.settings)
    <3>1. running' = "on" /\ active' = Loaded(file.settings) /\ pc' = pc
      BY <1>3, <2>4 DEF LoadFile, PutInForce, updates
    <3>2. FileTellsActive'
      BY <2>1, <3>1 DEF FileTellsActive
    <3>3. \A a \in Actors : pc'[a] \notin Section
      BY <1>t, <2>1, <3>1 DEF Actors
    <3> QED BY <1>2, <2>1, <2>2, <3>1, <3>2, <3>3
  <2> QED BY <2>3, <2>4
<1>4. CASE CreateFile
  BY <1>1, <1>4, FileKinds DEF CreateFile
<1>5. CASE Booted
  <2>1. /\ pc[Boot] = "saved" /\ active' = copy[Boot] /\ running' = "on"
        /\ pc' = [pc EXCEPT ![Boot] = "idle"] /\ UNCHANGED <<file, legacy>>
    BY <1>5 DEF Booted, PutInForce, Leave, Goto
  <2>2. running = "booting"
    BY <1>t, <2>1
  <2>3. file = Toml(copy[Boot]) /\ copy[Boot] \in Config
    BY <1>t, <2>1, <2>2 DEF SaveInv, FileFollowsWriter
  <2>4. FileTellsActive' /\ file' # Garbled
    BY <2>1, <2>3, WholeFileTells DEF FileTellsActive
  <2>5. \A a \in Actors : pc'[a] \notin Section
    BY <1>t, <2>1, <2>2 DEF Actors
  <2> QED BY <1>2, <2>1, <2>2, <2>4, <2>5
<1> QED BY <1>3, <1>4, <1>5

\* One step keeps the file behind whoever is alone in its section, and the
\* configuration in force behind the file.
LEMMA SaveStep == TypeOK /\ SaveInv /\ [Next]_vars => SaveInv'
<1> SUFFICES ASSUME TypeOK, SaveInv, [Next]_vars PROVE SaveInv'
  OBVIOUS
<1>1. ASSUME NEW a \in Actors, Truncate(a) \/ Write(a) \/ SaveFails(a) PROVE SaveInv'
  BY <1>1, TruncateStep, WriteStep, SaveFailsStep
<1>2. ASSUME NEW w \in Writers,
             \/ \E settings \in Requests : Update(w, settings) \/ EditCopy(w, settings)
             \/ TakeCopy(w) \/ DropCopy(w)
      PROVE  SaveInv'
  <2>t. /\ Boot \in Actors /\ Boot \notin Writers /\ \A v \in Writers : v \in Actors
        /\ pc \in [Actors -> {"idle", "editing", "save", "truncated", "saved"}]
        /\ copy \in [Actors -> Config]
        /\ met \subseteq {v \in Writers : pc[v] \in Section}
        /\ running # "on" => \A v \in Writers : pc[v] = "idle"
    BY Phases
  <2>1. /\ UNCHANGED <<file, legacy, running, active, astray>>
        /\ running = "on"
        /\ pc[w] \in {"idle", "editing"} /\ pc'[w] \in {"idle", "editing", "save"}
        /\ \A b \in Actors : b # w => pc'[b] = pc[b] /\ copy'[b] = copy[b]
        /\ met' = met
    <3>1. CASE \E settings \in Requests : Update(w, settings) \/ EditCopy(w, settings)
      BY <2>t, <3>1 DEF Update, EditCopy, Goto, histories
    <3>2. CASE TakeCopy(w)
      BY <2>t, <3>2 DEF TakeCopy, Goto, histories
    <3>3. CASE DropCopy(w)
      BY <2>t, <3>3 DEF DropCopy, Leave, Goto, Section
    <3> QED BY <1>2, <3>1, <3>2, <3>3
  <2>2. UnmetAreAlone'
    BY <2>t, <2>1 DEF UnmetAreAlone, SaveInv, Section
  <2>3. FileFollowsWriter'
    BY <2>t, <2>1 DEF FileFollowsWriter, SaveInv
  <2>4. OnlyStrayFilesGarble' /\ BootSavesExpected'
    BY <2>1 DEF OnlyStrayFilesGarble, BootSavesExpected, SaveInv, DamagedBar
  <2>5. UntouchedFileTellsActive'
    BY <2>t, <2>1 DEF UntouchedFileTellsActive, SaveInv, FileTellsActive, Section
  <2> QED BY <2>2, <2>3, <2>4, <2>5 DEF SaveInv
<1>3. ASSUME NEW w \in Writers, Replace(w) PROVE SaveInv'
  BY <1>3, ReplaceStep
<1>4. CASE LoadFile \/ CreateFile \/ Booted
  BY <1>4, StartStep
<1>5. CASE Stop
  <2>1. /\ running' = "off" /\ pc' = [a \in Actors |-> "idle"] /\ UNCHANGED file
        /\ DamagedBar => DamagedBar'
    BY <1>5 DEF Stop, DamagedBar
  <2> QED
    BY <2>1
       DEF SaveInv, UnmetAreAlone, FileFollowsWriter, OnlyStrayFilesGarble,
           UntouchedFileTellsActive, BootSavesExpected, Section, Actors
<1>6. CASE LoadFails \/ UNCHANGED vars
  BY <1>6
     DEF LoadFails, vars, updates, histories, SaveInv, UnmetAreAlone, FileFollowsWriter,
         OnlyStrayFilesGarble, UntouchedFileTellsActive, BootSavesExpected,
         FileTellsActive, Expected, DamagedBar
<1> QED
  BY <1>1, <1>2, <1>3, <1>4, <1>5, <1>6 DEF Next

\* Of whoever is between truncation and replacement alone, the file is what it
\* has put there, and while nobody is there it is what is in force; only a save
\* that was cut short or met another one garbles it.
THEOREM SavesInOrder == Spec => []SaveInv
BY SaveInit, SaveStep, ConfigTypeCorrect, PTL DEF Spec

\* What POST /config answers is what config.toml holds, for any number of
\* updates at once: while none is between truncation and replacement the file
\* would load as the configuration in force, unless a save was cut short or two
\* met there, and then until the next one that is alone.
THEOREM SettledMeansPersisted == Spec => []SettledIsPersisted
<1>1. SaveInv => SettledIsPersisted
  BY DEF SaveInv, UntouchedFileTellsActive, FileTellsActive, SettledIsPersisted
<1> QED BY <1>1, SavesInOrder, PTL

-----------------------------------------------------------------------------
(* The register. *)

\* The module's Apply is what the register means by it.
LEMMA OverlayIsApply ==
    \A config, settings : Register!Overlay(config, settings) = Apply(config, settings)
BY DEF Register!Overlay, Apply

\* A file, valid or not, gives every setting some value.
LEMMA FilesGiveConfigurations ==
    ASSUME NEW settings \in Partial(Values \cup BadValues)
    PROVE  /\ TakenOver(settings) \in [Fields -> Values \cup BadValues]
           /\ Loaded(settings) \in [Fields -> Values \cup BadValues]
<1>1. Apply(Default, settings) \in [Fields -> Values \cup BadValues]
  BY PartialValue, DefaultAssumption DEF Apply, Config
<1>2. Default["port"] \in Values /\ Default["pin_env"] \in Values
  BY DefaultAssumption, FieldsAssumption DEF Config
<1>3. TakenOver(settings) \in [Fields -> Values \cup BadValues]
  BY <1>1, <1>2 DEF TakenOver
<1>4. Loaded(settings) \in [Fields -> Values \cup BadValues]
  BY <1>1, <1>2 DEF Loaded
<1> QED BY <1>3, <1>4

\* The value of the register is a configuration, though not always a valid one.
LEMMA ValueIsConfiguration == TypeOK => ValueBar \in [Fields -> Values \cup BadValues]
<1> SUFFICES ASSUME TypeOK PROVE ValueBar \in [Fields -> Values \cup BadValues]
  OBVIOUS
<1>1. \A config \in Config : config \in [Fields -> Values \cup BadValues]
  BY DEF Config
<1>2. active \in Config /\ copy[Boot] \in Config /\ Default \in Config
  BY DefaultAssumption DEF TypeOK, Actors
<1>3. ASSUME file # Garbled PROVE Expected \in [Fields -> Values \cup BadValues]
  <2>1. CASE file # Absent
    <3>1. file.settings \in Partial(Values \cup BadValues)
      BY <1>3, <2>1 DEF TypeOK, File, Stored
    <3> QED BY <2>1, <3>1, FilesGiveConfigurations DEF Expected
  <2>2. CASE file = Absent /\ legacy # Absent
    <3>1. legacy.settings \in Partial(Values \cup BadValues)
      BY <2>2 DEF TypeOK, Stored
    <3> QED BY <2>2, <3>1, FilesGiveConfigurations DEF Expected
  <2>3. CASE file = Absent /\ legacy = Absent
    BY <1>1, <1>2, <2>3 DEF Expected
  <2> QED BY <2>1, <2>2, <2>3
<1> QED BY <1>1, <1>2, <1>3 DEF ValueBar, TypeOK

\* What the register holds in each phase of the program.
LEMMA ValueByPhase ==
    /\ running = "on" => ValueBar = active
    /\ running = "booting" => ValueBar = copy[Boot]
    /\ running = "off" /\ file # Garbled => ValueBar = Expected
BY DEF ValueBar

\* The program ends with nothing damaged: what was in force, or what the one
\* update that had saved was about to put in force.
LEMMA EndIsExact ==
    ASSUME TypeOK, SaveInv, Stop, ~DamagedBar'
    PROVE  ~DamagedBar /\ ValueBar' \in {ValueBar} \cup UNION {PlanBar[w] : w \in Writers}
<1>1. /\ running # "off" /\ running' = "off" /\ ~astray /\ met = {}
      /\ \A a \in Actors : pc[a] # "truncated"
      /\ UNCHANGED <<file, legacy>>
  BY DEF Stop, DamagedBar
<1>2. ~DamagedBar
  BY <1>1 DEF DamagedBar
<1>3. ValueBar' = Expected
  <2>1. file # Garbled
    BY <1>2 DEF SaveInv, OnlyStrayFilesGarble
  <2> QED BY <1>1, <2>1 DEF ValueBar, Expected
<1>4. ASSUME NEW a \in Actors, pc[a] = "saved" PROVE Expected = copy[a]
  <2>1. file = Toml(copy[a]) /\ copy[a] \in Config
    BY <1>1, <1>4 DEF SaveInv, FileFollowsWriter, TypeOK
  <2> QED BY <2>1, WholeFileTells
<1>5. CASE running = "booting"
  <2>1. pc[Boot] \in {"save", "saved"}
    BY <1>1, <1>5 DEF SaveInv, BootSavesExpected, Section, Actors
  <2>2. Expected = copy[Boot]
    BY <1>4, <1>5, <2>1 DEF SaveInv, BootSavesExpected, Actors
  <2> QED BY <1>2, <1>3, <1>5, <2>2, ValueByPhase
<1>6. ASSUME running = "on", NEW w \in Writers, pc[w] = "saved"
      PROVE  ValueBar' \in PlanBar[w]
  <2>1. Expected = copy[w]
    BY <1>4, <1>6 DEF Actors
  <2> QED BY <1>3, <1>6, <2>1 DEF PlanBar
<1>7. CASE running = "on" /\ \A w \in Writers : pc[w] # "saved"
  <2>1. FileTellsActive
    BY <1>1, <1>7 DEF SaveInv, UntouchedFileTellsActive, Actors, Section
  <2>2. Expected = active
    BY <2>1, FileKinds DEF FileTellsActive, Expected
  <2> QED BY <1>2, <1>3, <1>7, <2>2, ValueByPhase
<1>8. running \in {"on", "booting"}
  BY <1>1 DEF TypeOK
<1>9. CASE \E w \in Writers : running = "on" /\ pc[w] = "saved"
  <2>1. PICK w \in Writers : running = "on" /\ pc[w] = "saved"
    BY <1>9
  <2>2. ValueBar' \in PlanBar[w]
    BY <1>6, <2>1
  <2> QED BY <1>2, <2>2
<1> QED BY <1>5, <1>7, <1>8, <1>9

\* Every step is one of the register, or none.
LEMMA RegisterStep ==
    TypeOK /\ TypeOK' /\ SaveInv /\ [Next]_vars => [Register!Next]_(Register!vars)
<1> SUFFICES ASSUME TypeOK, TypeOK', SaveInv, [Next]_vars
             PROVE  Register!Next \/ UNCHANGED <<ValueBar, PlanBar, DamagedBar>>
  BY DEF Register!vars
<1> USE DEF Section, Saving
<1>t. /\ Boot \in Actors /\ Boot \notin Writers /\ Boot \notin met
      /\ \A w \in Writers : w \in Actors
      /\ pc \in [Actors -> {"idle", "editing", "save", "truncated", "saved"}]
      /\ copy \in [Actors -> Config] /\ sent \in [Actors -> Partial(Values)]
      /\ running \in {"off", "booting", "on"}
      /\ met \subseteq {w \in Writers : pc[w] \in Section}
      /\ running # "on" => met = {} /\ \A w \in Writers : pc[w] = "idle"
      /\ running # "booting" => pc[Boot] = "idle"
      /\ astray \in BOOLEAN
  BY Phases
<1>v. ValueBar' \in [Fields -> Values \cup BadValues]
  <2>1. (TypeOK => ValueBar \in [Fields -> Values \cup BadValues])'
    BY ValueIsConfiguration, PTL
  <2> QED BY <2>1
<1>1. ASSUME NEW a \in Actors, Truncate(a)
      PROVE  Register!Next \/ UNCHANGED <<ValueBar, PlanBar, DamagedBar>>
  <2> DEFINE others == {w \in Writers \ {a} : pc[w] \in Section}
  <2>1. /\ UNCHANGED <<running, active, copy, astray>>
        /\ pc[a] = "save" /\ pc' = [pc EXCEPT ![a] = "truncated"]
        /\ met' = IF others = {} THEN met ELSE met \cup others \cup {a}
    BY <1>1 DEF Truncate, Goto
  <2>2. ValueBar' = ValueBar
    BY <1>t, <2>1 DEF ValueBar
  <2>3. PlanBar' = PlanBar
    BY <1>t, <2>1 DEF PlanBar
  <2>4. CASE others = {}
    BY <2>1, <2>2, <2>3, <2>4 DEF DamagedBar
  <2>5. CASE others # {}
    <3>1. PICK v \in Writers \ {a} : pc[v] \in Section
      BY <2>5
    <3>2. a \in Writers
      BY <1>t, <2>1, <3>1 DEF Actors
    <3>3. PlanBar[v] # {} /\ PlanBar[a] # {}
      BY <2>1, <3>1, <3>2 DEF PlanBar
    <3>4. DamagedBar'
      BY <2>1, <2>5 DEF DamagedBar
    <3> QED BY <2>2, <2>3, <3>1, <3>2, <3>3, <3>4 DEF Register!Next, Register!Clash
  <2> QED BY <2>4, <2>5
<1>2. ASSUME NEW a \in Actors, Write(a)
      PROVE  Register!Next \/ UNCHANGED <<ValueBar, PlanBar, DamagedBar>>
  <2>1. /\ UNCHANGED <<running, active, copy, met>>
        /\ pc[a] = "truncated" /\ pc' = [pc EXCEPT ![a] = "saved"]
        /\ astray' = (astray /\ a \in met \cup {Boot})
    BY <1>2 DEF Write, Goto
  <2>2. ValueBar' = ValueBar
    BY <1>t, <2>1 DEF ValueBar
  <2>3. PlanBar' = PlanBar
    BY <1>t, <2>1 DEF PlanBar
  <2>4. DamagedBar' = DamagedBar \/ DamagedBar' = FALSE
    BY <2>1 DEF DamagedBar
  <2> QED BY <2>2, <2>3, <2>4 DEF Register!Next, Register!Repair
<1>3. ASSUME NEW w \in Writers, SaveFails(w) \/ DropCopy(w) PROVE Register!Next
  <2>1. /\ UNCHANGED <<running, active>>
        /\ pc[w] # "idle" /\ pc' = [pc EXCEPT ![w] = "idle"]
        /\ copy' = [copy EXCEPT ![w] = Default]
    BY <1>t, <1>3 DEF SaveFails, DropCopy, Leave, Goto
  <2>2. running = "on"
    BY <1>t, <2>1
  <2>3. ValueBar' = ValueBar
    BY <2>1, <2>2 DEF ValueBar
  <2>4. PlanBar[w] # {} /\ PlanBar' = [PlanBar EXCEPT ![w] = {}]
    BY <1>t, <2>1 DEF PlanBar
  <2>5. DamagedBar' \in {DamagedBar, TRUE}
    BY <1>t, <1>3 DEF SaveFails, DropCopy, Leave, DamagedBar
  <2> QED BY <2>3, <2>4, <2>5 DEF Register!Next, Register!Refuse
<1>4. CASE SaveFails(Boot)
  <2>1. /\ pc[Boot] \in {"save", "truncated"} /\ pc' = [pc EXCEPT ![Boot] = "idle"]
        /\ running' = "off" /\ running = "booting" /\ UNCHANGED legacy
        /\ met' = met \ {Boot}
        /\ astray' = (astray \/ pc[Boot] = "truncated")
        /\ pc[Boot] = "save" => file' = file
    BY <1>t, <1>4 DEF SaveFails, Leave, Goto
  <2>2. PlanBar' = Register!NoPlans
    BY <1>t, <2>1 DEF PlanBar, Register!NoPlans
  <2>3. ASSUME ~DamagedBar' PROVE ~DamagedBar /\ ValueBar' = ValueBar
    <3>1. ~astray /\ met = {} /\ pc[Boot] = "save" /\ file' = file
      BY <1>t, <2>1, <2>3 DEF DamagedBar
    <3>2. Expected = copy[Boot] /\ file # Garbled
      BY <2>1, <3>1 DEF SaveInv, BootSavesExpected, OnlyStrayFilesGarble, DamagedBar
    <3> QED BY <2>1, <3>1, <3>2 DEF ValueBar, Expected, DamagedBar
  <2> QED BY <1>v, <2>2, <2>3 DEF Register!Next, Register!End
<1>5. ASSUME NEW w \in Writers, NEW settings \in Requests, Update(w, settings)
      PROVE  Register!Next
  <2>1. /\ UNCHANGED <<running, active, met, astray>> /\ running = "on"
        /\ pc[w] = "idle" /\ pc' = [pc EXCEPT ![w] = "save"]
        /\ copy' = [copy EXCEPT ![w] = Apply(active, settings)]
        /\ sent' = [sent EXCEPT ![w] = settings]
    BY <1>5 DEF Update, Goto, histories
  <2>2. ValueBar' = ValueBar /\ ValueBar = active /\ DamagedBar' = DamagedBar
    BY <2>1 DEF ValueBar, DamagedBar
  <2>3. settings \in Partial(Values)
    BY <1>5, ValidIsSendable, RequestsAssumption DEF Update
  <2>4. /\ PlanBar[w] = {}
        /\ PlanBar' = [PlanBar EXCEPT ![w] = {Register!Overlay(ValueBar, settings)}]
    BY <1>t, <2>1, <2>2, OverlayIsApply DEF PlanBar
  <2> QED BY <2>2, <2>3, <2>4 DEF Register!Next, Register!Ask
<1>6. ASSUME NEW w \in Writers, NEW settings \in Requests, EditCopy(w, settings)
      PROVE  Register!Next
  <2>1. /\ UNCHANGED <<running, active, met, astray>> /\ running = "on"
        /\ pc[w] = "editing" /\ pc' = [pc EXCEPT ![w] = "save"]
        /\ copy' = [copy EXCEPT ![w] = Apply(copy[w], settings)]
    BY <1>t, <1>6 DEF EditCopy, Goto, histories
  <2>2. ValueBar' = ValueBar /\ DamagedBar' = DamagedBar
    BY <2>1 DEF ValueBar, DamagedBar
  <2>3. settings \in Partial(Values)
    BY <1>6, ValidIsSendable, RequestsAssumption DEF EditCopy
  <2>4. /\ copy[w] \in PlanBar[w]
        /\ PlanBar' = [PlanBar EXCEPT ![w] = {Register!Overlay(copy[w], settings)}]
    BY <1>t, <2>1, OverlayIsApply DEF PlanBar
  <2> QED BY <2>2, <2>3, <2>4 DEF Register!Next, Register!Revise
<1>7. ASSUME NEW w \in Writers, TakeCopy(w) PROVE Register!Next
  <2>1. /\ UNCHANGED <<running, active, met, astray>> /\ running = "on"
        /\ pc[w] = "idle" /\ pc' = [pc EXCEPT ![w] = "editing"]
        /\ copy' = [copy EXCEPT ![w] = active]
    BY <1>7 DEF TakeCopy, Goto, histories
  <2>2. ValueBar' = ValueBar /\ ValueBar = active /\ DamagedBar' = DamagedBar
    BY <2>1 DEF ValueBar, DamagedBar
  <2>3. Apply(active, Empty.settings) = active
    BY FileKinds DEF Apply, Empty, TypeOK, Config
  <2>4. /\ PlanBar[w] = {}
        /\ PlanBar' = [PlanBar EXCEPT ![w] = {Register!Overlay(ValueBar, Empty.settings)}]
    BY <1>t, <2>1, <2>2, <2>3, OverlayIsApply DEF PlanBar
  <2> QED BY <2>2, <2>4, NothingIsSendable DEF Register!Next, Register!Ask
<1>8. ASSUME NEW w \in Writers, Replace(w) PROVE Register!Next
  <2>1. /\ running' = running
        /\ pc[w] = "saved" /\ pc' = [pc EXCEPT ![w] = "idle"] /\ active' = copy[w]
        /\ copy' = [copy EXCEPT ![w] = Default]
        /\ met' = met \ {w} /\ astray' = (astray \/ w \in met)
    BY <1>8 DEF Replace, Leave, Goto
  <2>2. running = "on"
    BY <1>t, <2>1
  <2>3. ValueBar' \in PlanBar[w]
    BY <2>1, <2>2 DEF ValueBar, PlanBar
  <2>4. PlanBar' = [PlanBar EXCEPT ![w] = {}]
    BY <1>t, <2>1 DEF PlanBar
  <2>5. DamagedBar' = DamagedBar
    <3>1. CASE w \in met
      BY <2>1, <3>1 DEF DamagedBar
    <3>2. CASE w \notin met
      <4>1. met' = met /\ astray' = astray
        BY <1>t, <2>1, <3>2
      <4> QED BY <4>1 DEF DamagedBar
    <3> QED BY <3>1, <3>2
  <2> QED BY <2>3, <2>4, <2>5 DEF Register!Next, Register!Grant
<1>9. ASSUME running = "off", file # Garbled, UNCHANGED <<file, legacy>>, SaveFirst(Expected)
      PROVE  UNCHANGED <<ValueBar, PlanBar, DamagedBar>>
  <2>1. /\ copy' = [copy EXCEPT ![Boot] = Expected] /\ UNCHANGED <<met, astray>>
        /\ pc' = [pc EXCEPT ![Boot] = "save"] /\ running' = "booting"
    BY <1>9 DEF SaveFirst, Goto, histories
  <2>2. ValueBar' = ValueBar
    BY <1>t, <1>9, <2>1 DEF ValueBar
  <2>3. PlanBar' = PlanBar
    BY <1>t, <2>1 DEF PlanBar
  <2> QED BY <2>1, <2>2, <2>3 DEF DamagedBar
<1>10. ASSUME ValueBar' = ValueBar, ~astray', met' = met, met = {}, PlanBar' = PlanBar
       PROVE  Register!Next
  BY <1>10 DEF DamagedBar, Register!Next, Register!Repair
<1>11. CASE LoadFile
  <2>1. /\ running = "off" /\ file.kind = "toml" /\ UNCHANGED <<file, legacy>>
    BY <1>11 DEF LoadFile
  <2>2. file # Garbled /\ Expected = Loaded(file.settings)
    BY <2>1, FileKinds DEF Expected
  <2>3. CASE IsLegacyServer(file.settings)
    BY <1>9, <1>11, <2>1, <2>2, <2>3 DEF LoadFile
  <2>4. CASE ~IsLegacyServer(file.settings)
    <3>1. /\ active' = Loaded(file.settings) /\ running' = "on" /\ ~astray'
          /\ UNCHANGED <<pc, copy, met>>
      BY <1>11, <2>4 DEF LoadFile, PutInForce, updates
    <3>2. ValueBar' = ValueBar /\ PlanBar' = PlanBar
      BY <2>1, <2>2, <3>1 DEF ValueBar, PlanBar
    <3> QED BY <1>t, <1>10, <2>1, <3>1, <3>2
  <2> QED BY <2>3, <2>4
<1>12. CASE CreateFile
  BY <1>9, <1>12, FileKinds DEF CreateFile
<1>13. CASE Booted
  <2>1. /\ pc[Boot] = "saved" /\ running' = "on" /\ active' = copy[Boot] /\ ~astray'
        /\ pc' = [pc EXCEPT ![Boot] = "idle"] /\ copy' = [copy EXCEPT ![Boot] = Default]
        /\ met' = met \ {Boot}
    BY <1>13 DEF Booted, PutInForce, Leave, Goto
  <2>2. running = "booting"
    BY <1>t, <2>1
  <2>3. ValueBar' = ValueBar
    BY <2>1, <2>2 DEF ValueBar
  <2>4. PlanBar' = PlanBar
    BY <1>t, <2>1 DEF PlanBar
  <2> QED BY <1>t, <1>10, <2>1, <2>2, <2>3, <2>4
<1>14. CASE Stop
  <2>1. PlanBar' = Register!NoPlans
    BY <1>t, <1>14 DEF Stop, PlanBar, Register!NoPlans
  <2>2. CASE ~DamagedBar'
    BY <1>14, <2>1, <2>2, EndIsExact DEF Register!Next, Register!End
  <2>3. CASE DamagedBar'
    BY <1>v, <2>1, <2>3 DEF Register!Next, Register!End
  <2> QED BY <2>2, <2>3
<1>15. CASE LoadFails \/ UNCHANGED vars
  <2>1. UNCHANGED <<file, legacy, running, active, pc, copy, met, astray>>
    BY <1>15 DEF LoadFails, vars, updates, histories
  <2>2. ValueBar' = ValueBar
    BY <2>1 DEF ValueBar, Expected
  <2>3. PlanBar' = PlanBar /\ DamagedBar' = DamagedBar
    BY <2>1 DEF PlanBar, DamagedBar
  <2> QED BY <2>2, <2>3
<1> DEFINE Matched == Register!Next \/ UNCHANGED <<ValueBar, PlanBar, DamagedBar>>
<1>16. \A a \in Actors : Truncate(a) \/ Write(a) \/ SaveFails(a) => Matched
  BY <1>1, <1>2, <1>3, <1>4 DEF Actors
<1>17. \A w \in Writers :
          \/ \E settings \in Requests : Update(w, settings) \/ EditCopy(w, settings)
          \/ TakeCopy(w) \/ DropCopy(w) \/ Replace(w)
          => Matched
  BY <1>3, <1>5, <1>6, <1>7, <1>8
<1>18. LoadFile \/ CreateFile \/ LoadFails \/ Booted \/ Stop \/ UNCHANGED vars => Matched
  BY <1>11, <1>12, <1>13, <1>14, <1>15
<1> HIDE DEF Matched
<1>19. Matched
  BY ONLY <1>16, <1>17, <1>18, [Next]_vars DEF Next
<1> QED BY <1>19 DEF Matched

\* The configuration is a register that outlives the program: each update puts in
\* force as a whole what it planned from a configuration that was in force, or
\* nothing, and the end of the program, wherever it comes, leaves the register
\* before or after one update under way, unless a save was cut short or two met.
THEOREM UpdatesAreAtomic == Spec => ImplementsRegister
<1>1. Init => Register!Init
  <2> SUFFICES ASSUME Init PROVE Register!Init
    OBVIOUS
  <2>1. ValueBar \in [Fields -> Values \cup BadValues]
    BY TypeInit, ValueIsConfiguration
  <2>2. PlanBar = Register!NoPlans /\ DamagedBar = FALSE
    BY DEF Init, PlanBar, DamagedBar, Register!NoPlans, Actors
  <2> QED BY <2>1, <2>2 DEF Register!Init
<1> QED
  BY <1>1, RegisterStep, SavesInOrder, ConfigTypeCorrect, PTL
     DEF Spec, ImplementsRegister, Register!Spec
=============================================================================
