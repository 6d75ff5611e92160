----------------------------- MODULE ConfigStore -----------------------------
(***************************************************************************)
(* The configuration of config/mod.rs: the active copy every handler and   *)
(* desktop command reads, and config.toml.  An update clones the active    *)
(* configuration, edits the clone, writes the whole of it to the file and  *)
(* only then replaces the active one; no lock spans those steps.           *)
(*                                                                         *)
(* A configuration is a function from settings to values.  The file holds  *)
(* a function on SOME settings, the others being filled with defaults when *)
(* it is loaded: the empty function is the file fs::write has truncated    *)
(* and not yet filled.                                                     *)
(***************************************************************************)
EXTENDS Naturals

CONSTANTS
    Writers,      \* the handlers and commands that may be updating
    Fields,       \* the settings, "https", "port" and "pin_env" among them
    Values,       \* the values validate() accepts
    BadValues,    \* the values validate() refuses
    Default,      \* AppConfig::default()
    LegacyPort,   \* LEGACY_DEFAULT_SERVER_PORT
    LegacyPinEnv, \* "MINI_FIRMADOR_DEV_PIN"
    Requests,     \* the settings a request may send
    Originals     \* what the files may hold before the first start

Config == [Fields -> Values]
Partial(V) == UNION {[S -> V] : S \in SUBSET Fields}
Stored == [kind : {"toml"}, settings : Partial(Values \cup BadValues)]
Absent == [kind |-> "absent"]
Garbled == [kind |-> "garbled"]
Toml(settings) == [kind |-> "toml", settings |-> settings]
Empty == Toml([f \in {} |-> LegacyPort])
File == Stored \cup {Absent, Garbled}

ASSUME DefaultAssumption == Default \in Config
ASSUME FieldsAssumption == {"https", "port", "pin_env"} \subseteq Fields
ASSUME PortAssumption == LegacyPort \in Values /\ Default["port"] # LegacyPort
ASSUME PinEnvAssumption == LegacyPinEnv \in Values /\ Default["pin_env"] # LegacyPinEnv
ASSUME RequestsAssumption == Requests \subseteq Partial(Values \cup BadValues)
ASSUME ValuesAssumption == Values \cap BadValues = {}
ASSUME OriginalsAssumption == Originals \subseteq Stored \cup {Absent}
ASSUME WritersAssumption == "load" \notin Writers

VARIABLES
    file,      \* config.toml
    legacy,    \* config.toml of the program's former name
    running,   \* "off", "booting" (AppConfig::load) or "on"
    active,    \* AppState.config; while not "on", the settings last active
    pc,        \* where each writer, or the load, is
    copy,      \* the configuration it is about to save
    sent,      \* the settings its request asked to change
    met,       \* history: the writers between truncation and replacement whose
               \* stay there overlaps another one's
    astray,    \* history: a save cut short with the file truncated, or two
               \* that met, have left the file to itself, and neither a save
               \* of one writer alone nor a start has made up for it
    unfinished \* history: what the updates under way when the program ended
               \* were about to save

Boot == "load"
Actors == Writers \cup {Boot}
updates == <<pc, copy, sent>>
histories == <<met, astray, unfinished>>
vars == <<file, legacy, running, active, updates, histories>>

Saving == {"save", "truncated"}

\* From the truncation of the file to the end of the update.
Section == {"truncated", "saved"}

TypeOK ==
    /\ file \in File
    /\ legacy \in Stored \cup {Absent}
    /\ running \in {"off", "booting", "on"}
    /\ active \in Config
    /\ pc \in [Actors -> {"idle", "editing", "saved"} \cup Saving]
    /\ copy \in [Actors -> Config]
    /\ sent \in [Actors -> Partial(Values)]
    /\ met \subseteq {w \in Writers : pc[w] \in Section}
    /\ astray \in BOOLEAN
    /\ unfinished \subseteq Config
    /\ running # "on" => \A w \in Writers : pc[w] = "idle"
    /\ running # "booting" => pc[Boot] = "idle"

-----------------------------------------------------------------------------
(* Pure operations. *)

\* apply_update() and the commands' assignments: the settings given, over
\* config.  It is also what serde does with a file, over the defaults.
Apply(config, settings) ==
    [f \in Fields |-> IF f \in DOMAIN settings THEN settings[f] ELSE config[f]]

\* Wrong variant: no validation.
NeverRefused(config) == TRUE

Valid(config) == \A f \in Fields : config[f] \in Values

\* load(): a server table written before https existed, at its old port,
\* moves to the new defaults.
IsLegacyServer(settings) ==
    "https" \notin DOMAIN settings
    /\ Apply(Default, settings)["port"] = LegacyPort

Loaded(settings) ==
    IF IsLegacyServer(settings)
    THEN [Apply(Default, settings) EXCEPT !["port"] = Default["port"]]
    ELSE Apply(Default, settings)

\* The configuration the former program left: the variable its PIN is read
\* from had another default name then.
TakenOver(settings) ==
    LET config == Apply(Default, settings)
    IN  IF config["pin_env"] = LegacyPinEnv
        THEN [config EXCEPT !["pin_env"] = Default["pin_env"]]
        ELSE config

\* What a start that goes well makes of the files: the program's own file,
\* else the one of its former name, else the defaults.
Expected ==
    IF file # Absent THEN Loaded(file.settings)
    ELSE IF legacy # Absent THEN TakenOver(legacy.settings)
    ELSE Default

Init ==
    /\ file \in Originals
    /\ legacy \in Originals
    /\ running = "off"
    /\ active = IF Valid(Expected) THEN Expected ELSE Default
    /\ pc = [a \in Actors |-> "idle"]
    /\ copy = [a \in Actors |-> Default]
    /\ sent = [a \in Actors |-> Empty.settings]
    /\ met = {}
    /\ astray = FALSE
    /\ unfinished = {}

Goto(a, label) == pc' = [pc EXCEPT ![a] = label]

\* a is done and keeps nothing.
Leave(a) ==
    /\ Goto(a, "idle")
    /\ copy' = [copy EXCEPT ![a] = Default]
    /\ sent' = [sent EXCEPT ![a] = Empty.settings]
    /\ met' = met \ {a}

-----------------------------------------------------------------------------
(* save_to(): fs::write truncates the file, then writes all of it. *)

Truncate(a) ==
    /\ pc[a] = "save"
    /\ file' = Empty
    /\ LET others == {w \in Writers \ {a} : pc[w] \in Section}
       IN  met' = IF others = {} THEN met ELSE met \cup others \cup {a}
    /\ Goto(a, "truncated")
    /\ UNCHANGED <<legacy, running, active, copy, sent, astray, unfinished>>

\* Each fs::write starts at offset 0 of a file it has emptied itself.  If
\* another one wrote in between, the end of its text may stick out behind a
\* shorter one: the text then repeats keys, which TOML refuses.
Write(a) ==
    /\ pc[a] = "truncated"
    /\ \/ file' = Toml(copy[a])
       \/ /\ file \notin {Empty, Toml(copy[a])}
          /\ file' = Garbled
    /\ astray' = (astray /\ a \in met \cup {Boot})
    /\ Goto(a, "saved")
    /\ UNCHANGED <<legacy, running, active, copy, sent, met, unfinished>>

\* Wrong variant: an error of save() is ignored and the update goes on.
SaveFailsSilently(a) ==
    /\ pc[a] \in Saving
    /\ Goto(a, "saved")
    /\ UNCHANGED <<file, legacy, running, active, copy, sent, histories>>

\* The directory or the file cannot be opened, or the disk is full after
\* some settings, perhaps in the middle of one.  `?` ends the update.
SaveFails(a) ==
    /\ pc[a] \in Saving
    /\ \/ UNCHANGED file
       \/ /\ pc[a] = "truncated" /\ file = Empty
          /\ \E S \in SUBSET Fields : file' = Toml([f \in S |-> copy[a][f]])
       \/ pc[a] = "truncated" /\ file' = Garbled
    /\ astray' = (astray \/ pc[a] = "truncated")
    /\ Leave(a)
    /\ running' = IF a = Boot THEN "off" ELSE running
    /\ UNCHANGED <<legacy, active, unfinished>>

-----------------------------------------------------------------------------
(* One update: POST /config or a desktop command. *)

\* state.config()?.apply_update(..)?, up to save().  An invalid result is
\* refused with nothing changed.
Update(w, settings) ==
    /\ running = "on"
    /\ pc[w] = "idle"
    /\ Valid(Apply(active, settings))
    /\ copy' = [copy EXCEPT ![w] = Apply(active, settings)]
    /\ sent' = [sent EXCEPT ![w] = settings]
    /\ Goto(w, "save")
    /\ UNCHANGED <<file, legacy, running, active, histories>>

\* A configuration taken now and edited later: configure_pkcs11_automatically
\* awaits the detection in between, and the settings page sends back with
\* save_config the whole configuration get_config gave it.
TakeCopy(w) ==
    /\ running = "on"
    /\ pc[w] = "idle"
    /\ copy' = [copy EXCEPT ![w] = active]
    /\ Goto(w, "editing")
    /\ UNCHANGED <<file, legacy, running, active, sent, histories>>

EditCopy(w, settings) ==
    /\ pc[w] = "editing"
    /\ Valid(Apply(copy[w], settings))
    /\ copy' = [copy EXCEPT ![w] = Apply(copy[w], settings)]
    /\ sent' = [sent EXCEPT ![w] = settings]
    /\ Goto(w, "save")
    /\ UNCHANGED <<file, legacy, running, active, histories>>

\* No driver was detected, or save() found the edited copy invalid.
DropCopy(w) ==
    /\ pc[w] = "editing"
    /\ Leave(w)
    /\ UNCHANGED <<file, legacy, running, active, astray, unfinished>>

\* Wrong variant: the configuration is put in force before it is saved.
ReplaceUnsaved(w) ==
    /\ pc[w] \in {"save", "saved"}
    /\ active' = copy[w]
    /\ astray' = (astray \/ w \in met)
    /\ Leave(w)
    /\ UNCHANGED <<file, legacy, running, unfinished>>

\* replace_config(); the cache it invalidates is TokenCache's.
Replace(w) ==
    /\ pc[w] = "saved"
    /\ active' = copy[w]
    /\ astray' = (astray \/ w \in met)
    /\ Leave(w)
    /\ UNCHANGED <<file, legacy, running, unfinished>>

-----------------------------------------------------------------------------
(* Starting and stopping. *)

PutInForce(config) ==
    /\ active' = config
    /\ running' = "on"
    /\ astray' = FALSE
    /\ unfinished' = {}

SaveFirst(config) ==
    /\ copy' = [copy EXCEPT ![Boot] = config]
    /\ Goto(Boot, "save")
    /\ running' = "booting"
    /\ UNCHANGED <<active, sent, histories>>

\* load() of an existing file: ready at once, unless the port migrates.
LoadFile ==
    /\ running = "off"
    /\ file.kind = "toml"
    /\ Valid(Loaded(file.settings))
    /\ IF IsLegacyServer(file.settings)
       THEN SaveFirst(Loaded(file.settings))
       ELSE PutInForce(Loaded(file.settings)) /\ UNCHANGED <<updates, met>>
    /\ UNCHANGED <<file, legacy>>

\* load() with no file: the former name's configuration, or the defaults,
\* is saved first.
CreateFile ==
    /\ running = "off"
    /\ file = Absent
    /\ Valid(Expected)
    /\ SaveFirst(Expected)
    /\ UNCHANGED <<file, legacy>>

\* A file that does not parse or validate: the program reports it and ends.
LoadFails ==
    /\ running = "off"
    /\ \/ file = Garbled
       \/ file # Garbled /\ ~Valid(Expected)
    /\ UNCHANGED vars

Booted ==
    /\ pc[Boot] = "saved"
    /\ PutInForce(copy[Boot])
    /\ Leave(Boot)
    /\ UNCHANGED <<file, legacy>>

\* The process ends, by "quit" or by a signal, wherever it is.
Stop ==
    /\ running # "off"
    /\ running' = "off"
    /\ astray' = (astray \/ met # {} \/ \E a \in Actors : pc[a] = "truncated")
    /\ unfinished' = unfinished \cup {copy[w] : w \in {v \in Writers : pc[v] # "idle"}}
    /\ met' = {}
    /\ pc' = [a \in Actors |-> "idle"]
    /\ copy' = [a \in Actors |-> Default]
    /\ sent' = [a \in Actors |-> Empty.settings]
    /\ UNCHANGED <<file, legacy, active>>

Next ==
    \/ \E a \in Actors : Truncate(a) \/ Write(a) \/ SaveFails(a)
    \/ \E w \in Writers :
        \/ \E settings \in Requests : Update(w, settings) \/ EditCopy(w, settings)
        \/ TakeCopy(w) \/ DropCopy(w) \/ Replace(w)
    \/ LoadFile \/ CreateFile \/ LoadFails \/ Booted \/ Stop

Spec == Init /\ [][Next]_vars

-----------------------------------------------------------------------------
(* Properties. *)

\* An update changes no setting its request did not send, whatever happened
\* between the moment it cloned the configuration and the moment it replaced
\* it ("POST /config actualiza solo los campos enviados").
OnlySentFieldsChange ==
    [][\A w \in Writers :
        pc[w] = "saved" /\ pc'[w] = "idle" /\ running' = "on" =>
            \A f \in Fields \ DOMAIN sent[w] : active'[f] = active[f]]_vars

\* While no update is between the truncation of the file and its
\* replace_config(), the file would load as the configuration in force ("... y
\* persiste el resultado"), whatever updates, failures and restarts went
\* before.  Two things part them: a save cut short, and two updates that were
\* in that section at once, of which one may have written last and the other
\* replaced last.  The next update that is there alone brings them together
\* again, and so does a start.
SettledIsPersisted ==
    /\ running = "on"
    /\ ~astray
    /\ \A w \in Writers : pc[w] \notin Section
    => file.kind = "toml" /\ Loaded(file.settings) = active

\* After a restart each setting has the value it had when the process ended,
\* or the one an update then under way was giving it: saving never costs
\* settings that nobody asked to change ("Los cambios se guardan en ...
\* config.toml").
RestartKeepsSettings ==
    [][running # "on" /\ running' = "on" =>
        \A f \in Fields :
            active'[f] \in {active[f]} \cup {config[f] : config \in unfinished}]_vars

-----------------------------------------------------------------------------
(* The configuration as one register. *)

\* While the program runs, the configuration in force; before, the one a start
\* is about to put in force.
ValueBar ==
    CASE running = "on" -> active
      [] running = "booting" -> copy[Boot]
      [] running = "off" -> IF file = Garbled THEN Default ELSE Expected

\* An update has a plan from the clone it starts from until replace_config().
PlanBar == [w \in Writers |-> IF pc[w] = "idle" THEN {} ELSE {copy[w]}]

DamagedBar == astray \/ met # {}

Register == INSTANCE ConfigRegister WITH
    Settings <- Partial(Values),
    Configurations <- [Fields -> Values \cup BadValues],
    value <- ValueBar,
    plan <- PlanBar,
    damaged <- DamagedBar

\* However updates of several writers interleave, each is atomic to whoever
\* reads the configuration: what it planned from one configuration that was in
\* force is put in force as a whole or not at all, also when the program ends
\* in the middle and is started again, and what a failed update was about to
\* save never comes back.  Excepted is the restart after a save that was cut
\* short or that met another one, and nothing else.
ImplementsRegister == Register!Spec
=============================================================================
