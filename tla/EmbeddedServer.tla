---------------------------- MODULE EmbeddedServer ----------------------------
(***************************************************************************)
(* The life of the HTTP service inside the desktop program: start at       *)
(* set-up, restart from the settings page or the tray, the task that runs  *)
(* server::serve, and the certificate files that task creates.             *)
(*                                                                         *)
(* A start happens in the main thread, which aborts the previous task,     *)
(* probes the address and spawns the next task; the task reads the         *)
(* configuration again and binds the address itself.  An abort reaches a   *)
(* task only where it awaits, so the two can overlap.                      *)
(***************************************************************************)
EXTENDS Naturals

CONSTANTS
    Addresses,   \* what server.host and server.port resolve to
    Configured,  \* the address in the configuration the program loads first
    MaxStarts,   \* bound: tasks spawned
    MaxChanges,  \* bound: configurations replaced, addresses taken by others
    NoTask,      \* server_task is None
    Free,        \* nobody listens on the address
    Other,       \* a listener of another program
    Absent,      \* the file does not exist
    Partial,     \* the file was truncated and not yet written
    Former       \* a pair created by an earlier run of the program

Tasks == 1..MaxStarts

ASSUME BoundsAssumption == MaxStarts \in Nat /\ MaxChanges \in Nat
ASSUME ConfiguredAssumption == Configured \in Addresses
ASSUME NamesAssumption ==
    /\ {NoTask, Free, Other, Absent, Partial, Former} \cap Nat = {}
    /\ Free # Other
    /\ Absent \notin {Partial, Former} /\ Partial # Former

VARIABLES
    config,       \* host, port and https of the active configuration
    changes,      \* how often it was replaced or an address was taken
    main,         \* where the main thread is in start_embedded_server
    target,       \* the address it read
    server_task,  \* DesktopState::server_task
    last_error,   \* DesktopState::last_restart_error is Some
    starts,       \* tasks spawned so far: task n is the n-th
    aborted,      \* the tasks whose handle was aborted
    pc,           \* where each task is in serve
    local,        \* the address of the configuration the task read
    bound,        \* who listens on each address
    cert, key,    \* certs/localhost.crt and .key: the task that wrote them
    undisturbed,  \* not in the code: nothing came between the last probe and
                  \* the binding that follows it, no other party and no
                  \* refusal of the operating system
    interrupted   \* not in the code: a generation stopped and left a broken pair,
                  \* or two of them overlapped

mainVars == <<main, target, server_task, last_error, starts, aborted>>
fileVars == <<cert, key, interrupted>>
vars == <<config, changes, mainVars, pc, local, bound, fileVars, undisturbed>>

Config == [address : Addresses, https : BOOLEAN]
Generating == {"creating", "certOpen", "certDone", "keyOpen"}
Starting == {"spawned", "checking", "loading", "binding"} \cup Generating
Ended == {"dropped", "unresolved", "tlsFailed", "bindFailed"}
Alive == Starting \cup {"listening"}

\* Where serve awaits: an aborted task is dropped there and nowhere else.
Suspended == {"spawned", "loading", "listening"}

Material == Tasks \cup {Absent, Partial, Former}

TypeOK ==
    /\ config \in Config
    /\ changes \in 0..MaxChanges
    /\ main \in {"setup", "idle", "probing"}
    /\ target \in Addresses
    /\ server_task \in Tasks \cup {NoTask}
    /\ last_error \in BOOLEAN
    /\ starts \in 0..MaxStarts
    /\ aborted \subseteq Tasks
    /\ pc \in [Tasks -> {"unused"} \cup Alive \cup Ended]
    /\ local \in [Tasks -> Addresses]
    /\ bound \in [Addresses -> Tasks \cup {Free, Other}]
    /\ cert \in Material
    /\ key \in Material
    /\ undisturbed \in BOOLEAN
    /\ interrupted \in BOOLEAN

Init ==
    /\ config \in [address : {Configured}, https : BOOLEAN]
    /\ changes = 0
    /\ main = "setup"
    /\ target = config.address
    /\ server_task = NoTask
    /\ last_error = FALSE
    /\ starts = 0
    /\ aborted = {}
    /\ pc = [t \in Tasks |-> "unused"]
    /\ local = [t \in Tasks |-> config.address]
    /\ bound = [a \in Addresses |-> Free]
    /\ cert \in {Absent, Former}
    /\ key = cert
    /\ undisturbed = TRUE
    /\ interrupted = FALSE

-----------------------------------------------------------------------------
(* The main thread: setup, restart_server and the tray entry.  Commands and  *)
(* menu events run there one at a time, so the mutex of server_task is free. *)

\* The host name cannot be resolved: bind_address fails before anything is
\* touched, and the running server stays.
ResolveFails ==
    /\ main \in {"setup", "idle"}
    /\ main' = "idle"
    /\ last_error' = TRUE
    /\ UNCHANGED <<config, changes, target, server_task, starts, aborted,
                   pc, local, bound, fileVars, undisturbed>>

\* Wrong variant: the old handle is dropped, which detaches its task.
StartDetaching ==
    /\ main \in {"setup", "idle"}
    /\ starts < MaxStarts
    /\ main' = "probing"
    /\ target' = config.address
    /\ server_task' = NoTask
    /\ UNCHANGED <<config, changes, last_error, starts, aborted, pc, local,
                   bound, fileVars, undisturbed>>

\* take(), abort() and the sleep; the previous task may end in that time or not.
Start ==
    /\ main \in {"setup", "idle"}
    /\ starts < MaxStarts
    /\ main' = "probing"
    /\ target' = config.address
    /\ aborted' = aborted \cup ({server_task} \ {NoTask})
    /\ server_task' = NoTask
    /\ UNCHANGED <<config, changes, last_error, starts, pc, local, bound,
                   fileVars, undisturbed>>

\* Wrong variant: the failure is only logged.
ProbeFailsSilently ==
    /\ main = "probing"
    /\ bound[target] # Free
    /\ main' = "idle"
    /\ UNCHANGED <<config, changes, target, server_task, last_error, starts,
                   aborted, pc, local, bound, fileVars, undisturbed>>

\* Another program has the address, or the aborted server still does: Err, and
\* no server from now on.
ProbeFails ==
    /\ main = "probing"
    /\ bound[target] # Free
    /\ main' = "idle"
    /\ last_error' = TRUE
    /\ UNCHANGED <<config, changes, target, server_task, starts, aborted,
                   pc, local, bound, fileVars, undisturbed>>

\* Wrong variant: the handle kept is that of the task before.
SpawnKeepingPrevious ==
    LET t == starts + 1 IN
    /\ main' = "idle"
    /\ last_error' = FALSE
    /\ starts' = t
    /\ server_task' = starts
    /\ pc' = [pc EXCEPT ![t] = "spawned"]
    /\ undisturbed' = TRUE
    /\ UNCHANGED <<config, changes, target, aborted, local, bound, fileVars>>

Spawn ==
    LET t == starts + 1 IN
    /\ main' = "idle"
    /\ last_error' = FALSE
    /\ starts' = t
    /\ server_task' = t
    /\ pc' = [pc EXCEPT ![t] = "spawned"]
    /\ undisturbed' = /\ config.address = target
                       /\ \A u \in aborted : pc[u] \in Ended
    /\ UNCHANGED <<config, changes, target, aborted, local, bound, fileVars>>

\* Wrong variant: no probe.
SpawnAnyway == main = "probing" /\ Spawn

\* The probe binds the address and lets go of it; Ok(()) means no more than that.
ProbeSucceeds == main = "probing" /\ bound[target] = Free /\ Spawn

-----------------------------------------------------------------------------
(* A task: server::serve.  Its first poll goes on to the first await without *)
(* a pause: past the binding with http, up to the loading with https.        *)

Goto(t, next) == pc' = [pc EXCEPT ![t] = next]

\* serve reads the configuration again, after the probe.
ReadConfig(t) ==
    /\ pc[t] = "spawned"
    /\ local' = [local EXCEPT ![t] = config.address]
    /\ Goto(t, IF config.https THEN "checking" ELSE "binding")
    /\ UNCHANGED <<config, changes, mainVars, bound, fileVars, undisturbed>>

\* from_pem_file accepts a pair written whole by one generation.
Loadable(c, k) == c = k /\ c \notin {Absent, Partial}

\* A pair that is there and will never load.
Broken(c, k) == c # Absent /\ k # Absent /\ ~Loadable(c, k)

\* Wrong variant: one of the two files is enough.
CheckEitherFile(t) ==
    /\ pc[t] = "checking"
    /\ Goto(t, IF cert # Absent \/ key # Absent THEN "loading" ELSE "creating")
    /\ UNCHANGED <<config, changes, mainVars, local, bound, fileVars, undisturbed>>

\* ensure_certificate_files only asks whether both files are there.
CheckFiles(t) ==
    /\ pc[t] = "checking"
    /\ Goto(t, IF cert # Absent /\ key # Absent THEN "loading" ELSE "creating")
    /\ UNCHANGED <<config, changes, mainVars, local, bound, fileVars, undisturbed>>

\* fs::write truncates, then writes; first the certificate, then the key.  An
\* aborted predecessor may still be inside, since nothing here awaits.
WriteCertificate(t) ==
    /\ \/ /\ pc[t] = "creating"
          /\ cert' = Partial
          /\ Goto(t, "certOpen")
          /\ interrupted' = (interrupted \/ \E u \in Tasks \ {t} : pc[u] \in Generating)
       \/ /\ pc[t] = "certOpen"
          /\ cert' = t
          /\ Goto(t, "certDone")
          /\ UNCHANGED interrupted
    /\ UNCHANGED <<config, changes, mainVars, local, bound, key, undisturbed>>

WriteKey(t) ==
    /\ \/ /\ pc[t] = "certDone"
          /\ key' = Partial
          /\ Goto(t, "keyOpen")
       \/ /\ pc[t] = "keyOpen"
          /\ key' = t
          /\ Goto(t, "loading")
    /\ UNCHANGED <<config, changes, mainVars, local, bound, cert, interrupted,
                   undisturbed>>

\* The directory, a write or the permissions of the key: serve ends with an
\* error that is only logged.
GenerationFails(t) ==
    /\ pc[t] \in Generating
    /\ Goto(t, "tlsFailed")
    /\ \/ UNCHANGED key
       \/ pc[t] = "keyOpen" /\ key' = t
    /\ interrupted' = (interrupted \/ Broken(cert, key'))
    /\ undisturbed' = (undisturbed /\ t # server_task)
    /\ UNCHANGED <<config, changes, mainVars, local, bound, cert>>

Load(t) ==
    /\ pc[t] = "loading"
    /\ Goto(t, IF Loadable(cert, key) THEN "binding" ELSE "tlsFailed")
    /\ UNCHANGED <<config, changes, mainVars, local, bound, fileVars, undisturbed>>

Bind(t) ==
    LET address == local[t] IN
    /\ pc[t] = "binding"
    /\ \/ /\ bound[address] = Free
          /\ bound' = [bound EXCEPT ![address] = t]
          /\ Goto(t, "listening")
       \/ /\ bound[address] # Free
          /\ Goto(t, "bindFailed")
          /\ UNCHANGED bound
    /\ UNCHANGED <<config, changes, mainVars, local, fileVars, undisturbed>>

\* The operating system refuses what it granted before, or what is there: the
\* second bind_address, the certificate directory, a file of a pair that is
\* good, a socket.  serve ends with an error that is only logged.
SystemRefuses(t) ==
    /\ \/ pc[t] = "spawned" /\ Goto(t, "unresolved")
       \/ pc[t] \in {"checking", "loading"} /\ Goto(t, "tlsFailed")
       \/ pc[t] = "binding" /\ Goto(t, "bindFailed")
    /\ undisturbed' = (undisturbed /\ t # server_task)
    /\ UNCHANGED <<config, changes, mainVars, local, bound, fileVars>>

Released(dropped) ==
    [a \in Addresses |-> IF bound[a] \in dropped THEN Free ELSE bound[a]]

\* Wrong variant: a server that listens ignores the abort.
DropStarting(t) ==
    /\ t \in aborted
    /\ pc[t] \in {"spawned", "loading"}
    /\ Goto(t, "dropped")
    /\ UNCHANGED <<config, changes, mainVars, local, bound, fileVars, undisturbed>>

\* The runtime drops the future of an aborted task and with it the listener.
Drop(t) ==
    /\ t \in aborted
    /\ pc[t] \in Suspended
    /\ Goto(t, "dropped")
    /\ bound' = Released({t})
    /\ UNCHANGED <<config, changes, mainVars, local, fileVars, undisturbed>>

-----------------------------------------------------------------------------
(* Everybody else. *)

\* replace_config, from a handler or a command; no server is restarted.
ReplaceConfig ==
    /\ changes < MaxChanges
    /\ changes' = changes + 1
    /\ config' \in Config
    /\ undisturbed' = /\ undisturbed
                       /\ \A t \in Tasks : pc[t] = "spawned" =>
                              config'.address = config.address
    /\ UNCHANGED <<mainVars, pc, local, bound, fileVars>>

\* External: another program takes an address or leaves it.
OtherBinds(a) ==
    /\ changes < MaxChanges
    /\ changes' = changes + 1
    /\ bound[a] = Free
    /\ bound' = [bound EXCEPT ![a] = Other]
    /\ undisturbed' = (undisturbed /\ \A t \in Tasks : pc[t] \notin Starting)
    /\ UNCHANGED <<config, mainVars, pc, local, fileVars>>

OtherLeaves(a) ==
    /\ bound[a] = Other
    /\ bound' = [bound EXCEPT ![a] = Free]
    /\ UNCHANGED <<config, changes, mainVars, pc, local, fileVars, undisturbed>>

\* The program ends, by the tray's quit or otherwise, and is started again: the
\* kernel closes the listeners, the files stay as they are.
Exit ==
    /\ main # "setup"
    /\ main' = "setup"
    /\ server_task' = NoTask
    /\ last_error' = FALSE
    /\ pc' = [t \in Tasks |-> IF pc[t] \in Alive THEN "dropped" ELSE pc[t]]
    /\ bound' = Released(Tasks)
    /\ interrupted' = (interrupted \/ Broken(cert, key))
    /\ UNCHANGED <<config, changes, target, starts, aborted, local, cert, key,
                   undisturbed>>

TaskStep(t) ==
    \/ ReadConfig(t)
    \/ CheckFiles(t)
    \/ WriteCertificate(t)
    \/ WriteKey(t)
    \/ Load(t)
    \/ Bind(t)
    \/ Drop(t)

TaskFails(t) == GenerationFails(t) \/ SystemRefuses(t)

MainStep == ProbeFails \/ ProbeSucceeds

Next ==
    \/ ResolveFails
    \/ Start
    \/ MainStep
    \/ \E t \in Tasks : TaskStep(t) \/ TaskFails(t)
    \/ ReplaceConfig
    \/ \E a \in Addresses : OtherBinds(a) \/ OtherLeaves(a)
    \/ Exit

\* The runtime polls a task that is ready and drops one that was aborted.
\* Nobody has to restart anything.
Spec ==
    /\ Init
    /\ [][Next]_vars
    /\ WF_vars(MainStep)
    /\ \A t \in Tasks : WF_vars(TaskStep(t))

-----------------------------------------------------------------------------
(* Properties. *)

\* No restart leaves a server behind that the next one could not stop: the task
\* in server_task is the only one alive that was not told to end, although its
\* handle is taken out before anything is known of the next server.
NoForgottenServer ==
    \A t \in Tasks : pc[t] \in Alive /\ t \notin aborted => t = server_task

\* When there is no server task there is an error to show for it
\* (get_server_startup_error): a restart that stopped the old server and could
\* not start the new one never looks like a success.
StoppedMeansReported ==
    main = "idle" /\ server_task = NoTask => last_error

\* ui/app.js:425-442 shows "Activo" when no error is recorded.  The record is
\* made before serve has read a configuration or bound anything, and what serve
\* meets is only logged.  The record is true all the same unless something came
\* in between: another program or an unfinished predecessor on the address, a
\* new configuration, a refusal of the operating system (a name, a file, a
\* socket), or certificate files that were left half written.  Without those no
\* pair fails to load and no address is taken when the task gets there.
NoErrorMeansServing ==
    main = "idle" /\ ~last_error =>
        /\ server_task # NoTask
        /\ \/ pc[server_task] \in Alive
           \/ ~undisturbed
           \/ interrupted

\* README.md:191: the service generates its certificate by itself.  A pair that
\* is there is never generated again, so it must be a good one; only a
\* generation that stopped inside the key file, or two at once, leave another.
StoredPairLoads ==
    (\E t \in Tasks : pc[t] = "loading") /\ ~interrupted =>
        Loadable(cert, key) \/ \E u \in Tasks : pc[u] \in Generating

\* A server that was told to end lets go of its address, and every start comes
\* to a server that listens or to an error.
ServersSettle ==
    \A t \in Tasks :
        /\ t \in aborted ~> pc[t] \in Ended
        /\ pc[t] = "spawned" ~> pc[t] \in Ended \cup {"listening"}
=============================================================================
