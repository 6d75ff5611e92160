------------------------- MODULE EmbeddedServerProofs -------------------------
(***************************************************************************)
(* The desktop program never loses track of a server it started, and never *)
(* is without one in silence, however many restarts there are.             *)
(***************************************************************************)
EXTENDS EmbeddedServer, TLAPS

\* What start_embedded_server relies on between its steps: the handle was taken
\* out before the probe, and the bound leaves room for the task to spawn.
Probing ==
    main = "probing" => server_task = NoTask /\ starts < MaxStarts

\* Tasks are spawned in order.
NotYetSpawned == \A t \in Tasks : t > starts => pc[t] = "unused"

ServerInv ==
    /\ TypeOK /\ Probing /\ NotYetSpawned
    /\ NoForgottenServer /\ StoppedMeansReported

\* What the steps of a task leave alone, and what they can do to the task.
TaskKeeps(t) ==
    /\ UNCHANGED <<config, changes, mainVars>>
    /\ pc[t] \in Alive
    /\ \E next \in Alive \cup Ended : pc' = [pc EXCEPT ![t] = next]

\* The values a task's step can give to what the tasks share.
SharedTypes ==
    /\ local \in [Tasks -> Addresses]
    /\ bound \in [Addresses -> Tasks \cup {Free, Other}]
    /\ cert \in Material /\ key \in Material
    /\ undisturbed \in BOOLEAN /\ interrupted \in BOOLEAN

\* Each step of a task moves that task alone and never the main thread.
LEMMA TaskSteps ==
    ASSUME TypeOK, NEW t \in Tasks, TaskStep(t) \/ TaskFails(t)
    PROVE  TaskKeeps(t) /\ SharedTypes'
<1> USE DEF TypeOK, Goto, Alive, Ended, Starting, Generating, TaskKeeps, SharedTypes,
            Material, fileVars, Suspended
<1>1. CASE ReadConfig(t)
  BY <1>1 DEF ReadConfig, Config
<1>2. CASE CheckFiles(t)
  BY <1>2 DEF CheckFiles
<1>3. CASE WriteCertificate(t)
  BY <1>3 DEF WriteCertificate
<1>4. CASE WriteKey(t)
  BY <1>4 DEF WriteKey
<1>5. CASE GenerationFails(t)
  BY <1>5 DEF GenerationFails
<1>6. CASE Load(t)
  BY <1>6 DEF Load
<1>7. CASE Bind(t)
  BY <1>7 DEF Bind
<1>8. CASE Drop(t)
  BY <1>8 DEF Drop, Released
<1>9. CASE SystemRefuses(t)
  BY <1>9 DEF SystemRefuses
<1> QED
  BY <1>1, <1>2, <1>3, <1>4, <1>5, <1>6, <1>7, <1>8, <1>9, Zenon
     DEF TaskStep, TaskFails

\* The invariant holds at set-up.
LEMMA ServerInit == Init => ServerInv
<1> SUFFICES ASSUME Init PROVE ServerInv
  OBVIOUS
<1>1. config \in Config /\ config.address \in Addresses
  BY ConfiguredAssumption DEF Init, Config
<1>2. changes \in 0..MaxChanges /\ starts \in 0..MaxStarts
  BY BoundsAssumption DEF Init
<1>3. cert \in Material /\ key \in Material
  BY DEF Init, Material
<1>4. pc \in [Tasks -> {"unused"} \cup Alive \cup Ended]
  BY DEF Init
<1>5. TypeOK
  BY <1>1, <1>2, <1>3, <1>4 DEF Init, TypeOK
<1>6. NoForgottenServer
  BY DEF Init, NoForgottenServer, Alive, Starting, Generating
<1> QED
  BY <1>5, <1>6 DEF ServerInv, Init, Probing, NotYetSpawned, StoppedMeansReported

\* Each step of the main thread, of a task and of everybody else keeps it.
LEMMA ServerStep == ServerInv /\ [Next]_vars => ServerInv'
<1> SUFFICES ASSUME ServerInv, [Next]_vars PROVE ServerInv'
  OBVIOUS
<1> USE BoundsAssumption, NamesAssumption
    DEF ServerInv, Probing, NotYetSpawned, NoForgottenServer, StoppedMeansReported
<1>1. CASE ResolveFails
  BY <1>1 DEF ResolveFails, TypeOK, fileVars
<1>2. CASE Start
  BY <1>2 DEF Start, TypeOK, Config, fileVars
<1>3. CASE ProbeFails
  BY <1>3 DEF ProbeFails, TypeOK, fileVars
<1>4. CASE ProbeSucceeds
  <2> DEFINE t == starts + 1
  <2>1. /\ t \in Tasks /\ t # NoTask /\ t \in 0..MaxStarts
        /\ server_task = NoTask
    <3>1. main = "probing" /\ starts \in 0..MaxStarts
      BY <1>4 DEF ProbeSucceeds, TypeOK
    <3>2. NoTask \notin Nat
      BY NamesAssumption
    <3>3. starts < MaxStarts /\ server_task = NoTask
      BY <3>1
    <3> QED
      BY ONLY <3>1, <3>2, <3>3, BoundsAssumption DEF Tasks
  <2>2. /\ main' = "idle" /\ last_error' = FALSE /\ starts' = t /\ server_task' = t
        /\ pc' = [pc EXCEPT ![t] = "spawned"]
        /\ undisturbed' \in BOOLEAN
        /\ UNCHANGED <<config, changes, target, aborted, local, bound, fileVars>>
    BY <1>4 DEF ProbeSucceeds, Spawn
  <2> HIDE DEF t
  <2>3. TypeOK'
    BY <2>1, <2>2 DEF TypeOK, fileVars, Alive, Starting
  <2>4. NoForgottenServer'
    <3>1. ASSUME NEW u \in Tasks, u # t PROVE ~(pc'[u] \in Alive /\ u \notin aborted')
      <4>1. pc'[u] = pc[u] /\ aborted' = aborted
        BY <2>1, <2>2, <3>1 DEF TypeOK
      <4>2. u # NoTask
        BY NamesAssumption DEF Tasks
      <4> QED
        BY <2>1, <4>1, <4>2
    <3> QED
      BY <2>2, <3>1
  <2>5. NotYetSpawned'
    <3>1. ASSUME NEW u \in Tasks, u > t PROVE pc'[u] = "unused"
      <4>1. u # t /\ u > starts
        BY <3>1, <2>1 DEF t, TypeOK, Tasks
      <4> QED
        BY <4>1, <2>1, <2>2 DEF TypeOK
    <3> QED
      BY <2>2, <3>1
  <2> QED
    BY <2>1, <2>2, <2>3, <2>4, <2>5
<1>5. ASSUME NEW t \in Tasks, TaskStep(t) \/ TaskFails(t) PROVE ServerInv'
  <2>1. TaskKeeps(t) /\ SharedTypes'
    BY <1>5, TaskSteps
  <2>2. TypeOK'
    BY <2>1 DEF TaskKeeps, SharedTypes, TypeOK, mainVars
  <2>3. NoForgottenServer'
    BY <2>1 DEF TaskKeeps, mainVars, TypeOK
  <2>4. NotYetSpawned'
    BY <2>1 DEF TaskKeeps, mainVars, TypeOK, Alive, Starting, Generating
  <2> QED
    BY <2>1, <2>2, <2>3, <2>4 DEF TaskKeeps, mainVars
<1>6. CASE ReplaceConfig
  BY <1>6 DEF ReplaceConfig, TypeOK, mainVars, fileVars
<1>7. ASSUME NEW a \in Addresses, OtherBinds(a) PROVE ServerInv'
  BY <1>7 DEF OtherBinds, TypeOK, mainVars, fileVars
<1>8. ASSUME NEW a \in Addresses, OtherLeaves(a) PROVE ServerInv'
  BY <1>8 DEF OtherLeaves, TypeOK, mainVars, fileVars
<1>9. CASE Exit
  BY <1>9 DEF Exit, TypeOK, Released, Alive, Starting, Generating, Ended
<1>10. CASE UNCHANGED vars
  BY <1>10 DEF vars, mainVars, fileVars, TypeOK
<1> QED
  BY <1>1, <1>2, <1>3, <1>4, <1>5, <1>6, <1>7, <1>8, <1>9, <1>10, Zenon
     DEF Next, MainStep

\* The invariant of the main thread and its tasks.
THEOREM ServerInvariance == Spec => []ServerInv
  BY ServerInit, ServerStep, PTL DEF Spec

\* The variables keep their types.
THEOREM ServerTypes == Spec => []TypeOK
  BY ServerInvariance, PTL DEF ServerInv

\* start_embedded_server takes the old handle out before it knows whether there
\* will be a new server, and still no task lives on that nobody can abort.
THEOREM NoServerIsForgotten == Spec => []NoForgottenServer
  BY ServerInvariance, PTL DEF ServerInv

\* Whenever the main thread is done and there is no server task, the error that
\* get_server_startup_error reports is set.
THEOREM NoServerMeansError == Spec => []StoppedMeansReported
  BY ServerInvariance, PTL DEF ServerInv

-----------------------------------------------------------------------------
(* The certificate files. *)

\* The tasks that have truncated a file and are not through with both.
Writing == {"certOpen", "certDone", "keyOpen"}

\* A file never goes away again, and what is wrong with a pair is being put
\* right by the one task that writes, unless a generation was interrupted.
FilesInv ==
    /\ TypeOK
    /\ \A t \in Tasks : pc[t] \in Writing => cert # Absent
    /\ \A t \in Tasks : pc[t] = "loading" => cert # Absent /\ key # Absent
    /\ ~interrupted =>
        /\ \A t, u \in Tasks : pc[t] \in Writing /\ pc[u] \in Writing => t = u
        /\ \A t \in Tasks : pc[t] \in {"certDone", "keyOpen"} => cert = t
        /\ Broken(cert, key) => \E t \in Tasks : pc[t] \in Writing

\* A task is not one of the names of files.
LEMMA TasksAreNotNames ==
    ASSUME NEW t \in Tasks
    PROVE  t \notin {Absent, Partial, Former, NoTask, Free, Other}
  BY NamesAssumption DEF Tasks

\* A step that leaves the files and the tasks that write or load alone keeps
\* the invariant.
LEMMA FilesUntouched ==
    ASSUME FilesInv, TypeOK', UNCHANGED fileVars,
           \A t \in Tasks : pc'[t] # pc[t] =>
               pc[t] \notin Writing /\ pc'[t] \notin Writing \cup {"loading"}
    PROVE  FilesInv'
  BY DEF FilesInv, fileVars, Broken, Loadable, Writing

\* Every step keeps the invariant of the files.
LEMMA FilesStep == ServerInv /\ TypeOK' /\ FilesInv /\ [Next]_vars => FilesInv'
<1> SUFFICES ASSUME ServerInv, TypeOK', FilesInv, [Next]_vars PROVE FilesInv'
  OBVIOUS
<1>1. CASE ResolveFails \/ Start \/ ProbeFails
  BY <1>1, FilesUntouched DEF ResolveFails, Start, ProbeFails
<1>2. CASE ProbeSucceeds
  <2>1. pc' = [pc EXCEPT ![starts + 1] = "spawned"] /\ UNCHANGED fileVars
    BY <1>2 DEF ProbeSucceeds, Spawn
  <2>2. \A t \in Tasks : pc'[t] # pc[t] => t = starts + 1 /\ pc'[t] = "spawned"
    BY <2>1 DEF FilesInv, TypeOK
  <2>3. starts + 1 \in Tasks => pc[starts + 1] = "unused"
    BY DEF ServerInv, TypeOK, NotYetSpawned, Tasks
  <2> QED
    BY <2>1, <2>2, <2>3, FilesUntouched DEF Writing
<1>3. ASSUME NEW t \in Tasks, ReadConfig(t) \/ Bind(t) \/ Load(t) \/ Drop(t) \/ SystemRefuses(t)
      PROVE  FilesInv'
  <2>1. UNCHANGED fileVars
    BY <1>3 DEF ReadConfig, Bind, Load, Drop, SystemRefuses
  <2>2. /\ pc[t] \notin Writing
        /\ \E next \in {"checking", "binding", "listening"} \cup Ended :
               pc' = [pc EXCEPT ![t] = next]
    BY <1>3 DEF ReadConfig, Bind, Load, Drop, SystemRefuses, Goto, Writing, Suspended, Ended
  <2> QED
    BY <2>1, <2>2, FilesUntouched DEF FilesInv, TypeOK, Writing, Ended
<1>4. ASSUME NEW t \in Tasks, CheckFiles(t) PROVE FilesInv'
  BY <1>4 DEF CheckFiles, Goto, FilesInv, TypeOK, fileVars, Broken, Loadable, Writing
<1>5. ASSUME NEW t \in Tasks, WriteCertificate(t) PROVE FilesInv'
  BY <1>5, TasksAreNotNames, NamesAssumption
     DEF WriteCertificate, Goto, FilesInv, TypeOK, Broken, Loadable, Writing, Generating
<1>6. ASSUME NEW t \in Tasks, WriteKey(t) PROVE FilesInv'
  BY <1>6, TasksAreNotNames, NamesAssumption
     DEF WriteKey, Goto, FilesInv, TypeOK, Broken, Loadable, Writing
<1>7. ASSUME NEW t \in Tasks, GenerationFails(t) PROVE FilesInv'
  BY <1>7, TasksAreNotNames
     DEF GenerationFails, Goto, FilesInv, TypeOK, Broken, Loadable, Writing, Generating
<1>8. CASE ReplaceConfig \/ \E a \in Addresses : OtherBinds(a) \/ OtherLeaves(a)
  BY <1>8, FilesUntouched DEF ReplaceConfig, OtherBinds, OtherLeaves
<1>9. CASE Exit
  BY <1>9 DEF Exit, FilesInv, TypeOK, Alive, Starting, Generating, Writing, Broken,
     Loadable
<1>10. CASE UNCHANGED vars
  BY <1>10, FilesUntouched DEF vars, fileVars
<1> QED
  BY <1>1, <1>2, <1>3, <1>4, <1>5, <1>6, <1>7, <1>8, <1>9, <1>10, Zenon
     DEF Next, MainStep, TaskStep, TaskFails

\* At set-up both files are there, of one generation, or neither is.
LEMMA FilesInit == Init => FilesInv
<1> SUFFICES ASSUME Init PROVE FilesInv
  OBVIOUS
<1>1. TypeOK
  BY ServerInit DEF ServerInv
<1>2. ~Broken(cert, key)
  BY NamesAssumption DEF Init, Broken, Loadable
<1> QED
  BY <1>1, <1>2 DEF Init, FilesInv, Writing

\* The invariant of the certificate files.
THEOREM FilesInvariance == Spec => []FilesInv
  BY FilesInit, FilesStep, ServerInvariance, ServerTypes, PTL DEF Spec

\* A pair that a task is about to load, and will never generate again, loads,
\* or is being written at this moment, unless a generation was interrupted.
THEOREM StoredPairsLoad == Spec => []StoredPairLoads
<1>1. FilesInv => StoredPairLoads
  BY DEF FilesInv, StoredPairLoads, Broken, Writing, Generating
<1> QED
  BY <1>1, FilesInvariance, PTL

-----------------------------------------------------------------------------
(* No error means that there is a server. *)

\* Nothing but the current task can run, what it is about to bind is free, and
\* it runs.
Undisturbed ==
    /\ \A u \in Tasks \ {server_task} : pc[u] \notin Alive
    /\ pc[server_task] \in Starting => bound[target] = Free
    /\ pc[server_task] = "spawned" => config.address = target
    /\ pc[server_task] \in Starting \ {"spawned"} => local[server_task] = target
    /\ ~interrupted => pc[server_task] \in Alive

\* The current task was not told to end, and serves if nothing came in between.
ServingInv ==
    /\ aborted \subseteq 1..starts
    /\ server_task # NoTask =>
           /\ server_task \notin aborted
           /\ server_task <= starts
           /\ undisturbed => Undisturbed

\* A step of the main thread that leaves no current task keeps the invariant.
LEMMA ServingWithoutTask ==
    ASSUME server_task' = NoTask, aborted' \subseteq 1..starts'
    PROVE  ServingInv'
  BY DEF ServingInv

\* A step that leaves the tasks, their addresses and the main thread alone.
LEMMA ServingUntouched ==
    ASSUME ServingInv, UNCHANGED <<mainVars, pc, local, interrupted>>,
           undisturbed' /\ server_task # NoTask =>
               /\ undisturbed
               /\ pc[server_task] \in Starting => bound'[target] = bound[target]
               /\ pc[server_task] = "spawned" => config'.address = config.address
    PROVE  ServingInv'
  BY DEF ServingInv, Undisturbed, mainVars

\* Every step keeps it: a task that is not disturbed finds its address free and
\* its pair whole, and only the main thread tells it to end.
LEMMA ServingStep ==
    ServerInv /\ ServerInv' /\ FilesInv /\ ServingInv /\ [Next]_vars => ServingInv'
<1> SUFFICES ASSUME ServerInv, ServerInv', FilesInv, ServingInv, [Next]_vars
             PROVE  ServingInv'
  OBVIOUS
<1>1. CASE ResolveFails \/ ProbeFails
  <2>1. UNCHANGED <<config, target, server_task, starts, aborted, pc, local, bound,
                    undisturbed, interrupted>>
    BY <1>1 DEF ResolveFails, ProbeFails, fileVars
  <2> QED
    BY <2>1 DEF ServingInv, Undisturbed
<1>2. CASE Start
  BY <1>2, ServingWithoutTask DEF Start, ServingInv, ServerInv, TypeOK, Tasks
<1>3. CASE ProbeSucceeds
  <2> DEFINE t == starts + 1
  <2>1. /\ server_task' = t /\ starts' = t
        /\ pc' = [pc EXCEPT ![t] = "spawned"]
        /\ undisturbed' = (config.address = target /\ \A u \in aborted : pc[u] \in Ended)
        /\ bound[target] = Free
        /\ UNCHANGED <<config, target, aborted, local, bound, interrupted>>
    BY <1>3 DEF ProbeSucceeds, Spawn, fileVars
  <2>2. t \in Nat /\ t \in Tasks /\ starts \in Nat /\ server_task = NoTask
    <3>1. main = "probing" /\ starts \in 0..MaxStarts
      BY <1>3 DEF ProbeSucceeds, ServerInv, TypeOK
    <3>2. starts < MaxStarts /\ server_task = NoTask
      BY <3>1 DEF ServerInv, Probing
    <3> QED
      BY ONLY <3>1, <3>2, BoundsAssumption DEF Tasks
  <2>3. t \notin aborted /\ aborted \subseteq 1..t
    BY <2>2 DEF ServingInv
  <2> HIDE DEF t
  <2>4. pc'[t] = "spawned" /\ \A u \in Tasks \ {t} : pc'[u] = pc[u]
    BY <2>1, <2>2 DEF ServerInv, TypeOK
  <2>5. ASSUME undisturbed', NEW u \in Tasks \ {t} PROVE pc'[u] \notin Alive
    <3>1. u # NoTask
      BY TasksAreNotNames
    <3>2. CASE u \in aborted
      BY <2>1, <2>4, <2>5, <3>2 DEF Ended, Alive, Starting, Generating
    <3>3. CASE u \notin aborted
      BY <2>2, <2>4, <3>1, <3>3 DEF ServerInv, NoForgottenServer
    <3> QED
      BY <3>2, <3>3
  <2>6. undisturbed' => Undisturbed'
    BY <2>1, <2>4, <2>5 DEF Undisturbed, Alive, Starting
  <2> QED
    BY <2>1, <2>2, <2>3, <2>6 DEF ServingInv
<1>4. ASSUME NEW t \in Tasks, TaskStep(t) \/ TaskFails(t) PROVE ServingInv'
  <2>1. TaskKeeps(t)
    BY <1>4, TaskSteps DEF ServerInv
  <2>2. /\ UNCHANGED <<config, target, server_task, aborted, starts>>
        /\ pc[t] \in Alive
        /\ \A u \in Tasks \ {t} : pc'[u] = pc[u]
    BY <2>1 DEF TaskKeeps, mainVars, ServerInv, TypeOK
  <2>3. undisturbed' => undisturbed
    BY <1>4 DEF TaskStep, TaskFails, ReadConfig, CheckFiles, WriteCertificate,
       WriteKey, Load, Bind, Drop, GenerationFails, SystemRefuses
  <2>4. interrupted => interrupted'
    BY <1>4 DEF TaskStep, TaskFails, ReadConfig, CheckFiles, WriteCertificate,
       WriteKey, Load, Bind, Drop, GenerationFails, SystemRefuses, fileVars
  <2>5. ASSUME server_task # NoTask, undisturbed' PROVE Undisturbed'
    <3>1. undisturbed /\ Undisturbed /\ server_task \notin aborted
      BY <2>3, <2>5 DEF ServingInv
    <3>2. t = server_task
      BY <2>2, <3>1 DEF Undisturbed
    <3>3. \A u \in Tasks \ {t} : pc'[u] \notin Alive
      BY <2>2, <3>1, <3>2 DEF Undisturbed
    <3>4. ~Drop(t) /\ ~TaskFails(t)
      BY <2>5, <3>1, <3>2 DEF Drop, TaskFails, GenerationFails, SystemRefuses
    <3> USE DEF Undisturbed, Goto, Alive, Starting, Generating, ServerInv, TypeOK, fileVars
    <3>5. CASE ReadConfig(t)
      BY <2>2, <3>1, <3>2, <3>3, <3>5 DEF ReadConfig
    <3>6. CASE CheckFiles(t)
      BY <2>2, <3>1, <3>2, <3>3, <3>6 DEF CheckFiles
    <3>7. CASE WriteCertificate(t)
      BY <2>2, <2>4, <3>1, <3>2, <3>3, <3>7 DEF WriteCertificate
    <3>8. CASE WriteKey(t)
      BY <2>2, <2>4, <3>1, <3>2, <3>3, <3>8 DEF WriteKey
    <3>9. CASE Load(t)
      <4>1. ~interrupted => Loadable(cert, key)
        <5>1. pc[t] = "loading" /\ \A u \in Tasks : pc[u] \notin Writing
          BY <3>1, <3>2, <3>9 DEF Load, Writing
        <5> QED
          BY <5>1 DEF FilesInv, Broken
      <4> QED
        BY <2>2, <3>1, <3>2, <3>3, <3>9, <4>1 DEF Load
    <3>10. CASE Bind(t)
      <4>1. bound[local[t]] = Free
        BY <3>1, <3>2, <3>10 DEF Bind
      <4> QED
        BY <2>2, <3>1, <3>2, <3>3, <3>10, <4>1 DEF Bind
    <3> QED
      BY <1>4, <3>4, <3>5, <3>6, <3>7, <3>8, <3>9, <3>10, Zenon DEF TaskStep
  <2> QED
    BY <2>2, <2>5 DEF ServingInv
<1>5. CASE ReplaceConfig
  <2>1. server_task # NoTask => server_task \in Tasks
    BY DEF ServerInv, TypeOK
  <2>2. UNCHANGED <<mainVars, pc, local, interrupted, bound>>
    BY <1>5 DEF ReplaceConfig, fileVars
  <2>3. undisturbed' /\ server_task # NoTask =>
            /\ undisturbed
            /\ pc[server_task] = "spawned" => config'.address = config.address
    BY <1>5, <2>1 DEF ReplaceConfig
  <2> QED
    BY <2>2, <2>3, ServingUntouched
<1>6. ASSUME NEW a \in Addresses, OtherBinds(a) PROVE ServingInv'
  <2>1. server_task # NoTask => server_task \in Tasks
    BY DEF ServerInv, TypeOK
  <2>2. UNCHANGED <<mainVars, pc, local, interrupted, config>>
    BY <1>6 DEF OtherBinds, fileVars
  <2>3. undisturbed' /\ server_task # NoTask =>
            undisturbed /\ pc[server_task] \notin Starting
    BY <1>6, <2>1 DEF OtherBinds
  <2> QED
    BY <2>2, <2>3, ServingUntouched
<1>7. ASSUME NEW a \in Addresses, OtherLeaves(a) PROVE ServingInv'
  <2>1. /\ UNCHANGED <<mainVars, pc, local, interrupted, config, undisturbed>>
        /\ bound' = [bound EXCEPT ![a] = Free]
    BY <1>7 DEF OtherLeaves, fileVars
  <2>2. bound[target] = Free => bound'[target] = Free
    BY <2>1 DEF ServerInv, TypeOK
  <2> QED
    BY <2>1, <2>2 DEF ServingInv, Undisturbed, mainVars
<1>8. CASE Exit
  BY <1>8, ServingWithoutTask DEF Exit, ServingInv
<1>9. CASE UNCHANGED vars
  BY <1>9, ServingUntouched DEF vars, mainVars, fileVars
<1> QED
  BY <1>1, <1>2, <1>3, <1>4, <1>5, <1>6, <1>7, <1>8, <1>9, Zenon
     DEF Next, MainStep

\* The invariant of the current task.
THEOREM ServingInvariance == Spec => []ServingInv
<1>1. Init => ServingInv
  BY DEF Init, ServingInv
<1> QED
  BY <1>1, ServingStep, ServerInvariance, FilesInvariance, PTL DEF Spec

\* No error means a server, though the error is cleared before serve has read
\* its configuration: what the probe found still holds when the task binds,
\* unless something came in between.
THEOREM NoErrorMeansServer == Spec => []NoErrorMeansServing
<1>1. ServerInv /\ ServingInv => NoErrorMeansServing
  BY DEF ServerInv, StoppedMeansReported, ServingInv, Undisturbed, NoErrorMeansServing
<1> QED
  BY <1>1, ServerInvariance, ServingInvariance, PTL
=============================================================================
