---------------------------- MODULE TokenWatcher ----------------------------
(***************************************************************************)
(* The background task that keeps the token cache current: the refresh at  *)
(* start-up, the PC/SC event loop and the polling loop it falls back to    *)
(* (src-tauri/src/commands.rs, core/watcher/mod.rs), composed with the     *)
(* cache and its other callers.  The task refreshes the cache as one more  *)
(* worker; PC/SC itself is external.                                       *)
(***************************************************************************)
EXTENDS TokenCache, Sequences

CONSTANTS Watcher  \* the worker that is the watcher task

ASSUME WatcherAssumption == Watcher \in Workers

VARIABLES
    attached,  \* the reader is connected
    listed,    \* the watcher's reader_names has it
    known,     \* the token at the last sync_current_state; the watcher itself
               \* remembers only whether there was one
    unseen,    \* PC/SC counted a state change the watcher has not picked up
    stage,     \* where the task is
    todo,      \* the events of one wake-up still to be handled
    previous_fingerprint,
    due        \* moves at the last event that asked for a refresh, 0 once
               \* that refresh failed: not in the code

watcherVars == <<attached, listed, known, unseen, stage, todo,
                 previous_fingerprint, due>>
vars == <<cacheVars, watcherVars>>

PollingStages == {"sleeping", "polling", "changed", "pollingDeep"}
Stages == PollingStages \cup {"startup", "warming", "arming", "waiting",
                             "handling", "removing", "refreshing"}
Events == {"deep", "remove"}
NoFingerprint == <<NoToken>>

TypeOK ==
    /\ CacheTypeOK
    /\ attached \in BOOLEAN
    /\ plugged # NoToken => attached
    /\ listed \in BOOLEAN
    /\ known \in Slot
    /\ unseen \in BOOLEAN
    /\ stage \in Stages
    /\ todo \in {<<>>} \cup {<<e>> : e \in Events} \cup (Events \X Events)
    /\ previous_fingerprint \in (Slot \X Slot) \cup {NoFingerprint}
    /\ due \in 0..MaxMoves

\* warm_token_certificate_cache starts with a deep refresh.
Init ==
    /\ CacheInit
    /\ attached \in BOOLEAN
    /\ plugged # NoToken => attached
    /\ listed = FALSE
    /\ known = NoToken
    /\ unseen = FALSE
    /\ stage = "startup"
    /\ todo = <<>>
    /\ previous_fingerprint = NoFingerprint
    /\ due = 0

-----------------------------------------------------------------------------
(* The refresh the task waits for. *)

\* state.config() is read when the refresh is asked for.
StartRefresh(o, next) ==
    /\ Request(Watcher, o)
    /\ stage' = next
    /\ UNCHANGED <<plugged, moves, configured, cache, lock, calls>>
    /\ UNCHANGED <<attached, listed, known, unseen, todo, previous_fingerprint, due>>

WarmCache ==
    /\ stage = "startup"
    /\ StartRefresh("force", "warming")

\* token_fingerprint hashes the two lists of the snapshot that was published.
Fingerprint == <<cache'.tokens, cache'.certificates>>

\* The PC/SC loop remembers the fingerprint and goes on to the next event; the
\* polling loop compares first, and drops the result of its deep refresh.
AfterPublish ==
    /\ stage' = CASE stage = "warming" -> "arming"
                  [] stage = "refreshing" -> "handling"
                  [] stage = "polling" /\ Fingerprint # previous_fingerprint -> "changed"
                  [] OTHER -> "sleeping"
    /\ previous_fingerprint' =
           IF stage = "pollingDeep" THEN previous_fingerprint ELSE Fingerprint
    /\ UNCHANGED <<attached, listed, known, unseen, todo, due>>

AfterFailure ==
    /\ stage' = CASE stage = "warming" -> "arming"
                  [] stage = "refreshing" -> "handling"
                  [] OTHER -> "sleeping"
    /\ previous_fingerprint' =
           IF stage = "refreshing" /\ job[Watcher].op = "fast"
           THEN NoFingerprint ELSE previous_fingerprint
    /\ due' = 0
    /\ UNCHANGED <<attached, listed, known, unseen, todo>>

WatcherRefresh ==
    \/ /\ \/ AcquireRefreshLock(Watcher)
          \/ ProbeLibrary(Watcher)
          \/ ListTokens(Watcher)
          \/ ListCertificates(Watcher)
       /\ UNCHANGED watcherVars
    \/ Publish(Watcher) /\ AfterPublish
    \/ ReadFails(Watcher) /\ AfterFailure

-----------------------------------------------------------------------------
(* The PC/SC event loop. *)

Present(t) == t # NoToken

\* sync_current_state: what the next wait compares with.
SyncReaders ==
    /\ listed' = attached
    /\ known' = plugged
    /\ unseen' = FALSE

\* PcscTokenWatcher::new takes the readers as they are now for its baseline.
\* When PC/SC is not there the task polls instead, for good.
ArmWatcher ==
    /\ stage = "arming"
    /\ \/ /\ stage' = "waiting"
          /\ SyncReaders
       \/ /\ stage' = "sleeping"
          /\ UNCHANGED <<listed, known, unseen>>
    /\ UNCHANGED <<cacheVars, attached, todo, previous_fingerprint, due>>

\* Change is recorded and then matches neither branch of the loop.
\* Wrong variant: it is queued for the branches.
QueuedChange == <<"change">>

IgnoredChange == <<>>

\* wait_for_events compares presence before and after: Insert and the reader
\* events ask for a deep refresh, Remove for an invalidation; a reader that has
\* a token before and after, or none, is reported as Change, which is ignored.
ReaderEvent ==
    CASE ~unseen -> <<>>
      [] ~attached -> <<"deep">>
      [] Present(plugged) /\ ~Present(known) -> <<"deep">>
      [] ~Present(plugged) /\ Present(known) -> <<"remove">>
      [] OTHER -> IgnoredChange

\* The PnP pseudo-reader; rebuild_reader_states takes a new baseline.
ReaderListEvent == IF listed # attached THEN <<"deep">> ELSE <<>>

WaitForEvents ==
    /\ stage = "waiting"
    /\ unseen \/ listed # attached
    /\ todo' = ReaderEvent \o ReaderListEvent
    /\ stage' = "handling"
    /\ due' = IF todo' = <<>> THEN due ELSE moves
    /\ SyncReaders
    /\ UNCHANGED <<cacheVars, attached, previous_fingerprint>>

WaitFails ==
    /\ stage = "waiting"
    /\ stage' = "sleeping"
    /\ UNCHANGED <<cacheVars, attached, listed, known, unseen, todo,
                   previous_fingerprint, due>>

\* Wrong variant: an insertion lists the tokens only.
FastRefresh == Request(Watcher, "fast")

DeepRefresh == Request(Watcher, "force")

\* for event in events { ... }
NextEvent ==
    /\ stage = "handling"
    /\ IF todo = <<>>
       THEN /\ stage' = "waiting"
            /\ UNCHANGED <<cacheVars, todo>>
       ELSE /\ todo' = Tail(todo)
            /\ \/ /\ Head(todo) = "deep"
                  /\ stage' = "refreshing"
                  /\ DeepRefresh
                  /\ UNCHANGED cache
               \/ /\ Head(todo) = "remove"
                  /\ stage' = "removing"
                  /\ Invalidate
                  /\ UNCHANGED job
            /\ UNCHANGED <<plugged, moves, configured, lock, calls>>
    /\ UNCHANGED <<attached, listed, known, unseen, previous_fingerprint, due>>

\* Wrong variant: a Remove only invalidates.
NoRefreshAfterRemove ==
    /\ stage = "removing"
    /\ stage' = "handling"
    /\ UNCHANGED <<cacheVars, attached, listed, known, unseen, todo,
                   previous_fingerprint, due>>

RefreshAfterRemove ==
    /\ stage = "removing"
    /\ StartRefresh("fast", "refreshing")

-----------------------------------------------------------------------------
(* The polling loop: one fast refresh per period, a deep one when the        *)
(* fingerprint changed.  A fingerprint is never empty, so the "remove" branch *)
(* of start_conservative_fallback_watcher has no step here.                   *)

\* Wrong variant: polling stops once a token list was read.
PollUntilLoaded ==
    /\ stage = "sleeping"
    /\ IF previous_fingerprint = NoFingerprint
       THEN StartRefresh("fast", "polling")
       ELSE UNCHANGED vars

Poll ==
    /\ stage = "sleeping"
    /\ StartRefresh("fast", "polling")

RefreshAfterChange ==
    /\ stage = "changed"
    /\ StartRefresh("force", "pollingDeep")

-----------------------------------------------------------------------------
(* External: the hardware, as PC/SC sees it. *)

HardwareEvent ==
    /\ unseen' = (unseen \/ listed)
    /\ UNCHANGED <<configured, cache, lock, job, calls>>
    /\ UNCHANGED <<listed, known, stage, todo, previous_fingerprint, due>>

TokenMovesInReader ==
    /\ attached
    /\ MoveToken
    /\ UNCHANGED attached
    /\ HardwareEvent

\* A USB token is a reader with its token in it.
AttachReader ==
    /\ ~attached
    /\ moves < MaxMoves
    /\ moves' = moves + 1
    /\ attached' = TRUE
    /\ plugged' \in Slot
    /\ HardwareEvent

DetachReader ==
    /\ attached
    /\ moves < MaxMoves
    /\ moves' = moves + 1
    /\ attached' = FALSE
    /\ plugged' = NoToken
    /\ HardwareEvent

WatcherStep ==
    \/ WarmCache
    \/ WatcherRefresh
    \/ ArmWatcher
    \/ WaitForEvents
    \/ NextEvent
    \/ RefreshAfterRemove
    \/ Poll
    \/ RefreshAfterChange

Next ==
    \/ WatcherStep
    \/ WaitFails
    \/ /\ \/ \E w \in Workers \ {Watcher} :
                 Call(w) \/ ResolveIdentityFails(w) \/ CallerStep(w)
          \/ ReplaceConfig
          \/ TtlElapses
       /\ UNCHANGED watcherVars
    \/ TokenMovesInReader
    \/ AttachReader
    \/ DetachReader

\* The runtime runs the task and the callers; a driver call returns, with its
\* list or with an error, and a sleep ends.
Spec ==
    /\ Init
    /\ [][Next]_vars
    /\ WF_vars(WatcherStep)
    /\ \A w \in Workers \ {Watcher} : WF_vars(CallerStep(w) /\ UNCHANGED watcherVars)

-----------------------------------------------------------------------------
(* Properties. *)

\* Once an event that asked for a refresh is handled and no read failed, the
\* cache holds no token list taken before the event, whatever other refreshes
\* were in flight: the reason a Remove is followed by a refresh and not only by
\* the invalidation.
HandledEventsAreReflected ==
    stage = "waiting" /\ cache.loaded_at => cache.tokens_read >= due

\* When the last event was handled and the hardware has not moved since, an
\* identity offered as available joins the token that is plugged in with that
\* token's own certificates, although the two lists are read, kept and replaced
\* separately and are joined by slot number only (identity/manager.rs:38-49).
AvailableIdentityIsConnected ==
    stage = "waiting" /\ due = moves /\ cache.tokens # NoToken
        /\ cache.certificates # NoToken =>
    cache.tokens = plugged /\ cache.certificates = plugged

\* While polling, a change of the hardware reaches the cached token list or the
\* last read failed.
PollingCatchesUp ==
    (stage = "sleeping" /\ cache.tokens_read < moves) ~>
        (cache.tokens_read = moves \/ job[Watcher].failed)

=============================================================================
