-------------------------- MODULE TokenWatcherProofs --------------------------
(***************************************************************************)
(* Proofs about TokenWatcher: the watcher task is one more user of the     *)
(* cache, so what TokenCacheProofs shows of OpenSpec holds here too, and   *)
(* what it hears from PC/SC reaches the cache.                             *)
(***************************************************************************)
EXTENDS TokenWatcher, TokenCacheProofs, SequenceTheorems

-----------------------------------------------------------------------------
(* The inductive invariant. *)

\* No token list in the cache, or on its way into it, is from before the last
\* event that asked for a refresh.
TokensReflected ==
    /\ cache.loaded_at => cache.tokens_read >= due
    /\ \A w \in Workers :
           job[w].stage \in {"listingCertificates", "publishing"} =>
               job[w].tokens_read >= due

\* Nor is a certificate list.
CertificatesReflected ==
    /\ cache.certificates_loaded_at => cache.certificates_read >= due
    /\ \A w \in Workers :
           job[w].stage = "publishing" /\ Deep(w) => job[w].certificates_read >= due

\* The last event found nothing plugged in, so no certificate is anybody's.
TokenGone == due = moves => plugged = NoToken

\* The events of one wake-up: a Remove is the first, and a reader that came or
\* went the last.
Wakeups == {<<>>, <<"deep">>, <<"remove">>, <<"deep", "deep">>, <<"remove", "deep">>}

\* A deep refresh is still to come, or under way.
DeepIsDue ==
    \/ todo \in {<<"deep">>, <<"deep", "deep">>, <<"remove", "deep">>}
    \/ stage = "refreshing" /\ Deep(Watcher)

\* The refresh the task waits for reads nothing from before the event.
OwnReadingsReflected ==
    stage = "refreshing" =>
        /\ job[Watcher].stage \in {"listingCertificates", "publishing"} =>
               job[Watcher].tokens_read >= due
        /\ job[Watcher].stage = "publishing" /\ Deep(Watcher) =>
               job[Watcher].certificates_read >= due

EventInv ==
    /\ todo \in Wakeups
    /\ due <= moves
    /\ stage \in {"startup", "warming", "arming"} => due = 0
    /\ stage \in {"startup", "warming", "arming", "waiting"} => todo = <<>>
    /\ stage = "waiting" \/ (stage = "handling" /\ todo = <<>>) => TokensReflected
    /\ OwnReadingsReflected
    /\ stage \in {"waiting", "handling", "removing", "refreshing"} =>
           DeepIsDue \/ TokenGone \/ CertificatesReflected

-----------------------------------------------------------------------------
(* The watcher among the users of the cache. *)

\* A request of the watcher is a request.
LEMMA StartIsOpen ==
    ASSUME NEW o \in Op, NEW next, StartRefresh(o, next)
    PROVE  OpenNext
<1>1. Ask(Watcher)
  BY DEF StartRefresh, Ask, Counted
<1> QED BY <1>1, WatcherAssumption DEF OpenNext

\* Every step of the composition is, for the cache, a request, a clearing, a step
\* of a refresh, a move at the reader, or nothing.
LEMMA WatcherStepIsOpen == [Next]_vars => [OpenNext]_cacheVars
<1> SUFFICES ASSUME [Next]_vars PROVE [OpenNext]_cacheVars
  OBVIOUS
<1>o. {"force", "fast"} \subseteq Op
  BY DEF Op
<1>1. CASE WarmCache \/ RefreshAfterRemove \/ Poll \/ RefreshAfterChange
  <2>1. \E o \in Op, next \in Stages : StartRefresh(o, next)
    BY <1>1, <1>o
       DEF WarmCache, RefreshAfterRemove, Poll, RefreshAfterChange, Stages, PollingStages
  <2> QED BY <2>1, StartIsOpen
<1>2. CASE WatcherRefresh
  <2>1. CallerStep(Watcher)
    BY <1>2 DEF WatcherRefresh, CallerStep, RefreshStep
  <2> QED BY <2>1, WatcherAssumption DEF OpenNext
<1>3. CASE ArmWatcher \/ WaitForEvents \/ WaitFails
  BY <1>3 DEF ArmWatcher, WaitForEvents, WaitFails
<1>4. CASE NextEvent
  <2>1. CASE todo = <<>>
    BY <1>4, <2>1 DEF NextEvent
  <2>2. CASE todo # <<>>
    <3>1. \/ Request(Watcher, "force") /\ UNCHANGED <<plugged, moves, configured, cache, lock, calls>>
          \/ Invalidate /\ UNCHANGED <<plugged, moves, configured, lock, job, calls>>
      BY <1>4, <2>2 DEF NextEvent, DeepRefresh
    <3>2. ASSUME Request(Watcher, "force"),
                 UNCHANGED <<plugged, moves, configured, cache, lock, calls>>
          PROVE  OpenNext
      BY <1>o, <3>2, WatcherAssumption DEF OpenNext, Ask, Counted
    <3>3. ASSUME Invalidate, UNCHANGED <<plugged, moves, configured, lock, job, calls>>
          PROVE  OpenNext
      BY <3>3 DEF OpenNext, Clear, Counted
    <3> QED BY <3>1, <3>2, <3>3
  <2> QED BY <2>1, <2>2
<1>5. ASSUME NEW w \in Workers, Call(w) \/ ResolveIdentityFails(w) \/ CallerStep(w)
      PROVE  OpenNext
  BY <1>5 DEF Call, OpenNext, Ask, Counted
<1>6. CASE ReplaceConfig \/ TtlElapses
  BY <1>6 DEF ReplaceConfig, OpenNext, Clear, Counted
<1>7. CASE TokenMovesInReader \/ AttachReader \/ DetachReader
  BY <1>7 DEF TokenMovesInReader, AttachReader, DetachReader, HardwareEvent, MoveToken,
     Slot, OpenNext, HardwareMoves
<1>8. CASE UNCHANGED vars
  BY <1>8 DEF vars
<1> QED
  BY <1>1, <1>2, <1>3, <1>4, <1>5, <1>6, <1>7, <1>8 DEF Next, WatcherStep

\* So the theorems about OpenSpec hold of the cache under the watcher.
THEOREM CacheUnderWatcher == Spec => OpenSpec
<1>1. Init => CacheInit
  BY DEF Init
<1> QED
  BY <1>1, WatcherStepIsOpen, PTL DEF Spec, OpenSpec

\* A list in the cache is never replaced by one taken before it, with the watcher
\* refreshing and clearing the cache beside the handlers and commands.
THEOREM WatcherReadingsGoForward == Spec => ReadingsNeverGoBack
BY CacheUnderWatcher, OpenReadingsGoForward, PTL

\* Another worker's step leaves the watcher's refresh and the reader alone.
LEMMA OthersLeaveWatcher ==
    ASSUME CacheTypeOK, NEW w \in Workers, w # Watcher,
           Call(w) \/ ResolveIdentityFails(w) \/ CallerStep(w)
    PROVE  job'[Watcher] = job[Watcher] /\ UNCHANGED <<plugged, moves>>
<1> USE WatcherAssumption DEF CacheTypeOK, Goto, Finish
<1>1. CASE Call(w)
  BY <1>1 DEF Call, Request
<1>2. CASE ResolveIdentityFails(w)
  BY <1>2 DEF ResolveIdentityFails
<1>3. CASE CheckLoaded(w)
  BY <1>3, Zenon DEF CheckLoaded
<1>4. CASE RecheckExpiry(w)
  BY <1>4 DEF RecheckExpiry
<1>5. CASE AcquireRefreshLock(w) \/ ProbeLibrary(w) \/ ListTokens(w) \/ ListCertificates(w)
  BY <1>5 DEF AcquireRefreshLock, ProbeLibrary, ChooseLibrary, ListTokens, ListCertificates
<1>6. CASE ReadFails(w) \/ Publish(w) \/ InvalidateAfterMiss(w)
  BY <1>6 DEF ReadFails, Publish, InvalidateAfterMiss
<1> QED
  BY <1>1, <1>2, <1>3, <1>4, <1>5, <1>6 DEF CallerStep, RefreshStep

\* The watcher's own refresh, until it ends, changes only where it is.
LEMMA WatcherRefreshGoesOn ==
    ASSUME CacheTypeOK,
           \/ AcquireRefreshLock(Watcher) \/ ProbeLibrary(Watcher)
           \/ ListTokens(Watcher) \/ ListCertificates(Watcher)
    PROVE  job'[Watcher].op = job[Watcher].op /\ UNCHANGED <<plugged, moves>>
  BY WatcherAssumption
     DEF AcquireRefreshLock, ProbeLibrary, ChooseLibrary, ListTokens, ListCertificates,
         CacheTypeOK, Job

-----------------------------------------------------------------------------
(* Types. *)

WatcherTypes ==
    /\ attached \in BOOLEAN
    /\ plugged # NoToken => attached
    /\ listed \in BOOLEAN
    /\ known \in Slot
    /\ unseen \in BOOLEAN
    /\ stage \in Stages
    /\ todo \in Wakeups
    /\ previous_fingerprint \in (Slot \X Slot) \cup {NoFingerprint}
    /\ due \in 0..MaxMoves

\* The watcher starts well typed.
LEMMA WatcherTypeInit == Init => WatcherTypes
<1> SUFFICES ASSUME Init PROVE WatcherTypes
  OBVIOUS
<1>1. stage \in Stages /\ todo \in Wakeups
  BY DEF Init, Stages, Wakeups
<1>2. known \in Slot
  BY DEF Init, Slot
<1>3. due \in 0..MaxMoves
  BY BoundsAssumption DEF Init
<1>4. previous_fingerprint \in (Slot \X Slot) \cup {NoFingerprint}
  BY Zenon DEF Init
<1> QED BY <1>1, <1>2, <1>3, <1>4 DEF Init, WatcherTypes

\* Two events in a row.
LEMMA PairConcat ==
    ASSUME NEW S, NEW a \in S, NEW b \in S
    PROVE  <<a>> \o <<b>> = <<a, b>>
<1> DEFINE x == <<a>>
           y == <<b>>
           s == x \o y
           t == <<a, b>>
<1>1. /\ x \in Seq(S) /\ Len(x) = 1 /\ x[1] = a
      /\ y \in Seq(S) /\ Len(y) = 1 /\ y[1] = b
  OBVIOUS
<1>2. t \in Seq(S) /\ Len(t) = 2 /\ t[1] = a /\ t[2] = b
  OBVIOUS
<1> HIDE DEF x, y, t
<1>3. /\ s \in Seq(S) /\ Len(s) = Len(x) + Len(y)
      /\ \A i \in 1..Len(x) + Len(y) : s[i] = IF i <= Len(x) THEN x[i] ELSE y[i - Len(x)]
  BY ONLY <1>1, ConcatProperties
<1> HIDE DEF s
<1>4. s \in Seq(S) /\ Len(s) = 2 /\ s[1] = a /\ s[2] = b
  <2>1. 1 + 1 = 2 /\ 1 \in 1..(1 + 1) /\ 2 \in 1..(1 + 1) /\ 2 - 1 = 1 /\ ~(2 <= 1)
    OBVIOUS
  <2>2. s[1] = x[1]
    BY ONLY <1>1, <1>3, <2>1
  <2> QED BY ONLY <1>1, <1>3, <2>1, <2>2
<1>5. \A i \in 1..Len(s) : s[i] = t[i]
  BY <1>2, <1>4
<1>6. s = t
  BY ONLY <1>2, <1>4, <1>5, SeqEqual
<1> QED BY <1>6 DEF s, t, x, y

\* What one wake-up may hear: a Remove alone, only with nothing plugged in.
LEMMA WakeupType ==
    /\ ReaderEvent \o ReaderListEvent \in Wakeups
    /\ ReaderEvent \o ReaderListEvent = <<"remove">> => plugged = NoToken
<1>1. /\ ReaderEvent \in {<<>>, <<"deep">>, <<"remove">>}
      /\ ReaderEvent = <<"remove">> => plugged = NoToken
  BY DEF ReaderEvent, IgnoredChange, Present
<1>2. ReaderListEvent \in {<<>>, <<"deep">>}
  BY DEF ReaderListEvent
<1> DEFINE a == ReaderEvent
           b == ReaderListEvent
<1>3. /\ a \in {<<>>, <<"deep">>, <<"remove">>} /\ b \in {<<>>, <<"deep">>}
      /\ a = <<"remove">> => plugged = NoToken
  BY <1>1, <1>2
<1> SUFFICES a \o b \in Wakeups /\ (a \o b = <<"remove">> => plugged = NoToken)
  OBVIOUS
<1> HIDE DEF a, b
<1>4. CASE b = <<>>
  BY <1>3, <1>4 DEF Wakeups
<1>5. CASE a = <<>> /\ b = <<"deep">>
  BY <1>5 DEF Wakeups
<1>6. CASE a \in {<<"deep">>, <<"remove">>} /\ b = <<"deep">>
  <2>1. ASSUME NEW e \in Events PROVE <<e>> \o <<"deep">> = <<e, "deep">>
    <3>1. "deep" \in Events
      BY DEF Events
    <3> QED BY <3>1, PairConcat
  <2>2. a \o b \in {<<"deep", "deep">>, <<"remove", "deep">>}
    BY <1>6, <2>1, Zenon DEF Events
  <2>3. a \o b # <<"remove">>
    BY <2>2
  <2> QED BY <2>2, <2>3 DEF Wakeups
<1> QED BY <1>3, <1>4, <1>5, <1>6

\* What is left of one.
LEMMA WakeupTail ==
    ASSUME NEW events \in Wakeups, events # <<>>
    PROVE  /\ Tail(events) \in {<<>>, <<"deep">>}
           /\ Head(events) \in {"deep", "remove"}
           /\ Head(events) = "remove" /\ Tail(events) = <<>> => events = <<"remove">>
<1>1. CASE events = <<"deep">>
  BY <1>1
<1>2. CASE events = <<"remove">>
  BY <1>2
<1>3. CASE events = <<"deep", "deep">>
  BY <1>3
<1>4. CASE events = <<"remove", "deep">>
  BY <1>4
<1> QED BY <1>1, <1>2, <1>3, <1>4 DEF Wakeups

\* A step of the watcher, of the others or of the hardware keeps the watcher's
\* variables in their ranges.
LEMMA WatcherTypeStep ==
    CacheTypeOK /\ CacheTypeOK' /\ WatcherTypes /\ [Next]_vars => WatcherTypes'
<1> SUFFICES ASSUME CacheTypeOK, CacheTypeOK', WatcherTypes, [Next]_vars
             PROVE  WatcherTypes'
  OBVIOUS
<1> USE BoundsAssumption DEF WatcherTypes
<1>p. plugged \in Slot /\ plugged' \in Slot /\ moves \in 0..MaxMoves
  BY DEF CacheTypeOK
<1>1. ASSUME NEW o, NEW next \in Stages, StartRefresh(o, next) PROVE WatcherTypes'
  BY <1>1 DEF StartRefresh
<1>2. CASE WarmCache \/ RefreshAfterRemove \/ Poll \/ RefreshAfterChange
  BY <1>1, <1>2
     DEF WarmCache, RefreshAfterRemove, Poll, RefreshAfterChange, Stages, PollingStages
<1>3. CASE WatcherRefresh
  <2>1. UNCHANGED plugged
    BY <1>3 DEF WatcherRefresh, AcquireRefreshLock, ProbeLibrary, ListTokens,
       ListCertificates, Publish, ReadFails
  <2>2. CASE UNCHANGED watcherVars
    BY <2>1, <2>2 DEF watcherVars
  <2>3. CASE AfterPublish
    <3>1. stage' \in Stages
      BY <2>3 DEF AfterPublish, Stages, PollingStages
    <3>2. Fingerprint \in Slot \X Slot
      BY DEF Fingerprint, CacheTypeOK, Cache
    <3> QED BY <2>1, <2>3, <3>1, <3>2 DEF AfterPublish
  <2>4. CASE AfterFailure
    <3>1. stage' \in Stages
      BY <2>4 DEF AfterFailure, Stages, PollingStages
    <3> QED BY <2>1, <2>4, <3>1 DEF AfterFailure
  <2> QED BY <1>3, <2>2, <2>3, <2>4 DEF WatcherRefresh
<1>4. CASE ArmWatcher
  BY <1>p, <1>4 DEF ArmWatcher, SyncReaders, cacheVars, Stages, PollingStages
<1>5. CASE WaitForEvents
  BY <1>p, <1>5, WakeupType DEF WaitForEvents, SyncReaders, cacheVars, Stages
<1>6. CASE WaitFails
  BY <1>6 DEF WaitFails, cacheVars, Stages, PollingStages
<1>7. CASE NextEvent
  <2>1. /\ UNCHANGED <<plugged, attached, listed, known, unseen, previous_fingerprint, due>>
        /\ stage' \in {"waiting", "refreshing", "removing"}
        /\ todo' = todo \/ (todo # <<>> /\ todo' = Tail(todo))
    BY <1>7 DEF NextEvent, cacheVars
  <2>2. todo' \in Wakeups
    <3>1. {<<>>, <<"deep">>} \subseteq Wakeups
      BY DEF Wakeups
    <3> QED BY <2>1, <3>1, WakeupTail
  <2> QED BY <2>1, <2>2 DEF Stages
<1>8. ASSUME NEW w \in Workers \ {Watcher},
             Call(w) \/ ResolveIdentityFails(w) \/ CallerStep(w), UNCHANGED watcherVars
      PROVE  WatcherTypes'
  <2>1. UNCHANGED plugged
    BY <1>8, OthersLeaveWatcher
  <2> QED BY <1>8, <2>1 DEF watcherVars
<1>9. CASE (ReplaceConfig \/ TtlElapses) /\ UNCHANGED watcherVars
  BY <1>9 DEF ReplaceConfig, TtlElapses, watcherVars
<1>10. CASE TokenMovesInReader \/ AttachReader \/ DetachReader
  BY <1>10 DEF TokenMovesInReader, AttachReader, DetachReader, HardwareEvent
<1>11. CASE UNCHANGED vars
  BY <1>11 DEF vars, watcherVars, cacheVars
<1> QED
  BY <1>2, <1>3, <1>4, <1>5, <1>6, <1>7, <1>8, <1>9, <1>10, <1>11, Zenon
     DEF Next, WatcherStep

\* Every variable of the cache and of the watcher stays in its range; one wake-up
\* queues at most one event of the reader and one of the reader list.
THEOREM WatcherTypeCorrect == Spec => []TypeOK
<1>1. CacheTypeOK /\ WatcherTypes => TypeOK
  <2>1. Wakeups \subseteq {<<>>} \cup {<<e>> : e \in Events} \cup (Events \X Events)
    BY DEF Wakeups, Events
  <2> QED BY <2>1 DEF WatcherTypes, TypeOK
<1> QED
  BY <1>1, WatcherTypeInit, WatcherTypeStep, CacheUnderWatcher, OpenTypeCorrect, PTL DEF Spec

-----------------------------------------------------------------------------
(* What the watcher hears reaches the cache. *)

\* The ranges the arithmetic of the next lemmas needs.
LEMMA ReadingsAreNumbers ==
    ASSUME CacheTypeOK
    PROVE  /\ moves \in Nat
           /\ cache.tokens_read \in Nat /\ cache.certificates_read \in Nat
           /\ \A w \in Workers :
                  job[w].tokens_read \in Nat /\ job[w].certificates_read \in Nat
  BY BoundsAssumption DEF CacheTypeOK, Cache, Job

\* Whatever happens to the cache between two events, what was reflected stays so:
\* a list read now is newer than the event, and an older one is nowhere left.
LEMMA ReflectedStep ==
    ASSUME CacheTypeOK, [OpenNext]_cacheVars, due \in Nat, due <= moves, due' = due
    PROVE  /\ due' <= moves'
           /\ TokensReflected => TokensReflected'
           /\ CertificatesReflected => CertificatesReflected'
           /\ TokenGone => TokenGone'
<1> DEFINE Kept == /\ due' <= moves'
                   /\ TokensReflected => TokensReflected'
                   /\ CertificatesReflected => CertificatesReflected'
                   /\ TokenGone => TokenGone'
<1>t. /\ moves \in Nat
      /\ cache.tokens_read \in Nat /\ cache.certificates_read \in Nat
      /\ \A w \in Workers : job[w].tokens_read \in Nat /\ job[w].certificates_read \in Nat
  BY ReadingsAreNumbers
<1> USE DEF TokensReflected, CertificatesReflected, TokenGone, Deep
<1>1. CASE Passes
  <2>1. UNCHANGED <<plugged, moves>>
    BY <1>1 DEF Passes
  <2>2. /\ cache'.loaded_at => cache.loaded_at /\ cache'.tokens_read = cache.tokens_read
        /\ cache'.certificates_loaded_at =>
               /\ cache.certificates_loaded_at
               /\ cache'.certificates_read = cache.certificates_read
    BY <1>1, InvalidateEffect, ElapseEffect DEF Passes
  <2>3. \A w \in Workers :
           \/ job'[w] = job[w]
           \/ job'[w].stage \notin {"listingCertificates", "publishing"}
    BY <1>1 DEF Passes, JobPasses
  <2> QED BY <2>1, <2>2, <2>3
<1>2. CASE HardwareMoves
  BY <1>t, <1>2 DEF HardwareMoves
<1>3. ASSUME NEW w \in Workers, ListTokens(w) PROVE Kept
  BY <1>t, <1>3, ListTokensEffect
<1>4. ASSUME NEW w \in Workers, ListCertificates(w) PROVE Kept
  BY <1>t, <1>4, ListCertificatesEffect
<1>5. ASSUME NEW w \in Workers, Publish(w) PROVE Kept
  BY <1>t, <1>5, PublishEffect
<1> QED
  BY <1>1, <1>2, <1>3, <1>4, <1>5, StepKinds

\* The refresh the task waits for dates its lists after the event too.
LEMMA OwnReadingsStep ==
    ASSUME CacheTypeOK, [OpenNext]_cacheVars, due \in Nat, due <= moves,
           UNCHANGED <<due, stage>>, OwnReadingsReflected
    PROVE  OwnReadingsReflected'
<1>t. moves \in Nat /\ Watcher \in Workers
  BY ReadingsAreNumbers, WatcherAssumption
<1> USE DEF OwnReadingsReflected, Deep
<1>1. CASE Passes
  BY <1>t, <1>1 DEF Passes, JobPasses
<1>2. CASE HardwareMoves
  BY <1>2 DEF HardwareMoves
<1>3. ASSUME NEW w \in Workers, ListTokens(w) PROVE OwnReadingsReflected'
  BY <1>t, <1>3, ListTokensEffect
<1>4. ASSUME NEW w \in Workers, ListCertificates(w) PROVE OwnReadingsReflected'
  BY <1>t, <1>4, ListCertificatesEffect
<1>5. ASSUME NEW w \in Workers, Publish(w) PROVE OwnReadingsReflected'
  BY <1>t, <1>5, PublishEffect
<1> QED
  BY <1>1, <1>2, <1>3, <1>4, <1>5, StepKinds

\* A step that moves neither the task nor its events keeps the invariant.
LEMMA BackgroundStep ==
    ASSUME CacheTypeOK, [OpenNext]_cacheVars, due \in Nat, EventInv,
           UNCHANGED <<stage, todo, due>>,
           stage = "refreshing" => job'[Watcher].op = job[Watcher].op
    PROVE  EventInv'
<1>1. due <= moves
  BY DEF EventInv
<1>2. DeepIsDue => DeepIsDue'
  BY DEF DeepIsDue, Deep
<1> QED
  BY <1>1, <1>2, ReflectedStep, OwnReadingsStep DEF EventInv

\* No event has been heard at the start.
LEMMA EventInit == Init => EventInv
BY BoundsAssumption
   DEF Init, CacheInit, EventInv, Wakeups, OwnReadingsReflected

\* When nothing is due everything is reflected.
LEMMA NothingIsDue ==
    ASSUME CacheTypeOK, due = 0
    PROVE  TokensReflected /\ CertificatesReflected
  BY ReadingsAreNumbers DEF TokensReflected, CertificatesReflected

\* A refresh the task asks for starts without lists.
LEMMA StartEffect ==
    ASSUME CacheTypeOK, NEW o \in Op, Request(Watcher, o)
    PROVE  /\ job'[Watcher].stage \notin {"listingCertificates", "publishing"}
           /\ job'[Watcher].op = o
  BY WatcherAssumption, RequestTypes DEF CacheTypeOK

\* One step keeps the events of a wake-up due until the refresh that answers them.
LEMMA EventStep ==
    CacheTypeOK /\ CacheTypeOK' /\ WatcherTypes /\ EventInv /\ [Next]_vars => EventInv'
<1> SUFFICES ASSUME CacheTypeOK, CacheTypeOK', WatcherTypes, EventInv, [Next]_vars
             PROVE  EventInv'
  OBVIOUS
<1>t. /\ due \in Nat /\ due <= moves /\ moves \in Nat /\ Watcher \in Workers
      /\ {"force", "fast"} \subseteq Op /\ todo \in Wakeups
  BY ReadingsAreNumbers, WatcherAssumption, BoundsAssumption DEF WatcherTypes, EventInv, Op
<1>o. [OpenNext]_cacheVars
  BY WatcherStepIsOpen
<1>k. due' = due => /\ due' <= moves'
                    /\ TokensReflected => TokensReflected'
                    /\ CertificatesReflected => CertificatesReflected'
                    /\ TokenGone => TokenGone'
  BY <1>t, <1>o, ReflectedStep
<1>1. CASE WarmCache \/ Poll \/ RefreshAfterChange
  <2>1. /\ stage' \in {"warming", "polling", "pollingDeep"}
        /\ stage' = "warming" => stage = "startup"
        /\ UNCHANGED <<todo, due>>
    BY <1>1 DEF WarmCache, Poll, RefreshAfterChange, StartRefresh
  <2> QED BY <1>k, <2>1 DEF EventInv, OwnReadingsReflected
<1>2. CASE RefreshAfterRemove
  <2>1. /\ stage = "removing" /\ stage' = "refreshing" /\ UNCHANGED <<todo, due>>
        /\ Request(Watcher, "fast")
    BY <1>2 DEF RefreshAfterRemove, StartRefresh
  <2>2. OwnReadingsReflected'
    BY <1>t, <2>1, StartEffect DEF OwnReadingsReflected
  <2>3. (DeepIsDue \/ TokenGone \/ CertificatesReflected)'
    BY <1>k, <2>1 DEF EventInv, DeepIsDue
  <2> QED BY <1>t, <1>k, <2>1, <2>2, <2>3 DEF EventInv
<1>3. CASE /\ \/ AcquireRefreshLock(Watcher) \/ ProbeLibrary(Watcher)
              \/ ListTokens(Watcher) \/ ListCertificates(Watcher)
           /\ UNCHANGED watcherVars
  BY <1>t, <1>o, <1>3, WatcherRefreshGoesOn, BackgroundStep DEF watcherVars
<1>4. CASE Publish(Watcher) /\ AfterPublish
  <2>1. /\ stage' \in {"arming", "handling", "changed", "sleeping"}
        /\ stage' = "arming" => stage = "warming"
        /\ stage' = "handling" => stage = "refreshing"
        /\ UNCHANGED <<todo, due>>
    BY <1>4 DEF AfterPublish
  <2>2. CASE stage' = "handling"
    <3>1. TokensReflected'
      BY <1>4, <1>t, <2>1, <2>2, PublishEffect
         DEF EventInv, OwnReadingsReflected, TokensReflected
    <3>2. CASE Deep(Watcher)
      <4>1. CertificatesReflected'
        BY <1>4, <1>t, <2>1, <2>2, <3>2, PublishEffect
           DEF EventInv, OwnReadingsReflected, CertificatesReflected
      <4> QED BY <1>k, <1>t, <2>1, <2>2, <3>1, <4>1 DEF EventInv, OwnReadingsReflected
    <3>3. CASE ~Deep(Watcher)
      <4>1. (DeepIsDue \/ TokenGone \/ CertificatesReflected)'
        BY <1>k, <2>1, <2>2, <3>3 DEF EventInv, DeepIsDue
      <4> QED BY <1>k, <1>t, <2>1, <2>2, <3>1, <4>1 DEF EventInv, OwnReadingsReflected
    <3> QED BY <3>2, <3>3
  <2>3. CASE stage' # "handling"
    BY <1>k, <1>t, <2>1, <2>3 DEF EventInv, OwnReadingsReflected
  <2> QED BY <2>2, <2>3
<1>5. CASE ReadFails(Watcher) /\ AfterFailure
  <2>1. /\ stage' \in {"arming", "handling", "sleeping"}
        /\ stage' = "arming" => stage = "warming"
        /\ todo' = todo /\ due' = 0
    BY <1>5 DEF AfterFailure
  <2>2. TokensReflected' /\ CertificatesReflected'
    BY <2>1, BoundsAssumption
       DEF TokensReflected, CertificatesReflected, CacheTypeOK, Cache, Job
  <2>3. moves' \in Nat
    BY BoundsAssumption DEF CacheTypeOK
  <2> QED BY <1>t, <2>1, <2>2, <2>3 DEF EventInv, OwnReadingsReflected
<1>6. CASE ArmWatcher
  <2>1. /\ stage = "arming" /\ stage' \in {"waiting", "sleeping"}
        /\ UNCHANGED <<cacheVars, todo, due>>
    BY <1>6 DEF ArmWatcher
  <2>2. TokensReflected /\ CertificatesReflected
    BY <2>1, NothingIsDue DEF EventInv
  <2> QED BY <1>k, <1>t, <2>1, <2>2 DEF EventInv, OwnReadingsReflected
<1>7. CASE WaitForEvents
  <2>1. /\ stage = "waiting" /\ stage' = "handling"
        /\ todo' = ReaderEvent \o ReaderListEvent
        /\ due' = IF todo' = <<>> THEN due ELSE moves
        /\ UNCHANGED cacheVars
    BY <1>7 DEF WaitForEvents
  <2>2. todo' \in Wakeups /\ (todo' = <<"remove">> => plugged = NoToken)
    BY <2>1, WakeupType
  <2>3. CASE todo' = <<>>
    BY <1>k, <1>t, <2>1, <2>2, <2>3 DEF EventInv, OwnReadingsReflected, DeepIsDue
  <2>4. CASE todo' = <<"remove">>
    <3>1. TokenGone'
      BY <2>1, <2>2, <2>4 DEF TokenGone, cacheVars
    <3> QED BY <1>t, <2>1, <2>2, <2>4, <3>1 DEF EventInv, OwnReadingsReflected, cacheVars
  <2>5. CASE todo' \in {<<"deep">>, <<"deep", "deep">>, <<"remove", "deep">>}
    <3>1. DeepIsDue'
      BY <2>5 DEF DeepIsDue
    <3> QED BY <1>t, <2>1, <2>2, <2>5, <3>1 DEF EventInv, OwnReadingsReflected, cacheVars
  <2> QED BY <2>2, <2>3, <2>4, <2>5 DEF Wakeups
<1>8. CASE WaitFails
  BY <1>k, <1>t, <1>8 DEF WaitFails, EventInv, OwnReadingsReflected
<1>9. CASE NextEvent
  <2>1. stage = "handling" /\ UNCHANGED due
    BY <1>9 DEF NextEvent
  <2>2. CASE todo = <<>>
    <3>1. stage' = "waiting" /\ todo' = todo
      BY <1>9, <2>2 DEF NextEvent
    <3> QED BY <1>k, <1>t, <2>1, <2>2, <3>1 DEF EventInv, OwnReadingsReflected, DeepIsDue
  <2>3. CASE todo # <<>>
    <3>1. todo' = Tail(todo) /\ todo' \in Wakeups
      <4>1. {<<>>, <<"deep">>} \subseteq Wakeups
        BY DEF Wakeups
      <4> QED BY <1>9, <1>t, <2>3, <4>1, WakeupTail DEF NextEvent
    <3>2. CASE Head(todo) = "deep"
      <4>1. stage' = "refreshing" /\ Request(Watcher, "force")
        BY <1>9, <2>3, <3>2 DEF NextEvent, DeepRefresh
      <4>2. job'[Watcher].stage \notin {"listingCertificates", "publishing"}
            /\ job'[Watcher].op = "force"
        BY <1>t, <4>1, StartEffect
      <4>3. OwnReadingsReflected'
        BY <4>2 DEF OwnReadingsReflected
      <4>4. DeepIsDue'
        BY <4>1, <4>2 DEF DeepIsDue, Deep
      <4> QED BY <1>k, <1>t, <2>1, <3>1, <4>1, <4>3, <4>4 DEF EventInv
    <3>3. CASE Head(todo) = "remove"
      <4>1. stage' = "removing"
        BY <1>9, <2>3, <3>3 DEF NextEvent
      <4>2. todo = <<"remove">> \/ todo' = <<"deep">>
        BY <1>t, <2>3, <3>1, <3>3, WakeupTail
      <4>3. (DeepIsDue \/ TokenGone \/ CertificatesReflected)'
        BY <1>k, <2>1, <4>2 DEF EventInv, DeepIsDue
      <4> QED BY <1>k, <1>t, <2>1, <3>1, <4>1, <4>3 DEF EventInv, OwnReadingsReflected
    <3> QED BY <1>t, <2>3, <3>2, <3>3, WakeupTail
  <2> QED BY <2>2, <2>3
<1>10. ASSUME NEW w \in Workers \ {Watcher},
              Call(w) \/ ResolveIdentityFails(w) \/ CallerStep(w), UNCHANGED watcherVars
       PROVE  EventInv'
  <2>1. job'[Watcher].op = job[Watcher].op
    BY <1>10, OthersLeaveWatcher
  <2> QED BY <1>t, <1>o, <1>10, <2>1, BackgroundStep DEF watcherVars
<1>11. CASE (ReplaceConfig \/ TtlElapses) /\ UNCHANGED watcherVars
  BY <1>t, <1>o, <1>11, BackgroundStep DEF watcherVars, ReplaceConfig, TtlElapses
<1>12. CASE TokenMovesInReader \/ AttachReader \/ DetachReader
  BY <1>t, <1>o, <1>12, BackgroundStep
     DEF TokenMovesInReader, AttachReader, DetachReader, HardwareEvent
<1>13. CASE UNCHANGED vars
  BY <1>t, <1>o, <1>13, BackgroundStep DEF vars, watcherVars, cacheVars
<1> QED
  BY <1>1, <1>2, <1>3, <1>4, <1>5, <1>6, <1>7, <1>8, <1>9, <1>10, <1>11, <1>12, <1>13,
     Zenon DEF Next, WatcherStep, WatcherRefresh

\* The invariant of the events holds in every state.
LEMMA EventsInOrder == Spec => [](CacheTypeOK /\ WatcherTypes /\ EventInv)
BY WatcherTypeInit, WatcherTypeStep, EventInit, EventStep, CacheUnderWatcher,
   OpenTypeCorrect, PTL DEF Spec

\* Once an event is handled and no read failed, the cache holds no token list
\* from before it, whatever refreshes of other callers were in flight.
THEOREM EventsAreReflected == Spec => []HandledEventsAreReflected
<1>1. EventInv => HandledEventsAreReflected
  BY DEF EventInv, TokensReflected, HandledEventsAreReflected
<1> QED BY <1>1, EventsInOrder, PTL

\* While the hardware rests after the last event, an identity offered as
\* available joins the plugged token with that token's own certificates.
THEOREM AvailableIdentitiesAreConnected == Spec => []AvailableIdentityIsConnected
<1>1. /\ CacheTypeOK /\ EventInv
      /\ IInv /\ ListingsAreTrue /\ FlagsTellTheContents
      => AvailableIdentityIsConnected
  <2> SUFFICES ASSUME CacheTypeOK, EventInv, IInv, ListingsAreTrue, FlagsTellTheContents,
                      stage = "waiting", due = moves,
                      cache.tokens # NoToken, cache.certificates # NoToken
               PROVE  cache.tokens = plugged /\ cache.certificates = plugged
    BY DEF AvailableIdentityIsConnected
  <2>1. cache.loaded_at /\ cache.certificates_loaded_at
    BY DEF FlagsTellTheContents
  <2>2. cache.tokens_read = moves /\ cache.tokens = plugged
    BY <2>1, ReadingsAreNumbers
       DEF EventInv, TokensReflected, IInv, CacheReadingsArePast, ListingsAreTrue, UpToDate
  <2>3. CertificatesReflected
    BY <2>2 DEF EventInv, DeepIsDue, TokenGone
  <2>4. cache.certificates = plugged
    BY <2>1, <2>3, ReadingsAreNumbers
       DEF CertificatesReflected, IInv, CacheReadingsArePast, ListingsAreTrue, UpToDate
  <2> QED BY <2>2, <2>4
<1> QED BY <1>1, EventsInOrder, CacheUnderWatcher, ReadingsInOrder, OpenFlagsAreTrue, PTL
=============================================================================
