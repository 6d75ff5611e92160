-------------------------- MODULE TokenCacheProofs --------------------------
(***************************************************************************)
(* Proofs about TokenCache, for every set of workers, tokens and drivers   *)
(* and every bound on moves and calls.                                     *)
(*                                                                         *)
(* They are made for OpenSpec, the cache among callers, clearings and      *)
(* hardware of any kind: CacheSpec is one case of it and the watcher's     *)
(* composition another.                                                    *)
(***************************************************************************)
EXTENDS TokenCache, TLAPS

-----------------------------------------------------------------------------
(* The cache in any surroundings. *)

\* A call is counted, or is nobody's call.
Counted ==
    \/ calls' = calls
    \/ calls < MaxCalls /\ calls' = calls + 1

\* Somebody asks for a refresh of any kind.
Ask(w) ==
    /\ \E o \in Op : Request(w, o)
    /\ Counted
    /\ UNCHANGED <<plugged, moves, configured, cache, lock>>

\* Somebody clears the cache, the configuration perhaps changing too.
Clear ==
    /\ Invalidate
    /\ configured' \in Driver \cup {configured}
    /\ Counted
    /\ UNCHANGED <<plugged, moves, lock, job>>

\* Something happens at the reader.
HardwareMoves ==
    /\ moves < MaxMoves
    /\ moves' = moves + 1
    /\ plugged' \in Slot
    /\ UNCHANGED <<configured, cache, lock, job, calls>>

OpenNext ==
    \/ \E w \in Workers : Ask(w) \/ ResolveIdentityFails(w) \/ CallerStep(w)
    \/ Clear
    \/ HardwareMoves
    \/ TtlElapses

OpenSpec == CacheInit /\ [][OpenNext]_cacheVars

\* The cache with its own callers is such a case.
LEMMA CacheStepIsOpen == [CacheNext]_cacheVars => [OpenNext]_cacheVars
<1>1. ASSUME NEW w \in Workers, Call(w) PROVE OpenNext
  BY <1>1 DEF Call, OpenNext, Ask, Counted
<1>2. ASSUME ReplaceConfig PROVE OpenNext
  BY <1>2 DEF ReplaceConfig, OpenNext, Clear, Counted
<1>3. ASSUME TokenMoves PROVE OpenNext
  BY <1>3 DEF TokenMoves, MoveToken, Slot, OpenNext, HardwareMoves
<1> QED
  BY <1>1, <1>2, <1>3 DEF CacheNext, OpenNext

\* So every theorem about OpenSpec is one about CacheSpec.
LEMMA CacheIsOpen == CacheSpec => OpenSpec
BY CacheStepIsOpen, PTL DEF CacheSpec, OpenSpec

(***************************************************************************)
(* The inductive invariant of the order of readings.  The listings a job   *)
(* has taken are not older than those in the cache, because the cache is   *)
(* only filled by the one worker that holds refresh_lock, and none is from *)
(* the future.                                                             *)
(***************************************************************************)

\* A worker with listings to publish took them under the lock it still holds.
JobReadingsAreNewer ==
    \A w \in Workers :
        /\ job[w].stage \in {"listingCertificates", "publishing"} =>
               cache.tokens_read <= job[w].tokens_read
        /\ job[w].stage = "publishing" /\ Deep(w) =>
               cache.certificates_read <= job[w].certificates_read

\* No listing in the cache is from the future.
CacheReadingsArePast ==
    cache.tokens_read <= moves /\ cache.certificates_read <= moves

\* No listing of a job is either.
JobReadingsArePast ==
    \A w \in Workers :
        job[w].tokens_read <= moves /\ job[w].certificates_read <= moves

IInv ==
    /\ CacheTypeOK
    /\ CacheReadingsArePast
    /\ JobReadingsArePast
    /\ JobReadingsAreNewer

\* A listing made since the last move of the hardware names the token that is
\* plugged in, or none.
UpToDate(token, read) == read = moves => token \in {NoToken, plugged}
ListingsAreTrue ==
    /\ UpToDate(cache.tokens, cache.tokens_read)
    /\ UpToDate(cache.certificates, cache.certificates_read)
    /\ \A w \in Workers :
           /\ UpToDate(job[w].tokens, job[w].tokens_read)
           /\ UpToDate(job[w].certificates, job[w].certificates_read)

-----------------------------------------------------------------------------
\* An idle worker is in range.
LEMMA IdleType == Idle \in Job /\ Idle.stage = "idle"
BY BoundsAssumption DEF Idle, Job, Op, Stage, Driver, Slot

\* A finished job is in range and idle, and nobody else's changes.
LEMMA FinishTypes ==
  ASSUME job \in [Workers -> Job], NEW w \in Workers, NEW failure \in BOOLEAN,
         Finish(w, failure)
  PROVE  /\ job' \in [Workers -> Job]
         /\ job'[w].stage = "idle"
         /\ \A v \in Workers \ {w} : job'[v] = job[v]
<1> DEFINE finished == [Idle EXCEPT !.failed = failure]
<1>1. finished \in Job /\ finished.stage = "idle"
  BY IdleType DEF Job
<1> HIDE DEF finished
<1> QED
  BY <1>1 DEF Finish, finished

\* A job that starts is in range and yet without refresh_lock.
LEMMA RequestTypes ==
  ASSUME job \in [Workers -> Job], configured \in Driver, NEW w \in Workers,
         NEW o \in Op, Request(w, o)
  PROVE  /\ job' \in [Workers -> Job]
         /\ job'[w].stage \in {"checking", "rechecking", "waiting"}
         /\ job'[w].op = o
         /\ \A v \in Workers \ {w} : job'[v] = job[v]
<1> DEFINE start == CASE o \in {"tokens", "certificates"} -> "checking"
                      [] o = "identities" -> "rechecking"
                      [] OTHER -> "waiting"
<1> DEFINE started == [Idle EXCEPT !.op = o, !.config = configured, !.stage = start]
<1>1. job' = [job EXCEPT ![w] = started]
  BY Zenon DEF Request
<1>2. start \in {"checking", "rechecking", "waiting"}
  OBVIOUS
<1> HIDE DEF start
<1>3. start \in Stage
  BY <1>2 DEF Stage
<1>4. started \in Job /\ started.stage = start /\ started.op = o
  BY <1>3, IdleType DEF Job
<1> HIDE DEF started
<1> QED
  BY <1>1, <1>2, <1>4

\* A job that moves on is in range, and nobody else's changes.
LEMMA GotoTypes ==
  ASSUME job \in [Workers -> Job], NEW w \in Workers, NEW next \in Stage,
         Goto(w, next)
  PROVE  /\ job' \in [Workers -> Job]
         /\ job'[w].stage = next
         /\ \A v \in Workers \ {w} : job'[v] = job[v]
  BY DEF Goto, Job

\* One step of any worker, clearing or environment action keeps every variable
\* in its range and refresh_lock with the worker that is inside a refresh.
LEMMA TypeStep == CacheTypeOK /\ [OpenNext]_cacheVars => CacheTypeOK'
<1> SUFFICES ASSUME CacheTypeOK, [OpenNext]_cacheVars PROVE CacheTypeOK'
  OBVIOUS
<1> USE NobodyAssumption, BoundsAssumption DEF CacheTypeOK, Holding
<1>1. ASSUME NEW w \in Workers, Ask(w) PROVE CacheTypeOK'
  <2>1. PICK o \in Op : Request(w, o)
    BY <1>1 DEF Ask
  <2>2. /\ job' \in [Workers -> Job]
        /\ job'[w].stage \in {"checking", "rechecking", "waiting"}
        /\ \A v \in Workers \ {w} : job'[v] = job[v]
    BY <2>1, RequestTypes
  <2>3. job[w].stage = "idle"
    BY <2>1 DEF Request
  <2> QED
    BY <1>1, <2>2, <2>3 DEF Ask, Counted
<1>2. ASSUME NEW w \in Workers, ResolveIdentityFails(w) PROVE CacheTypeOK'
  BY <1>2 DEF ResolveIdentityFails, Goto, Job, Stage
<1>3. ASSUME NEW w \in Workers, CheckLoaded(w) PROVE CacheTypeOK'
  <2>1. CASE Finish(w, FALSE)
    BY <1>3, <2>1, FinishTypes DEF CheckLoaded
  <2>2. ASSUME NEW next \in {"waiting", "rechecking"}, Goto(w, next)
        PROVE  CacheTypeOK'
    <3>1. next \in Stage
      BY DEF Stage
    <3> QED
      BY <1>3, <2>2, <3>1, GotoTypes DEF CheckLoaded
  <2> QED
    BY <1>3, <2>1, <2>2, Zenon DEF CheckLoaded
<1>4. ASSUME NEW w \in Workers, RecheckExpiry(w) PROVE CacheTypeOK'
  <2>1. CASE Finish(w, FALSE)
    BY <1>4, <2>1, FinishTypes DEF RecheckExpiry
  <2>2. ASSUME NEW next \in {"waiting", "rechecking"}, Goto(w, next)
        PROVE  CacheTypeOK'
    <3>1. next \in Stage
      BY DEF Stage
    <3> QED
      BY <1>4, <2>2, <3>1, GotoTypes DEF RecheckExpiry
  <2> QED
    BY <1>4, <2>1, <2>2, Zenon DEF RecheckExpiry
<1>5. ASSUME NEW w \in Workers, AcquireRefreshLock(w) PROVE CacheTypeOK'
  <2>1. job' \in [Workers -> Job]
    <3>1. Libraries \in SUBSET Libraries /\ "probing" \in Stage
      BY DEF Stage
    <3> QED
      BY <1>5, <3>1 DEF AcquireRefreshLock, Job
  <2>2. job'[w].stage = "probing" /\ \A v \in Workers \ {w} : job'[v] = job[v]
    BY <1>5 DEF AcquireRefreshLock, Job
  <2> QED
    BY <1>5, <2>1, <2>2 DEF AcquireRefreshLock
<1>6. ASSUME NEW w \in Workers, ProbeLibrary(w) PROVE CacheTypeOK'
  BY <1>6 DEF ProbeLibrary, ChooseLibrary, IsFirstCandidate, Job, Stage, Driver
<1>7. ASSUME NEW w \in Workers, ListTokens(w) PROVE CacheTypeOK'
  BY <1>7 DEF ListTokens, View, Job, Stage, Slot
<1>8. ASSUME NEW w \in Workers, ListCertificates(w) PROVE CacheTypeOK'
  BY <1>8 DEF ListCertificates, View, Job, Stage, Slot
<1>9. ASSUME NEW w \in Workers, ReadFails(w) PROVE CacheTypeOK'
  BY <1>9, FinishTypes DEF ReadFails
<1>10. ASSUME NEW w \in Workers, Publish(w) PROVE CacheTypeOK'
  <2>1. cache' \in Cache
    BY <1>10 DEF Publish, Cache, Job
  <2> QED
    BY <1>10, <2>1, FinishTypes DEF Publish
<1>11. ASSUME NEW w \in Workers, InvalidateAfterMiss(w) PROVE CacheTypeOK'
  <2>1. cache' \in Cache
    BY <1>11 DEF InvalidateAfterMiss, Invalidate, EmptyCache, Cache, Slot, Driver
  <2> QED
    BY <1>11, <2>1, FinishTypes DEF InvalidateAfterMiss
<1>12. ASSUME Clear PROVE CacheTypeOK'
  BY <1>12 DEF Clear, Counted, Invalidate, EmptyCache, Cache, Slot, Driver
<1>13. ASSUME HardwareMoves PROVE CacheTypeOK'
  BY <1>13 DEF HardwareMoves
<1>14. ASSUME TtlElapses PROVE CacheTypeOK'
  BY <1>14 DEF TtlElapses, Cache
<1>15. CASE UNCHANGED cacheVars
  BY <1>15 DEF cacheVars
<1> QED
  BY <1>1, <1>2, <1>3, <1>4, <1>5, <1>6, <1>7, <1>8, <1>9, <1>10, <1>11, <1>12,
     <1>13, <1>14, <1>15 DEF OpenNext, CallerStep, RefreshStep

\* The start is well typed: nobody refreshes, nothing is cached.
LEMMA TypeInit == CacheInit => CacheTypeOK
BY NobodyAssumption, BoundsAssumption
   DEF CacheInit, CacheTypeOK, EmptyCache, Idle, Cache, Job, Stage, Op, Slot, Driver,
       Holding

\* Every variable stays in its range and refresh_lock is held exactly by the
\* one worker between the first probe and the publication of a refresh.
THEOREM OpenTypeCorrect == OpenSpec => []CacheTypeOK
BY TypeInit, TypeStep, PTL DEF OpenSpec

\* In particular with the callers of core/cache.rs.
THEOREM CacheTypeCorrect == CacheSpec => []CacheTypeOK
BY OpenTypeCorrect, CacheIsOpen, PTL

-----------------------------------------------------------------------------
(* What each kind of step does to the listings. *)

SameListings(j, k) ==
    /\ j.tokens = k.tokens /\ j.tokens_read = k.tokens_read
    /\ j.certificates = k.certificates /\ j.certificates_read = k.certificates_read

\* A job goes on with the listings it has, or without any, and has none to
\* publish.
JobPasses(w) ==
    /\ job'[w].stage \notin {"listingCertificates", "publishing"}
    /\ SameListings(job'[w], job[w]) \/ SameListings(job'[w], Idle)

\* A step that neither reads, nor publishes, nor moves the hardware.
Passes ==
    /\ UNCHANGED <<plugged, moves>>
    /\ Invalidate \/ TtlElapses \/ cache' = cache
    /\ \A w \in Workers : job'[w] = job[w] \/ JobPasses(w)

\* A worker that ends its job has no listing.
LEMMA FinishForgets ==
  ASSUME job \in [Workers -> Job], NEW w \in Workers, NEW failure \in BOOLEAN,
         Finish(w, failure)
  PROVE  SameListings(job'[w], Idle)
<1> DEFINE finished == [Idle EXCEPT !.failed = failure]
<1>1. SameListings(finished, Idle)
  BY IdleType DEF Job, SameListings
<1> HIDE DEF finished
<1> QED
  BY <1>1 DEF Finish, finished

\* Nor has one that starts.
LEMMA RequestForgets ==
  ASSUME job \in [Workers -> Job], NEW w \in Workers, NEW o, Request(w, o)
  PROVE  SameListings(job'[w], Idle)
<1> DEFINE start == CASE o \in {"tokens", "certificates"} -> "checking"
                      [] o = "identities" -> "rechecking"
                      [] OTHER -> "waiting"
<1> DEFINE started == [Idle EXCEPT !.op = o, !.config = configured, !.stage = start]
<1>1. job' = [job EXCEPT ![w] = started]
  BY Zenon DEF Request
<1> HIDE DEF start
<1>2. SameListings(started, Idle)
  BY IdleType DEF Job, SameListings
<1> HIDE DEF started
<1> QED
  BY <1>1, <1>2

\* One that moves on keeps those it has.
LEMMA GotoKeeps ==
  ASSUME job \in [Workers -> Job], NEW w \in Workers, NEW next, Goto(w, next)
  PROVE  SameListings(job'[w], job[w])
  BY DEF Goto, Job, SameListings

\* A finished or cleared job passes, whatever it did.
LEMMA FinishPasses ==
  ASSUME job \in [Workers -> Job], NEW w \in Workers, NEW failure \in BOOLEAN,
         Finish(w, failure)
  PROVE  JobPasses(w) /\ \A v \in Workers : v # w => job'[v] = job[v]
  BY FinishTypes, FinishForgets DEF JobPasses

\* Reading the tokens dates the list.
LEMMA ListTokensEffect ==
  ASSUME CacheTypeOK, NEW w \in Workers, ListTokens(w)
  PROVE  /\ UNCHANGED <<plugged, moves, cache>>
         /\ job[w].stage = "listing"
         /\ job'[w].tokens \in {NoToken, plugged} /\ job'[w].tokens_read = moves
         /\ job'[w].certificates = job[w].certificates
         /\ job'[w].certificates_read = job[w].certificates_read
         /\ job'[w].op = job[w].op
         /\ job'[w].stage = IF Deep(w) THEN "listingCertificates" ELSE "publishing"
         /\ \A v \in Workers : v # w => job'[v] = job[v]
  BY DEF ListTokens, View, CacheTypeOK, Job

\* Reading the certificates dates theirs.
LEMMA ListCertificatesEffect ==
  ASSUME CacheTypeOK, NEW w \in Workers, ListCertificates(w)
  PROVE  /\ UNCHANGED <<plugged, moves, cache>>
         /\ job[w].stage = "listingCertificates"
         /\ job'[w].tokens = job[w].tokens /\ job'[w].tokens_read = job[w].tokens_read
         /\ job'[w].certificates \in {NoToken, plugged}
         /\ job'[w].certificates_read = moves
         /\ job'[w].op = job[w].op /\ job'[w].stage = "publishing"
         /\ \A v \in Workers : v # w => job'[v] = job[v]
  BY DEF ListCertificates, View, CacheTypeOK, Job

\* A publication puts the listings of the job into the cache, the token list
\* alone if the refresh was a fast one, and leaves no job with listings.
LEMMA PublishEffect ==
  ASSUME CacheTypeOK, NEW w \in Workers, Publish(w)
  PROVE  /\ UNCHANGED <<plugged, moves>>
         /\ job[w].stage = "publishing"
         /\ cache'.loaded_at
         /\ cache'.tokens = job[w].tokens /\ cache'.tokens_read = job[w].tokens_read
         /\ IF Deep(w)
            THEN /\ cache'.certificates_loaded_at
                 /\ cache'.certificates = job[w].certificates
                 /\ cache'.certificates_read = job[w].certificates_read
            ELSE /\ cache'.certificates_loaded_at = cache.certificates_loaded_at
                 /\ cache'.certificates = cache.certificates
                 /\ cache'.certificates_read = cache.certificates_read
         /\ \A v \in Workers : job'[v].stage \notin {"listingCertificates", "publishing"}
         /\ \A v \in Workers : SameListings(job'[v], job[v]) \/ SameListings(job'[v], Idle)
<1>1. JobPasses(w) /\ \A v \in Workers : v # w => job'[v] = job[v]
  BY FinishPasses DEF Publish, CacheTypeOK
<1>2. \A v \in Workers : v # w => job[v].stage \notin Holding
  BY DEF Publish, CacheTypeOK, Holding
<1>3. \A v \in Workers : /\ job'[v].stage \notin {"listingCertificates", "publishing"}
                         /\ SameListings(job'[v], job[v]) \/ SameListings(job'[v], Idle)
  BY <1>1, <1>2 DEF JobPasses, Holding, SameListings
<1> QED
  BY <1>3 DEF Publish, CacheTypeOK, Cache

\* What an invalidation leaves.
LEMMA InvalidateEffect ==
  ASSUME Invalidate
  PROVE  /\ cache'.tokens = NoToken /\ cache'.certificates = NoToken
         /\ ~cache'.loaded_at /\ ~cache'.fresh /\ ~cache'.certificates_loaded_at
         /\ cache'.tokens_read = 0 /\ cache'.certificates_read = 0
  BY DEF Invalidate, EmptyCache

\* The passing of the lifetime touches nothing but the expiry.
LEMMA ElapseEffect ==
  ASSUME CacheTypeOK, TtlElapses
  PROVE  /\ ~cache'.fresh
         /\ cache'.tokens = cache.tokens /\ cache'.certificates = cache.certificates
         /\ cache'.loaded_at = cache.loaded_at
         /\ cache'.certificates_loaded_at = cache.certificates_loaded_at
         /\ cache'.tokens_read = cache.tokens_read
         /\ cache'.certificates_read = cache.certificates_read
  BY DEF TtlElapses, CacheTypeOK, Cache

\* Every step reads, publishes, moves the hardware or does none of these.
LEMMA StepKinds ==
  ASSUME CacheTypeOK, [OpenNext]_cacheVars
  PROVE  \/ Passes
         \/ HardwareMoves
         \/ \E w \in Workers : ListTokens(w) \/ ListCertificates(w) \/ Publish(w)
<1>t. job \in [Workers -> Job] /\ configured \in Driver
  BY DEF CacheTypeOK
<1>1. ASSUME NEW w \in Workers, Ask(w) PROVE Passes
  <2>1. PICK o \in Op : Request(w, o)
    BY <1>1 DEF Ask
  <2>2. /\ job'[w].stage \in {"checking", "rechecking", "waiting"}
        /\ \A v \in Workers \ {w} : job'[v] = job[v]
    BY <1>t, <2>1, RequestTypes
  <2>3. SameListings(job'[w], Idle)
    BY <1>t, <2>1, RequestForgets
  <2> QED BY <1>1, <2>2, <2>3 DEF Ask, Passes, JobPasses
<1>2. ASSUME NEW w \in Workers, NEW next \in Stage \ {"listingCertificates", "publishing"},
             Goto(w, next), UNCHANGED <<plugged, moves, cache>>
      PROVE  Passes
  BY <1>t, <1>2, GotoTypes, GotoKeeps DEF Passes, JobPasses
<1>3. ASSUME NEW w \in Workers, NEW failure \in BOOLEAN, Finish(w, failure),
             UNCHANGED <<plugged, moves>>, Invalidate \/ cache' = cache
      PROVE  Passes
  BY <1>t, <1>3, FinishPasses DEF Passes
<1>4. ASSUME NEW w \in Workers,
             \/ ResolveIdentityFails(w) \/ CheckLoaded(w)
             \/ RecheckExpiry(w) \/ ReadFails(w)
      PROVE  Passes
  <2>1. UNCHANGED <<plugged, moves, cache>>
    BY <1>4 DEF ResolveIdentityFails, CheckLoaded, RecheckExpiry, ReadFails
  <2>2. \/ Goto(w, "invalidating") \/ Goto(w, "waiting") \/ Goto(w, "rechecking")
        \/ Finish(w, FALSE) \/ Finish(w, TRUE)
    BY <1>4, Zenon DEF ResolveIdentityFails, CheckLoaded, RecheckExpiry, ReadFails
  <2>3. {"invalidating", "waiting", "rechecking"}
            \subseteq Stage \ {"listingCertificates", "publishing"}
    BY DEF Stage
  <2> QED BY <1>2, <1>3, <2>1, <2>2, <2>3
<1>5. ASSUME NEW w \in Workers, InvalidateAfterMiss(w) PROVE Passes
  BY <1>3, <1>5 DEF InvalidateAfterMiss
<1>6. ASSUME NEW w \in Workers, AcquireRefreshLock(w) \/ ProbeLibrary(w) PROVE Passes
  <2>1. UNCHANGED <<plugged, moves, cache>>
    BY <1>6 DEF AcquireRefreshLock, ProbeLibrary
  <2>2. /\ job'[w].stage \in {"probing", "listing"}
        /\ SameListings(job'[w], job[w])
        /\ \A v \in Workers \ {w} : job'[v] = job[v]
    BY <1>t, <1>6 DEF AcquireRefreshLock, ProbeLibrary, ChooseLibrary, Job, SameListings
  <2> QED BY <2>1, <2>2 DEF Passes, JobPasses
<1>7. CASE Clear \/ TtlElapses \/ UNCHANGED cacheVars
  BY <1>7 DEF Clear, TtlElapses, cacheVars, Passes
<1> QED
  BY <1>1, <1>4, <1>5, <1>6, <1>7 DEF OpenNext, CallerStep, RefreshStep

-----------------------------------------------------------------------------
(* What the flags promise. *)

\* The flags are true at the start and after every step.
LEMMA FlagsStep ==
  CacheTypeOK /\ FlagsTellTheContents /\ [OpenNext]_cacheVars => FlagsTellTheContents'
<1> SUFFICES ASSUME CacheTypeOK, FlagsTellTheContents, [OpenNext]_cacheVars
             PROVE  FlagsTellTheContents'
  OBVIOUS
<1>1. ASSUME NEW w \in Workers, Publish(w) PROVE FlagsTellTheContents'
  BY <1>1, PublishEffect DEF FlagsTellTheContents
<1>2. CASE Invalidate
  BY <1>2, InvalidateEffect DEF FlagsTellTheContents
<1>3. CASE TtlElapses
  BY <1>3, ElapseEffect DEF FlagsTellTheContents
<1>4. CASE cache' = cache
  BY <1>4 DEF FlagsTellTheContents
<1> QED
  BY <1>1, <1>2, <1>3, <1>4, StepKinds, ListTokensEffect, ListCertificatesEffect
     DEF Passes, HardwareMoves

\* GET /tokens and GET /certificates, which look only at the flags, serve lists
\* that were read since the last invalidation.
THEOREM OpenFlagsAreTrue == OpenSpec => []FlagsTellTheContents
<1>1. CacheInit => FlagsTellTheContents
  BY DEF CacheInit, EmptyCache, FlagsTellTheContents
<1> QED
  BY <1>1, FlagsStep, OpenTypeCorrect, PTL DEF OpenSpec

\* So it is with the callers of core/cache.rs.
THEOREM FlagsAreTrue == CacheSpec => []FlagsTellTheContents
BY OpenFlagsAreTrue, CacheIsOpen, PTL

-----------------------------------------------------------------------------
(* The order of readings. *)

\* The invariant holds at the start: nothing has been listed.
LEMMA InvInit == CacheInit => IInv /\ ListingsAreTrue
BY TypeInit, BoundsAssumption
   DEF CacheInit, IInv, EmptyCache, Idle, CacheReadingsArePast, JobReadingsArePast,
       JobReadingsAreNewer, ListingsAreTrue, UpToDate

\* Only ListTokens and ListCertificates take a listing, which dates it now; only
\* Publish puts one into the cache, and only the holder of refresh_lock publishes.
LEMMA InvStep ==
  IInv /\ ListingsAreTrue /\ CacheTypeOK' /\ [OpenNext]_cacheVars
      => IInv' /\ ListingsAreTrue'
<1> SUFFICES ASSUME IInv, ListingsAreTrue, CacheTypeOK', [OpenNext]_cacheVars
             PROVE  IInv' /\ ListingsAreTrue'
  OBVIOUS
<1> DEFINE Readings == /\ CacheReadingsArePast /\ JobReadingsArePast
                       /\ JobReadingsAreNewer /\ ListingsAreTrue
<1> SUFFICES Readings'
  BY DEF IInv
<1> USE DEF CacheReadingsArePast, JobReadingsArePast, JobReadingsAreNewer,
            ListingsAreTrue, UpToDate
<1>t. /\ CacheTypeOK /\ Readings
      /\ moves \in Nat /\ cache.tokens_read \in Nat /\ cache.certificates_read \in Nat
      /\ \A w \in Workers : job[w].tokens_read \in Nat /\ job[w].certificates_read \in Nat
      /\ Idle.tokens_read = 0 /\ Idle.certificates_read = 0
      /\ Idle.tokens = NoToken /\ Idle.certificates = NoToken
  BY BoundsAssumption DEF IInv, CacheTypeOK, Cache, Job, Idle
<1> HIDE DEF Readings
<1>1. CASE Passes
  <2>1. UNCHANGED <<plugged, moves>>
    BY <1>1 DEF Passes
  <2>2. \/ /\ cache'.tokens_read = cache.tokens_read /\ cache'.tokens = cache.tokens
           /\ cache'.certificates_read = cache.certificates_read
           /\ cache'.certificates = cache.certificates
        \/ /\ cache'.tokens_read = 0 /\ cache'.tokens = NoToken
           /\ cache'.certificates_read = 0 /\ cache'.certificates = NoToken
    BY <1>t, <1>1, InvalidateEffect, ElapseEffect DEF Passes
  <2>3. \A w \in Workers :
           job'[w] = job[w]
             \/ /\ job'[w].stage \notin {"listingCertificates", "publishing"}
                /\ SameListings(job'[w], job[w]) \/ SameListings(job'[w], Idle)
    BY <1>1 DEF Passes, JobPasses
  <2>4. JobReadingsAreNewer'
    BY <1>t, <2>1, <2>2, <2>3 DEF Readings, Deep
  <2>5. JobReadingsArePast' /\ CacheReadingsArePast'
    BY <1>t, <2>1, <2>2, <2>3 DEF Readings, SameListings
  <2>6. ListingsAreTrue'
    BY <1>t, <2>1, <2>2, <2>3 DEF Readings, SameListings
  <2> QED BY <2>4, <2>5, <2>6 DEF Readings
<1>2. CASE HardwareMoves
  BY <1>t, <1>2 DEF HardwareMoves, Readings, Deep
<1>3. ASSUME NEW w \in Workers, ListTokens(w) PROVE Readings'
  BY <1>t, <1>3, ListTokensEffect DEF Readings, Deep
<1>4. ASSUME NEW w \in Workers, ListCertificates(w) PROVE Readings'
  BY <1>t, <1>4, ListCertificatesEffect DEF Readings, Deep
<1>5. ASSUME NEW w \in Workers, Publish(w) PROVE Readings'
  <2>1. JobReadingsAreNewer'
    BY <1>5, <1>t, PublishEffect
  <2>2. JobReadingsArePast' /\ CacheReadingsArePast'
    BY <1>t, <1>5, PublishEffect DEF Readings, SameListings
  <2>3. ListingsAreTrue'
    BY <1>t, <1>5, PublishEffect DEF Readings, SameListings
  <2> QED BY <2>1, <2>2, <2>3 DEF Readings
<1> QED
  BY <1>t, <1>1, <1>2, <1>3, <1>4, <1>5, StepKinds

\* Every listing in flight is newer than the cache it will go into, and one made
\* since the last move names what is plugged in.
THEOREM ReadingsInOrder == OpenSpec => [](IInv /\ ListingsAreTrue)
BY InvInit, InvStep, OpenTypeCorrect, PTL DEF OpenSpec

\* A step never puts an older list over a newer one.
LEMMA ForwardStep ==
  IInv /\ [OpenNext]_cacheVars =>
      /\ cache.loaded_at /\ cache'.loaded_at =>
             cache'.tokens_read >= cache.tokens_read
      /\ cache.certificates_loaded_at /\ cache'.certificates_loaded_at =>
             cache'.certificates_read >= cache.certificates_read
<1> DEFINE Forward ==
      /\ cache.loaded_at /\ cache'.loaded_at =>
             cache'.tokens_read >= cache.tokens_read
      /\ cache.certificates_loaded_at /\ cache'.certificates_loaded_at =>
             cache'.certificates_read >= cache.certificates_read
<1> SUFFICES ASSUME IInv, [OpenNext]_cacheVars PROVE Forward
  OBVIOUS
<1>t. /\ CacheTypeOK
      /\ cache.tokens_read \in Nat /\ cache.certificates_read \in Nat
      /\ \A w \in Workers : job[w].tokens_read \in Nat /\ job[w].certificates_read \in Nat
  BY BoundsAssumption DEF IInv, CacheTypeOK, Cache, Job
<1>1. ASSUME NEW w \in Workers, Publish(w) PROVE Forward
  <2>1. /\ job[w].tokens_read >= cache.tokens_read
        /\ Deep(w) => job[w].certificates_read >= cache.certificates_read
    BY <1>t, <1>1, PublishEffect DEF IInv, JobReadingsAreNewer
  <2> QED
    BY <1>t, <1>1, <2>1, PublishEffect
<1>2. CASE Invalidate
  BY <1>2, InvalidateEffect
<1>3. CASE TtlElapses
  BY <1>t, <1>3, ElapseEffect
<1>4. CASE cache' = cache
  BY <1>t, <1>4
<1> QED
  BY <1>t, <1>1, <1>2, <1>3, <1>4, StepKinds, ListTokensEffect, ListCertificatesEffect
     DEF Passes, HardwareMoves

\* A list in the cache is never replaced by one taken before it, however the
\* refreshes of core/cache.rs and the invalidations, which do not take
\* refresh_lock, interleave, and whoever asks for them.
THEOREM OpenReadingsGoForward == OpenSpec => ReadingsNeverGoBack
<1>1. IInv /\ [OpenNext]_cacheVars =>
        [ /\ cache.loaded_at /\ cache'.loaded_at =>
                 cache'.tokens_read >= cache.tokens_read
          /\ cache.certificates_loaded_at /\ cache'.certificates_loaded_at =>
                 cache'.certificates_read >= cache.certificates_read ]_cacheVars
  BY ForwardStep
<1> QED
  BY <1>1, ReadingsInOrder, PTL DEF OpenSpec, ReadingsNeverGoBack

\* So it is with the callers of core/cache.rs.
THEOREM NoReadingGoesBack == CacheSpec => ReadingsNeverGoBack
BY OpenReadingsGoForward, CacheIsOpen, PTL
=============================================================================
