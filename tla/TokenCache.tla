----------------------------- MODULE TokenCache -----------------------------
(***************************************************************************)
(* The token and certificate cache of core/cache.rs, with the callers that *)
(* fill and clear it: HTTP handlers, desktop commands and the signing code. *)
(*                                                                         *)
(* Two locks matter: refresh_lock is held from the first probe of a driver *)
(* to the publication of what it listed; the state lock makes publications *)
(* and invalidations atomic.  invalidate() takes only the second one, so   *)
(* it can fall inside a refresh.  One reader slot and the token plugged in *)
(* it stand for the hardware; a token stands for its own certificates.     *)
(***************************************************************************)
EXTENDS Naturals

CONSTANTS
    Workers,    \* the tasks that may refresh or invalidate the cache
    Tokens,     \* what can be plugged in the slot
    Libraries,  \* the installed PKCS#11 drivers
    Supports,   \* the tokens each driver recognises
    Rank,       \* the place of each driver in the list of known locations
    MaxMoves,   \* bound: how often a token is plugged or unplugged
    MaxCalls,   \* bound: how many calls are made
    NoToken,    \* nothing in the slot, or an empty list
    NoLibrary,  \* no driver
    Nobody      \* refresh_lock is free

ASSUME SupportsAssumption == Supports \in [Libraries -> SUBSET Tokens]
ASSUME LibrariesAssumption == Libraries # {}
ASSUME RankAssumption ==
    /\ Rank \in [Libraries -> Nat]
    /\ \A k, l \in Libraries : Rank[k] = Rank[l] => k = l
ASSUME BoundsAssumption == MaxMoves \in Nat /\ MaxCalls \in Nat
ASSUME NobodyAssumption ==
    /\ NoToken \notin Tokens
    /\ NoLibrary \notin Libraries
    /\ Nobody \notin Workers

VARIABLES
    plugged,     \* the token in the slot
    moves,       \* how often it changed: dates every listing
    configured,  \* pkcs11.library_path of the active configuration, or none
    cache,       \* TokenCertificateCacheState
    lock,        \* who holds refresh_lock
    job,         \* what each worker is doing
    calls        \* calls made so far

cacheVars == <<plugged, moves, configured, cache, lock, job, calls>>

Slot == Tokens \cup {NoToken}
Driver == Libraries \cup {NoLibrary}

\* loaded_at, certificates_loaded_at and expires_at matter only as set or not
\* and passed or not.  tokens_read, certificates_read and driver are not in the
\* code: when the lists were taken and under which configured driver.
Cache == [tokens : Slot, certificates : Slot,
          loaded_at : BOOLEAN, fresh : BOOLEAN, certificates_loaded_at : BOOLEAN,
          tokens_read : 0..MaxMoves, certificates_read : 0..MaxMoves,
          driver : Driver]

Op == {"tokens", "certificates", "identities", "force", "fast"}
Stage == {"idle", "checking", "rechecking", "waiting", "probing",
          "listing", "listingCertificates", "publishing", "invalidating"}

\* The stages in which a worker holds refresh_lock.
Holding == {"probing", "listing", "listingCertificates", "publishing"}

Job == [stage : Stage, op : Op, config : Driver, left : SUBSET Libraries,
        library : Driver, tokens : Slot, tokens_read : 0..MaxMoves,
        certificates : Slot, certificates_read : 0..MaxMoves, failed : BOOLEAN]

CacheTypeOK ==
    /\ plugged \in Slot
    /\ moves \in 0..MaxMoves
    /\ configured \in Driver
    /\ cache \in Cache
    /\ lock \in Workers \cup {Nobody}
    /\ job \in [Workers -> Job]
    /\ calls \in 0..MaxCalls
    /\ \A w \in Workers : lock = w <=> job[w].stage \in Holding

EmptyCache ==
    [tokens |-> NoToken, certificates |-> NoToken, loaded_at |-> FALSE,
     fresh |-> FALSE, certificates_loaded_at |-> FALSE,
     tokens_read |-> 0, certificates_read |-> 0, driver |-> NoLibrary]

Idle ==
    [stage |-> "idle", op |-> "force", config |-> NoLibrary, left |-> {},
     library |-> NoLibrary, tokens |-> NoToken, tokens_read |-> 0,
     certificates |-> NoToken, certificates_read |-> 0, failed |-> FALSE]

CacheInit ==
    /\ plugged \in Slot
    /\ moves = 0
    /\ configured \in Driver
    /\ cache = EmptyCache
    /\ lock = Nobody
    /\ job = [w \in Workers |-> Idle]
    /\ calls = 0

-----------------------------------------------------------------------------
(* A refresh: refresh_fast, refresh_tokens_and_certificates and its force_  *)
(* variant.  The configuration is the copy the caller took before it asked. *)

Goto(w, next) == job' = [job EXCEPT ![w].stage = next]

\* A finished job keeps nothing but its result.
Finish(w, failure) ==
    job' = [job EXCEPT ![w] = [Idle EXCEPT !.failed = failure]]

\* Every call clones the configuration first.  "tokens" and "certificates" are
\* GET /tokens and GET /certificates; "identities" the desktop commands that go
\* straight to refresh_tokens_and_certificates; "force" the update button, the
\* automatic driver setup and the certificate lookup of the signing code.
Request(w, o) ==
    /\ job[w].stage = "idle"
    /\ job' = [job EXCEPT ![w] = [Idle EXCEPT
                   !.op = o,
                   !.config = configured,
                   !.stage = CASE o \in {"tokens", "certificates"} -> "checking"
                               [] o = "identities" -> "rechecking"
                               [] OTHER -> "waiting"]]

Call(w) ==
    /\ calls < MaxCalls
    /\ calls' = calls + 1
    /\ \E o \in Op \ {"fast"} : Request(w, o)
    /\ UNCHANGED <<plugged, moves, configured, cache, lock>>

\* The handler looks at the cache and serves it, or starts the refresh.
CheckLoaded(w) ==
    /\ job[w].stage = "checking"
    /\ LET tokens == job[w].op = "tokens"
           hit == IF tokens THEN cache.loaded_at ELSE cache.certificates_loaded_at
       IN  IF hit THEN Finish(w, FALSE)
           ELSE Goto(w, IF tokens THEN "waiting" ELSE "rechecking")
    /\ UNCHANGED <<plugged, moves, configured, cache, lock, calls>>

\* refresh_tokens_and_certificates returns the snapshot while it has not
\* expired; this is the only reader of expires_at.
RecheckExpiry(w) ==
    /\ job[w].stage = "rechecking"
    /\ IF cache.fresh /\ cache.certificates_loaded_at
       THEN Finish(w, FALSE)
       ELSE Goto(w, "waiting")
    /\ UNCHANGED <<plugged, moves, configured, cache, lock, calls>>

\* Wrong variant: the reads are not covered by the lock.
UnlockedRefresh(w) ==
    /\ job[w].stage = "waiting"
    /\ job' = [job EXCEPT ![w].stage = "probing", ![w].left = Libraries]
    /\ UNCHANGED <<plugged, moves, configured, cache, lock, calls>>

AcquireRefreshLock(w) ==
    /\ job[w].stage = "waiting"
    /\ lock = Nobody
    /\ lock' = w
    /\ job' = [job EXCEPT ![w].stage = "probing", ![w].left = Libraries]
    /\ UNCHANGED <<plugged, moves, configured, cache, calls>>

\* candidate_library_paths: the configured driver, then the known locations.
IsFirstCandidate(l, config, libraries) ==
    /\ l \in libraries
    /\ \/ l = config
       \/ config \notin libraries /\ \A k \in libraries : Rank[l] <= Rank[k]

View(l) == IF plugged \in Supports[l] THEN plugged ELSE NoToken

ChooseLibrary(w, l) ==
    job' = [job EXCEPT ![w].stage = "listing", ![w].left = {}, ![w].library = l]

\* detect_pkcs11_library_for_token lists the tokens of one driver after the
\* other, releasing PKCS11_ACCESS in between; a probe that fails counts as a
\* driver that sees nothing, and the first candidate is the fallback.
ProbeLibrary(w) ==
    /\ job[w].stage = "probing"
    /\ \E l \in job[w].left :
        /\ IsFirstCandidate(l, job[w].config, job[w].left)
        /\ \/ View(l) # NoToken /\ ChooseLibrary(w, l)
           \/ /\ job[w].left = {l}
              /\ \E first \in Libraries :
                    /\ IsFirstCandidate(first, job[w].config, Libraries)
                    /\ ChooseLibrary(w, first)
           \/ /\ job[w].left # {l}
              /\ job' = [job EXCEPT ![w].left = @ \ {l}]
    /\ UNCHANGED <<plugged, moves, configured, cache, lock, calls>>

Deep(w) == job[w].op \notin {"tokens", "fast"}

ListTokens(w) ==
    /\ job[w].stage = "listing"
    /\ job' = [job EXCEPT
                  ![w].tokens = View(job[w].library),
                  ![w].tokens_read = moves,
                  ![w].stage = IF Deep(w) THEN "listingCertificates" ELSE "publishing"]
    /\ UNCHANGED <<plugged, moves, configured, cache, lock, calls>>

ListCertificates(w) ==
    /\ job[w].stage = "listingCertificates"
    /\ job' = [job EXCEPT ![w].certificates = View(job[w].library),
                          ![w].certificates_read = moves,
                          ![w].stage = "publishing"]
    /\ UNCHANGED <<plugged, moves, configured, cache, lock, calls>>

\* Wrong variant: the error path keeps the guard.
ReadFailsHoldingLock(w) ==
    /\ job[w].stage \in {"listing", "listingCertificates"}
    /\ Finish(w, TRUE)
    /\ UNCHANGED <<plugged, moves, configured, cache, lock, calls>>

\* Either listing may fail; the ? leaves the cache as it is and drops the guard.
ReadFails(w) ==
    /\ job[w].stage \in {"listing", "listingCertificates"}
    /\ lock' = Nobody
    /\ Finish(w, TRUE)
    /\ UNCHANGED <<plugged, moves, configured, cache, calls>>

\* update_tokens keeps the certificates it finds, update_all replaces them.
Publish(w) ==
    /\ job[w].stage = "publishing"
    /\ LET listed == [cache EXCEPT !.tokens = job[w].tokens,
                                   !.tokens_read = job[w].tokens_read,
                                   !.loaded_at = TRUE,
                                   !.fresh = TRUE,
                                   !.driver = job[w].config]
       IN  cache' = IF ~Deep(w) THEN listed
                    ELSE [listed EXCEPT !.certificates = job[w].certificates,
                                        !.certificates_read = job[w].certificates_read,
                                        !.certificates_loaded_at = TRUE]
    /\ lock' = Nobody
    /\ Finish(w, FALSE)
    /\ UNCHANGED <<plugged, moves, configured, calls>>

-----------------------------------------------------------------------------
(* Clearing the cache. *)

\* invalidate() leaves pkcs11_library_path, which nothing reads back.
Invalidate == cache' = EmptyCache

\* resolve_signing_identity takes a snapshot; an identity it does not offer
\* makes the command invalidate the cache in a second critical section.
Offers(t) == cache.tokens = t /\ cache.certificates # NoToken

ResolveIdentityFails(w) ==
    /\ job[w].stage = "idle"
    /\ calls < MaxCalls
    /\ calls' = calls + 1
    /\ \E t \in Tokens : ~Offers(t)
    /\ Goto(w, "invalidating")
    /\ UNCHANGED <<plugged, moves, configured, cache, lock>>

InvalidateAfterMiss(w) ==
    /\ job[w].stage = "invalidating"
    /\ Invalidate
    /\ Finish(w, FALSE)
    /\ UNCHANGED <<plugged, moves, configured, lock, calls>>

\* replace_config holds the configuration's write lock over both writes, and
\* the cache never looks at the configuration: one step.
ReplaceConfig ==
    /\ calls < MaxCalls
    /\ calls' = calls + 1
    /\ configured' \in Driver
    /\ Invalidate
    /\ UNCHANGED <<plugged, moves, lock, job>>

-----------------------------------------------------------------------------
(* External: the person at the reader, and the clock behind expires_at. *)

MoveToken ==
    /\ moves < MaxMoves
    /\ moves' = moves + 1
    /\ IF plugged = NoToken THEN plugged' \in Tokens ELSE plugged' = NoToken

TokenMoves ==
    /\ MoveToken
    /\ UNCHANGED <<configured, cache, lock, job, calls>>

TtlElapses ==
    /\ cache.fresh
    /\ cache' = [cache EXCEPT !.fresh = FALSE]
    /\ UNCHANGED <<plugged, moves, configured, lock, job, calls>>

RefreshStep(w) ==
    \/ AcquireRefreshLock(w)
    \/ ProbeLibrary(w)
    \/ ListTokens(w)
    \/ ListCertificates(w)
    \/ ReadFails(w)
    \/ Publish(w)

CallerStep(w) ==
    \/ CheckLoaded(w)
    \/ RecheckExpiry(w)
    \/ RefreshStep(w)
    \/ InvalidateAfterMiss(w)

CacheNext ==
    \/ \E w \in Workers : Call(w) \/ ResolveIdentityFails(w) \/ CallerStep(w)
    \/ ReplaceConfig
    \/ TokenMoves
    \/ TtlElapses

\* A started task is polled until it returns and a driver call returns, with
\* its list or with an error.
CacheSpec ==
    /\ CacheInit
    /\ [][CacheNext]_cacheVars
    /\ \A w \in Workers : WF_cacheVars(CallerStep(w))

-----------------------------------------------------------------------------
(* Properties. *)

\* What the flags promise to those who read only the flags: GET /tokens serves
\* a list only if one was read since the last invalidation, and so does GET
\* /certificates; what an expiry test spares a reader is there.
FlagsTellTheContents ==
    /\ ~cache.loaded_at =>
           /\ cache.tokens = NoToken
           /\ ~cache.fresh
           /\ ~cache.certificates_loaded_at
    /\ ~cache.certificates_loaded_at => cache.certificates = NoToken

\* However refreshes and invalidations interleave, a list in the cache is never
\* replaced by one that was taken before it (refresh_lock covers the reads, not
\* only the write).
ReadingsNeverGoBack ==
    [][ /\ cache.loaded_at /\ cache'.loaded_at =>
               cache'.tokens_read >= cache.tokens_read
        /\ cache.certificates_loaded_at /\ cache'.certificates_loaded_at =>
               cache'.certificates_read >= cache.certificates_read ]_cacheVars

\* Every call returns, whatever failed on the way: refresh_lock is released on
\* the error paths too, or every later miss would wait for it.
EveryCallReturns ==
    \A w \in Workers : job[w].stage # "idle" ~> job[w].stage = "idle"

\* README.md:481: the cache is invalidated when the driver configuration
\* changes.  A refresh that took its copy of the configuration before the change
\* fills the cache again after it.
DriverChangeEmptiesCache == cache.loaded_at => cache.driver = configured

=============================================================================
