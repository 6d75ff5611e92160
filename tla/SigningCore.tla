----------------------------- MODULE SigningCore -----------------------------
(***************************************************************************)
(* How a signing call uses the token: sign_hash, sign_rs256 and its batch  *)
(* variant in core/pkcs11/provider.rs, under what calls them for JWS, PDF, *)
(* sessions, auto-sign and manual batches.                                 *)
(*                                                                         *)
(* A call is a sequence of portions, each signed under one login: a session *)
(* makes one portion of each file, a manual batch one of its JSON files and *)
(* one of its PDF files.  One reader slot stands for the hardware, a token *)
(* for its only key and certificate, and CertId for their common CKA_ID.   *)
(* Of the cache (module TokenCache) only the two lists are kept, and what  *)
(* its other users do to them.                                             *)
(***************************************************************************)
EXTENDS Naturals, Sequences

CONSTANTS
    Workers,     \* the blocking tasks that sign
    Tokens,      \* what can be plugged in the slot
    CertId,      \* the CKA_ID of each token's certificate and key
    Pins,        \* what users type that some token accepts
    PinOf,       \* the PIN of each token
    Libraries,   \* the PKCS#11 drivers that are installed
    Known,       \* those in COMMON_PKCS11_LIBRARY_PATHS
    Rank,        \* their order there
    Supports,    \* the tokens each driver recognises
    Configured,  \* pkcs11.library_path, installed or not
    Requests,    \* the calls considered: a kind and a sequence of files
    MaxMoves,    \* bound: how often a token is plugged or unplugged
    MaxCalls,    \* bound: how many calls are made
    NoToken,     \* nothing in the slot, or no certificate
    NoPin,       \* a PIN no token accepts
    NoLibrary,   \* no driver
    Nobody       \* PKCS11_ACCESS is free

Kind == {"hash", "jws", "pdf", "batch"}
File == [name : Nat, format : {"hash", "json", "pdf", "other"}, valid : BOOLEAN]

ASSUME RequestsAssumption ==
    /\ Requests # {}
    /\ \A r \in Requests : r.kind \in Kind /\ r.files \in Seq(File) /\ r.files # <<>>
\* A session has one format (session_manager.rs:267-273); a hash or a payload is
\* signed whatever it says, only a PDF is looked into.
FormatOf == [hash |-> "hash", jws |-> "json", pdf |-> "pdf"]
ASSUME FormatsAssumption ==
    \A r \in Requests : \A i \in DOMAIN r.files :
        /\ r.kind # "batch" => r.files[i].format = FormatOf[r.kind]
        /\ r.files[i].format # "pdf" => r.files[i].valid
ASSUME SupportsAssumption == Supports \in [Libraries -> SUBSET Tokens]
ASSUME RankAssumption ==
    /\ Known \subseteq Libraries
    /\ Rank \in [Libraries -> Nat]
    /\ \A k, l \in Libraries : Rank[k] = Rank[l] => k = l
ASSUME BoundsAssumption == MaxMoves \in Nat /\ MaxCalls \in Nat
ASSUME PinAssumption == PinOf \in [Tokens -> Pins] /\ NoPin \notin Pins
ASSUME NobodyAssumption ==
    NoToken \notin Tokens /\ NoLibrary \notin Libraries /\ Nobody \notin Workers

VARIABLES
    plugged,  \* the token in the slot
    moves,    \* how often it changed
    cache,    \* the two lists of the cache
    access,   \* who holds PKCS11_ACCESS
    session,  \* the PKCS#11 session: its token and whether it is logged in
    job,      \* what each worker is doing
    calls     \* calls made so far

vars == <<plugged, moves, cache, access, session, job, calls>>

Slot == Tokens \cup {NoToken}
Pin == Pins \cup {NoPin}

Stage == {"idle", "resolving", "reloading", "reading", "looking", "refreshing",
          "preparing", "locking", "login", "finding", "signing", "loggingOut"}

\* The stages in which a worker holds PKCS11_ACCESS.
Holding == {"login", "finding", "signing", "loggingOut"}

\* token is the identity chosen (NoToken: a hash without certificate_id), pin
\* what was typed, left the files still to be read, todo the portions still to
\* be signed, x5c the certificate found, out the signatures made.  refused
\* counts the logins that failed: it is not in the code.
Signature == [file : File, key : Tokens, x5c : Slot]
Files == Seq(File)
Portions == Seq(Files)
Signatures == Seq(Signature)
Job == [stage : Stage, request : Requests, token : Slot, pin : Pin, x5c : Slot,
        left : Files, todo : Portions, out : Signatures, failed : BOOLEAN,
        refused : Nat]

SomeRequest == CHOOSE r \in Requests : TRUE
Idle == [stage |-> "idle", request |-> SomeRequest, token |-> NoToken,
         pin |-> NoPin, x5c |-> NoToken, left |-> <<>>, todo |-> <<>>,
         out |-> <<>>, failed |-> FALSE, refused |-> 0]
Closed == [token |-> NoToken, user |-> FALSE]
EmptyCache == [tokens |-> NoToken, certificates |-> NoToken]

TypeOK ==
    /\ plugged \in Slot
    /\ moves \in 0..MaxMoves
    /\ cache \in [tokens : Slot, certificates : Slot]
    /\ access \in Workers \cup {Nobody}
    /\ session \in [token : Slot, user : BOOLEAN]
    /\ job \in [Workers -> Job]
    /\ calls \in 0..MaxCalls
    /\ \A w \in Workers : access = w <=> job[w].stage \in Holding

Init ==
    /\ plugged \in Slot
    /\ moves = 0
    /\ cache = EmptyCache
    /\ access = Nobody
    /\ session = Closed
    /\ job = [w \in Workers |-> Idle]
    /\ calls = 0

-----------------------------------------------------------------------------
(* The drivers.  FIRMAPACHE_PKCS11 only replaces Configured.               *)

First(libraries) == CHOOSE l \in libraries : \A k \in libraries : Rank[l] <= Rank[k]

\* detect_pkcs11_library asks for a file, never for a token.
SelectedLibrary ==
    CASE Configured \in Libraries -> Configured
      [] Configured \notin Libraries /\ Known # {} -> First(Known)
      [] OTHER -> NoLibrary

\* What get_slots_with_token finds in the slot when a key is to be used.
Recognised ==
    IF SelectedLibrary # NoLibrary /\ plugged \in Supports[SelectedLibrary]
    THEN plugged ELSE NoToken

\* What a refresh lists: detect_pkcs11_library_for_token tries the drivers in
\* turn, home_driver_paths included, until one sees a token.
Listed == IF \E l \in Libraries : plugged \in Supports[l] THEN plugged ELSE NoToken

-----------------------------------------------------------------------------
(* The start of a call.                                                    *)

\* A session and a single file: one login for each file.
OnePerFile(files) == [i \in 1..Len(files) |-> <<files[i]>>]

Goto(w, next) == job' = [job EXCEPT ![w].stage = next]

\* A finished job keeps nothing but its result.
Finish(w, failure) == job' = [job EXCEPT ![w] = [Idle EXCEPT !.failed = failure]]

Begin(w, request, token, pin, stage) ==
    /\ job[w].stage = "idle"
    /\ calls < MaxCalls
    /\ calls' = calls + 1
    /\ job' = [job EXCEPT ![w] = [Idle EXCEPT
                   !.stage = stage, !.request = request, !.token = token, !.pin = pin,
                   !.left = IF request.kind = "batch" THEN request.files ELSE <<>>,
                   !.todo = IF request.kind = "batch" THEN <<<<>>, <<>>>>
                            ELSE OnePerFile(request.files)]]
    /\ UNCHANGED <<plugged, moves, cache, access, session>>

\* POST /sign/hash names a slot and maybe a certificate, and goes to the driver.
SignHash(w) ==
    \E request \in Requests, token \in Slot, pin \in Pin :
        /\ request.kind = "hash"
        /\ Begin(w, request, token, pin, "locking")

\* One file, an approved session, auto-sign and a manual batch begin alike: the
\* identity is resolved in the cache and only its slot and id are kept.
SignFiles(w) ==
    \E request \in Requests, token \in Tokens :
      \E pin \in {PinOf[token], NoPin}, stage \in {"resolving", "reloading"} :
        /\ request.kind # "hash"
        /\ request.kind = "batch" => stage = "resolving"
        /\ Begin(w, request, token, pin, stage)

\* resolve_signing_identity joins the two lists by slot: the serial in the
\* identity is the listed token's, the id the listed certificate's.
Offers(lists, token) ==
    /\ lists.tokens = token
    /\ lists.certificates # NoToken
    /\ CertId[lists.certificates] = CertId[token]

\* The commands forget the cache when the identity is not offered.  An offered
\* one may have expired, a file be unreadable, a session already be resolved.
Resolve(w) ==
    /\ job[w].stage = "resolving"
    /\ IF Offers(cache, job[w].token)
       THEN /\ \/ Goto(w, IF job[w].request.kind = "batch" THEN "reading" ELSE "looking")
               \/ Finish(w, TRUE)
            /\ UNCHANGED cache
       ELSE Finish(w, TRUE) /\ cache' = EmptyCache
    /\ UNCHANGED <<plugged, moves, access, session, calls>>

Refresh == cache' = [tokens |-> Listed, certificates |-> Listed]

\* resolve_development_identity refreshes once before it gives up; the refresh
\* may fail or find the cache fresh, and its result is ignored.  The PIN may be
\* missing from the environment.
ResolveOrReload(w) ==
    /\ job[w].stage = "reloading"
    /\ IF Offers(cache, job[w].token)
       THEN UNCHANGED cache
       ELSE access = Nobody /\ (Refresh \/ UNCHANGED cache)
    /\ \/ Offers(cache', job[w].token) /\ Goto(w, "looking")
       \/ Finish(w, TRUE)
    /\ UNCHANGED <<plugged, moves, access, session, calls>>

\* sign_manual_batch sorts its files into JSON and PDF; one that cannot be read
\* or is of another kind ends it.
ReadFile(w) ==
    /\ job[w].stage = "reading"
    /\ job[w].left # <<>>
    /\ LET file == Head(job[w].left)
       IN  \/ /\ file.format = "json"
              /\ job' = [job EXCEPT ![w].left = Tail(@), ![w].todo[1] = Append(@, file)]
           \/ /\ file.format = "pdf"
              /\ job' = [job EXCEPT ![w].left = Tail(@), ![w].todo[2] = Append(@, file)]
           \/ Finish(w, TRUE)
    /\ UNCHANGED <<plugged, moves, cache, access, session, calls>>

\* The half without files is skipped.
AllRead(w) ==
    /\ job[w].stage = "reading"
    /\ job[w].left = <<>>
    /\ LET json == job[w].todo[1]
           pdf == job[w].todo[2]
       IN  job' = [job EXCEPT ![w].stage = "looking",
                              ![w].todo = CASE json = <<>> -> <<pdf>>
                                            [] pdf = <<>> -> <<json>>
                                            [] OTHER -> <<json, pdf>>]
    /\ UNCHANGED <<plugged, moves, cache, access, session, calls>>

Portion(w) == Head(job[w].todo)
AllValid(portion) == \A i \in DOMAIN portion : portion[i].valid

AfterLookup(w) == IF Portion(w)[1].format = "pdf" THEN "preparing" ELSE "locking"

\* certificate_der_base64_with_cache: by slot and id, and a refresh on a miss.
Look(w) ==
    /\ job[w].stage = "looking"
    /\ IF cache.certificates # NoToken /\ CertId[cache.certificates] = CertId[job[w].token]
       THEN job' = [job EXCEPT ![w].x5c = cache.certificates, ![w].stage = AfterLookup(w)]
       ELSE Goto(w, "refreshing")
    /\ UNCHANGED <<plugged, moves, cache, access, session, calls>>

\* The refresh may fail and leaves the cache as it is then.
RefreshAndLook(w) ==
    /\ job[w].stage = "refreshing"
    /\ access = Nobody
    /\ \/ /\ Refresh
          /\ IF Listed # NoToken /\ CertId[Listed] = CertId[job[w].token]
             THEN job' = [job EXCEPT ![w].x5c = Listed, ![w].stage = AfterLookup(w)]
             ELSE Finish(w, TRUE)
       \/ UNCHANGED cache /\ Finish(w, TRUE)
    /\ UNCHANGED <<plugged, moves, access, session, calls>>

\* sign_pdf_bytes looks at the header before the certificate and at the rest
\* after it; a batch prepares all its documents after it.
RefuseDocument(w) ==
    /\ \/ job[w].stage = "looking" /\ job[w].request.kind = "pdf"
       \/ job[w].stage = "preparing"
    /\ ~AllValid(Portion(w))
    /\ Finish(w, TRUE)
    /\ UNCHANGED <<plugged, moves, cache, access, session, calls>>

\* Wrong variant: the documents are not looked at before the login.
PrepareLater(w) ==
    /\ job[w].stage = "preparing"
    /\ Goto(w, "locking")
    /\ UNCHANGED <<plugged, moves, cache, access, session, calls>>

Prepare(w) ==
    /\ job[w].stage = "preparing"
    /\ AllValid(Portion(w))
    /\ Goto(w, "locking")
    /\ UNCHANGED <<plugged, moves, cache, access, session, calls>>

-----------------------------------------------------------------------------
(* One use of the token.                                                   *)

\* Wrong variant: the guard is kept on the error path.
AbandonLocked(w) == access' = w /\ session' = Closed /\ Finish(w, TRUE)

Abandon(w) ==
    /\ access' = Nobody
    /\ session' = Closed
    /\ Finish(w, TRUE)

\* The guard, the driver, the slot and the session: the first that fails ends
\* the call, and dropping the guard comes last.
OpenSession(w) ==
    /\ job[w].stage = "locking"
    /\ access = Nobody
    /\ \/ /\ Recognised # NoToken
          /\ access' = w
          /\ session' = [token |-> Recognised, user |-> FALSE]
          /\ Goto(w, "login")
       \/ Abandon(w)
    /\ UNCHANGED <<plugged, moves, cache, calls>>

Accepts(pin) == session.token \in {t \in Tokens : PinOf[t] = pin}

Refused(w) ==
    job' = [job EXCEPT ![w] = [Idle EXCEPT !.failed = TRUE,
                                           !.refused = job[w].refused + 1]]

\* Wrong variant: the next file is tried after a failed login.
LoginThenNext(w) ==
    /\ job[w].stage = "login"
    /\ \/ /\ Accepts(job[w].pin)
          /\ session' = [session EXCEPT !.user = TRUE]
          /\ Goto(w, "finding")
          /\ UNCHANGED access
       \/ /\ access' = Nobody
          /\ session' = Closed
          /\ IF Len(job[w].todo) = 1 THEN Refused(w)
             ELSE job' = [job EXCEPT ![w].todo = Tail(@), ![w].refused = @ + 1,
                                     ![w].stage = "locking"]
    /\ UNCHANGED <<plugged, moves, cache, calls>>

\* Any error of C_Login is LoginFailed, and the ? returns at once.
Login(w) ==
    /\ job[w].stage = "login"
    /\ \/ /\ Accepts(job[w].pin)
          /\ session' = [session EXCEPT !.user = TRUE]
          /\ Goto(w, "finding")
          /\ UNCHANGED access
       \/ /\ access' = Nobody
          /\ session' = Closed
          /\ Refused(w)
    /\ UNCHANGED <<plugged, moves, cache, calls>>

\* Wrong variant: any key of the token will do.
HasAnyKey(w) == session.token # NoToken

\* find_private_key_for_certificate searches the CKA_ID, find_private_key takes
\* what there is; a removed token answers neither.
HasKey(w) ==
    session.token \in
        {t \in Tokens : job[w].token # NoToken => CertId[t] = CertId[job[w].token]}

\* From here on an error is kept until the logout has been tried.
FindKey(w) ==
    /\ job[w].stage = "finding"
    /\ \/ HasKey(w) /\ Goto(w, "signing")
       \/ job' = [job EXCEPT ![w].stage = "loggingOut", ![w].failed = TRUE]
    /\ UNCHANGED <<plugged, moves, cache, access, session, calls>>

\* RS256 by the token or, when it refuses, by DigestInfo: either way one
\* signature of the session's key.
Sign(w) ==
    /\ job[w].stage = "signing"
    /\ Portion(w) # <<>>
    /\ \/ /\ session.token # NoToken
          /\ job' = [job EXCEPT
                        ![w].out = Append(@, [file |-> Head(Portion(w)),
                                              key |-> session.token,
                                              x5c |-> job[w].x5c]),
                        ![w].todo = <<Tail(Head(@))>> \o Tail(@)]
       \/ job' = [job EXCEPT ![w].stage = "loggingOut", ![w].failed = TRUE]
    /\ UNCHANGED <<plugged, moves, cache, access, session, calls>>

PortionSigned(w) ==
    /\ job[w].stage = "signing"
    /\ Portion(w) = <<>>
    /\ Goto(w, "loggingOut")
    /\ UNCHANGED <<plugged, moves, cache, access, session, calls>>

\* A jws session looks its certificate up once, a hash never, the others for
\* each portion.
NextPortion(w) ==
    job' = [job EXCEPT ![w].todo = Tail(@),
                       ![w].stage = IF job[w].request.kind \in {"hash", "jws"}
                                    THEN "locking" ELSE "looking"]

\* Wrong variant: the result of the signing is forgotten.
LogOutForgetting(w) ==
    /\ job[w].stage = "loggingOut"
    /\ access' = Nobody
    /\ session' = Closed
    /\ \/ Finish(w, TRUE)
       \/ /\ session.token # NoToken
          /\ IF Len(job[w].todo) = 1 THEN Finish(w, FALSE) ELSE NextPortion(w)
    /\ UNCHANGED <<plugged, moves, cache, calls>>

\* Wrong variant: the session is kept for the next portion.
LogOutKeeping(w) ==
    /\ job[w].stage = "loggingOut"
    /\ access' = Nobody
    /\ \/ Finish(w, TRUE) /\ session' = Closed
       \/ /\ ~job[w].failed
          /\ session.token # NoToken
          /\ UNCHANGED session
          /\ IF Len(job[w].todo) = 1 THEN Finish(w, FALSE) ELSE NextPortion(w)
    /\ UNCHANGED <<plugged, moves, cache, calls>>

\* The logout may fail, which fails the call; the session and the library are
\* dropped in any case, before the guard.
LogOut(w) ==
    /\ job[w].stage = "loggingOut"
    /\ access' = Nobody
    /\ session' = Closed
    /\ \/ Finish(w, TRUE)
       \/ /\ ~job[w].failed
          /\ session.token # NoToken
          /\ IF Len(job[w].todo) = 1 THEN Finish(w, FALSE) ELSE NextPortion(w)
    /\ UNCHANGED <<plugged, moves, cache, calls>>

-----------------------------------------------------------------------------
(* External: the person at the reader; the other users of the cache.       *)

MoveToken ==
    /\ moves < MaxMoves
    /\ moves' = moves + 1
    /\ plugged' \in IF plugged = NoToken THEN Tokens ELSE {NoToken}
    /\ session' = Closed
    /\ UNCHANGED <<cache, access, job, calls>>

CacheRefreshed ==
    /\ access = Nobody
    /\ \E certificates \in {Listed, cache.certificates} :
           cache' = [tokens |-> Listed, certificates |-> certificates]
    /\ UNCHANGED <<plugged, moves, access, session, job, calls>>

CacheInvalidated ==
    /\ cache' = EmptyCache
    /\ UNCHANGED <<plugged, moves, access, session, job, calls>>

WorkerStep(w) ==
    \/ Resolve(w) \/ ResolveOrReload(w)
    \/ ReadFile(w) \/ AllRead(w)
    \/ Look(w) \/ RefreshAndLook(w) \/ RefuseDocument(w) \/ Prepare(w)
    \/ OpenSession(w) \/ Login(w) \/ FindKey(w) \/ Sign(w) \/ PortionSigned(w)
    \/ LogOut(w)

Next ==
    \/ \E w \in Workers : SignHash(w) \/ SignFiles(w) \/ WorkerStep(w)
    \/ MoveToken
    \/ CacheRefreshed
    \/ CacheInvalidated

\* A blocking task runs until it returns, and a driver call returns.
Spec == Init /\ [][Next]_vars /\ \A w \in Workers : WF_vars(WorkerStep(w))

-----------------------------------------------------------------------------
(* Properties. *)

\* provider.rs:746-747, README.md:914-916: a call is refused by the token at most
\* once, however many files it has: nothing logs in again after a failed login.
AtMostOneRefusal == \A w \in Workers : job[w].refused <= 1

\* pdf/signing.rs:111-112: a document that cannot be signed never costs an
\* attempt: whoever logs in has only sound documents under that login.
NoAttemptForInvalidDocuments ==
    \A w \in Workers :
        job[w].stage \in {"login", "finding", "signing"} => AllValid(Portion(w))

\* README.md:478: no logged-in session outlives the call that opened it, and no
\* call can meet a token another has logged into: logging out, closing and
\* finalising come before PKCS11_ACCESS is released, on every path.
NoSessionIsLeftOpen ==
    /\ access = Nobody => session = Closed
    /\ session.user => job[access].stage \in {"finding", "signing", "loggingOut"}

\* The order of the answers: JSON before PDF, and as sent otherwise.
Before(files, i, k) ==
    IF files[i].format = files[k].format THEN i < k ELSE files[k].format = "pdf"

\* position says of each answer which of the files it answers.
Answers(out, files) ==
    \E position \in [DOMAIN out -> DOMAIN files] :
        /\ \A i \in DOMAIN out : out[i].file = files[position[i]]
        /\ \A i, k \in DOMAIN out : i < k => Before(files, position[i], position[k])
        /\ \A n \in DOMAIN files : \E i \in DOMAIN out : position[i] = n

\* All or nothing: a call that succeeds answers with one signature of each of
\* its files, in the order in which they were sent (JSON before PDF in a batch),
\* though each portion is signed under another login.
AnswersAreComplete ==
    [][\A w \in Workers :
          job[w].stage # "idle" /\ job'[w].stage = "idle" /\ ~job'[w].failed =>
              Answers(job[w].out, job[w].request.files)]_vars

\* jws.rs:366 (its test): a signature verifies with the certificate next to it.
\* Certificate and key are found at different times, by slot and CKA_ID: this
\* holds when no two tokens share a CKA_ID, whatever is exchanged in between.
SignatureMatchesCertificate ==
    \A w \in Workers : \A i \in DOMAIN job[w].out :
        job[w].out[i].x5c # NoToken => job[w].out[i].key = job[w].out[i].x5c

=============================================================================
