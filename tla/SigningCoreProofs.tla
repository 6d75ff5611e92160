-------------------------- MODULE SigningCoreProofs --------------------------
(***************************************************************************)
(* Proofs about SigningCore, for every set of workers, tokens, drivers and *)
(* requests.                                                               *)
(***************************************************************************)
EXTENDS SigningCore, SequenceTheorems, TLAPS

(***************************************************************************)
(* The inductive invariant, as what is true of each job and of the session *)
(* together with the job that holds PKCS11_ACCESS.                         *)
(***************************************************************************)

\* The lists a stage takes apart are there.
Shaped(j) ==
    /\ j.stage = "reading" \/ (j.stage = "resolving" /\ j.request.kind = "batch") =>
           Len(j.todo) = 2
    /\ j.stage # "idle" => j.todo # <<>>

\* A refused call is over.
RefusedIsOver(j) == j.refused <= 1 /\ (j.stage # "idle" => j.refused = 0)

\* Only a hash does without a certificate, and it looks none up.
HashOnly(j) ==
    j.token = NoToken =>
        /\ j.x5c = NoToken
        /\ j.stage # "idle" => j.request.kind = "hash"
        /\ j.stage \in {"idle", "locking"} \cup Holding

\* The certificate found carries the id that was asked for.
CertificateFits(j) == j.x5c # NoToken => CertId[j.x5c] = CertId[j.token]

\* The signatures made were made with a key of the same id as the certificate.
SignaturesFit(j) ==
    \A i \in DOMAIN j.out :
        j.out[i].x5c # NoToken => CertId[j.out[i].key] = CertId[j.out[i].x5c]

JobInv(j) ==
    /\ Shaped(j)
    /\ RefusedIsOver(j)
    /\ HashOnly(j)
    /\ CertificateFits(j)
    /\ SignaturesFit(j)

\* The key in use carries the id that was asked for.
KeyFits ==
    \A w \in Workers :
        job[w].stage = "signing" /\ session.token # NoToken => HasKey(w)

IInv ==
    /\ TypeOK
    /\ \A w \in Workers : JobInv(job[w])
    /\ NoSessionIsLeftOpen
    /\ KeyFits

-----------------------------------------------------------------------------
(* Lemmas about one job.                                                   *)

\* A worker that has nothing to do is in range and breaks no invariant.
LEMMA IdleType == Idle \in Job /\ Idle.stage = "idle" /\ Idle.refused = 0 /\ JobInv(Idle)
<1>1. SomeRequest \in Requests
  BY RequestsAssumption DEF SomeRequest
<1>2. <<>> \in Files /\ <<>> \in Portions /\ <<>> \in Signatures
  BY EmptySeq DEF Files, Portions, Signatures
<1>3. Idle \in Job
  BY <1>1, <1>2 DEF Idle, Job, Stage, Slot, Pin
<1> QED
  BY <1>3 DEF Idle, JobInv, Shaped, RefusedIsOver, HashOnly, CertificateFits, SignaturesFit

\* Goto changes the stage of one job and nothing else.
LEMMA GotoJob ==
  ASSUME job \in [Workers -> Job], NEW w \in Workers, NEW next \in Stage,
         Goto(w, next)
  PROVE  /\ job' \in [Workers -> Job]
         /\ \A v \in Workers \ {w} : job'[v] = job[v]
         /\ job'[w].stage = next
         /\ job'[w].request = job[w].request
         /\ job'[w].token = job[w].token
         /\ job'[w].x5c = job[w].x5c
         /\ job'[w].todo = job[w].todo
         /\ job'[w].out = job[w].out
         /\ job'[w].refused = job[w].refused
  BY DEF Goto, Job

\* A finished job is in range, idle and breaks no invariant.
LEMMA FinishJob ==
  ASSUME job \in [Workers -> Job], NEW w \in Workers, NEW failure \in BOOLEAN,
         Finish(w, failure)
  PROVE  /\ job' \in [Workers -> Job]
         /\ \A v \in Workers \ {w} : job'[v] = job[v]
         /\ job'[w].stage = "idle"
         /\ JobInv(job'[w])
         /\ job'[w].out = <<>>
<1> DEFINE finished == [Idle EXCEPT !.failed = failure]
<1>1. /\ finished \in Job
      /\ finished.stage = "idle" /\ finished.refused = 0 /\ finished.out = <<>>
      /\ finished.token = NoToken /\ finished.x5c = NoToken
  BY IdleType DEF Job, Idle
<1>2. JobInv(finished)
  BY <1>1 DEF JobInv, Shaped, RefusedIsOver, HashOnly, CertificateFits, SignaturesFit
<1> HIDE DEF finished
<1> QED
  BY <1>1, <1>2 DEF Finish, finished

\* A refused job is in range, idle and over.
LEMMA RefusedJob ==
  ASSUME job \in [Workers -> Job], NEW w \in Workers, job[w].refused = 0, Refused(w)
  PROVE  /\ job' \in [Workers -> Job]
         /\ \A v \in Workers \ {w} : job'[v] = job[v]
         /\ job'[w].stage = "idle"
         /\ JobInv(job'[w])
<1> DEFINE finished == [Idle EXCEPT !.failed = TRUE, !.refused = 1]
<1>1. job[w].refused + 1 = 1
  OBVIOUS
<1>2. /\ finished \in Job
      /\ finished.stage = "idle" /\ finished.refused = 1 /\ finished.out = <<>>
      /\ finished.token = NoToken /\ finished.x5c = NoToken
  BY IdleType DEF Job, Idle
<1>3. JobInv(finished)
  BY <1>2 DEF JobInv, Shaped, RefusedIsOver, HashOnly, CertificateFits, SignaturesFit
<1>4. job' = [job EXCEPT ![w] = finished]
  BY <1>1, Zenon DEF Refused
<1> HIDE DEF finished
<1> QED
  BY <1>2, <1>3, <1>4

\* A step of one worker that neither holds nor takes PKCS11_ACCESS and leaves
\* the reader alone keeps the invariant if it keeps that of its own job.
LEMMA QuietStep ==
  ASSUME IInv, NEW w \in Workers,
         job' \in [Workers -> Job], \A v \in Workers \ {w} : job'[v] = job[v],
         JobInv(job'[w]), job[w].stage \notin Holding, job'[w].stage \notin Holding,
         UNCHANGED <<plugged, moves, access, session>>,
         cache' \in [tokens : Slot, certificates : Slot], calls' \in 0..MaxCalls
  PROVE  IInv'
<1>1. TypeOK'
  BY DEF IInv, TypeOK
<1>2. \A v \in Workers : JobInv(job[v])'
  BY DEF IInv
<1>3. NoSessionIsLeftOpen'
  BY NobodyAssumption DEF IInv, TypeOK, NoSessionIsLeftOpen, Holding, Closed
<1>4. KeyFits'
  BY DEF IInv, KeyFits, HasKey, Holding
<1> QED
  BY <1>1, <1>2, <1>3, <1>4 DEF IInv

\* A step of the worker that holds PKCS11_ACCESS and gives it up, closing the
\* session, keeps the invariant if it keeps that of its own job.
LEMMA ReleaseStep ==
  ASSUME IInv, NEW w \in Workers,
         job' \in [Workers -> Job], \A v \in Workers \ {w} : job'[v] = job[v],
         JobInv(job'[w]), access \in {w, Nobody}, job'[w].stage \notin Holding,
         access' = Nobody, session' = Closed,
         UNCHANGED <<plugged, moves, cache, calls>>
  PROVE  IInv'
<1>1. TypeOK'
  BY NobodyAssumption DEF IInv, TypeOK, Closed, Slot
<1>2. \A v \in Workers : JobInv(job[v])'
  BY DEF IInv
<1>3. NoSessionIsLeftOpen'
  BY DEF NoSessionIsLeftOpen, Closed
<1>4. KeyFits'
  BY DEF KeyFits, Closed
<1> QED
  BY <1>1, <1>2, <1>3, <1>4 DEF IInv

\* A step of the worker that holds PKCS11_ACCESS and keeps it keeps the
\* invariant if it keeps that of its own job and its key.
LEMMA HoldingStep ==
  ASSUME IInv, NEW w \in Workers,
         job' \in [Workers -> Job], \A v \in Workers \ {w} : job'[v] = job[v],
         JobInv(job'[w]), access \in {w, Nobody}, access' = w,
         job'[w].stage \in Holding,
         session' \in [token : Slot, user : BOOLEAN],
         session'.user => job'[w].stage \in {"finding", "signing", "loggingOut"},
         job'[w].stage = "signing" /\ session'.token # NoToken => HasKey(w)',
         UNCHANGED <<plugged, moves, cache, calls>>
  PROVE  IInv'
<1>1. TypeOK'
  BY NobodyAssumption DEF IInv, TypeOK
<1>2. \A v \in Workers : JobInv(job[v])'
  BY DEF IInv
<1>3. NoSessionIsLeftOpen'
  BY NobodyAssumption DEF NoSessionIsLeftOpen
<1>4. KeyFits'
  <2>1. \A v \in Workers \ {w} : job'[v].stage \notin Holding
    BY <1>1, NobodyAssumption DEF TypeOK
  <2> QED
    BY <2>1 DEF KeyFits, Holding
<1> QED
  BY <1>1, <1>2, <1>3, <1>4 DEF IInv

-----------------------------------------------------------------------------
(* The steps of a call up to the use of the token.                         *)

\* A session of some files has as many portions, and at least one.
LEMMA OnePerFilePortions ==
  ASSUME NEW files \in Files, files # <<>>
  PROVE  OnePerFile(files) \in Portions /\ OnePerFile(files) # <<>>
<1>1. Len(files) \in Nat /\ Len(files) # 0
  BY EmptySeq, LenProperties DEF Files
<1>2. \A i \in 1..Len(files) : <<files[i]>> \in Files
  BY ElementOfSeq DEF Files
<1>3. OnePerFile(files) \in Portions
  BY <1>1, <1>2 DEF OnePerFile, Portions
<1>4. 1 \in DOMAIN OnePerFile(files)
  BY <1>1 DEF OnePerFile
<1> QED
  BY <1>3, <1>4

\* A call begins with its files to be read or one portion for each of them.
LEMMA BeginStep ==
  ASSUME IInv, NEW w \in Workers, NEW request \in Requests, NEW token \in Slot,
         NEW pin \in Pin, NEW stage \in {"locking", "resolving", "reloading"},
         token = NoToken => request.kind = "hash" /\ stage = "locking",
         Begin(w, request, token, pin, stage)
  PROVE  IInv'
<1> DEFINE left == IF request.kind = "batch" THEN request.files ELSE <<>>
           todo == IF request.kind = "batch" THEN <<<<>>, <<>>>>
                   ELSE OnePerFile(request.files)
           begun == [Idle EXCEPT !.stage = stage, !.request = request,
                        !.token = token, !.pin = pin, !.left = left, !.todo = todo]
<1>1. job' = [job EXCEPT ![w] = begun]
  BY Zenon DEF Begin
<1>2. left \in Files
  BY RequestsAssumption, EmptySeq DEF Files
<1>3. todo \in Portions /\ todo # <<>> /\ (request.kind = "batch" => Len(todo) = 2)
  <2>1. <<<<>>, <<>>>> \in Portions /\ <<<<>>, <<>>>> # <<>> /\ Len(<<<<>>, <<>>>>) = 2
    BY EmptySeq DEF Portions, Files
  <2> QED
    BY <2>1, RequestsAssumption, OnePerFilePortions DEF Files
<1> HIDE DEF left, todo
<1>4. begun \in Job
  BY <1>2, <1>3, IdleType DEF Job, Stage
<1>5. /\ begun.stage = stage /\ begun.request = request /\ begun.token = token
      /\ begun.todo = todo /\ begun.x5c = NoToken /\ begun.out = <<>>
      /\ begun.refused = 0
  BY <1>2, <1>3, IdleType DEF Job, Idle
<1> HIDE DEF begun
<1>6. JobInv(begun)
  BY <1>3, <1>5 DEF JobInv, Shaped, RefusedIsOver, HashOnly, CertificateFits, SignaturesFit
<1>7. job' \in [Workers -> Job] /\ job'[w] = begun
      /\ \A v \in Workers \ {w} : job'[v] = job[v]
  BY <1>1, <1>4 DEF IInv, TypeOK
<1>8. job[w].stage \notin Holding /\ job'[w].stage \notin Holding
  BY <1>5, <1>7 DEF Begin, Holding
<1>9. calls' \in 0..MaxCalls /\ UNCHANGED <<plugged, moves, cache, access, session>>
  BY BoundsAssumption DEF Begin, IInv, TypeOK
<1> QED
  BY <1>6, <1>7, <1>8, <1>9, QuietStep DEF IInv, TypeOK

\* Moving on within a call, with nothing of the token touched.
LEMMA GotoStep ==
  ASSUME IInv, NEW w \in Workers, NEW next \in Stage \ ({"idle", "resolving", "reading"} \cup Holding),
         Goto(w, next), job[w].stage \notin Holding, job[w].stage # "idle",
         next # "locking" => job[w].token # NoToken,
         UNCHANGED <<plugged, moves, access, session, calls>>,
         cache' \in [tokens : Slot, certificates : Slot]
  PROVE  IInv'
<1>1. JobInv(job'[w])
  BY GotoJob DEF IInv, TypeOK, JobInv, Shaped, RefusedIsOver, HashOnly,
                 CertificateFits, SignaturesFit
<1> QED
  BY <1>1, GotoJob, QuietStep DEF IInv, TypeOK

\* Giving up within a call, with nothing of the token touched.
LEMMA FinishStep ==
  ASSUME IInv, NEW w \in Workers, Finish(w, TRUE), job[w].stage \notin Holding,
         UNCHANGED <<plugged, moves, access, session, calls>>,
         cache' \in [tokens : Slot, certificates : Slot]
  PROVE  IInv'
<1>1. job'[w].stage \notin Holding
  BY FinishJob DEF IInv, TypeOK, Holding
<1> QED
  BY <1>1, FinishJob, QuietStep DEF IInv, TypeOK

\* An identity that the cache no longer offers ends the call.
LEMMA ResolveStep == ASSUME IInv, NEW w \in Workers, Resolve(w) PROVE IInv'
<1> USE DEF Resolve
<1>0. cache' = cache \/ cache' = EmptyCache
  OBVIOUS
<1>1. cache' \in [tokens : Slot, certificates : Slot]
  BY ONLY IInv, <1>0 DEF IInv, TypeOK, EmptyCache, Slot
<1>2. job[w].stage \notin Holding /\ job[w].stage # "idle" /\ job[w].token # NoToken
  BY DEF IInv, JobInv, HashOnly, Holding
<1>3. CASE Goto(w, "looking")
  BY <1>1, <1>2, <1>3, GotoStep DEF Stage, Holding
<1>4. CASE Goto(w, "reading") /\ job[w].request.kind = "batch"
  <2>1. "reading" \in Stage /\ "reading" \notin Holding
    BY DEF Stage, Holding
  <2>2. JobInv(job'[w])
    BY <1>2, <1>4, <2>1, GotoJob DEF IInv, TypeOK, JobInv, Shaped, RefusedIsOver,
         HashOnly, CertificateFits, SignaturesFit
  <2>3. calls' \in 0..MaxCalls
    BY DEF IInv, TypeOK
  <2> QED
    BY <1>1, <1>2, <1>4, <2>1, <2>2, <2>3, GotoJob, QuietStep DEF IInv, TypeOK
<1>5. CASE Finish(w, TRUE)
  BY <1>1, <1>2, <1>5, FinishStep
<1> QED
  BY <1>3, <1>4, <1>5

\* What a refresh lists is a token or nothing.
LEMMA ListedType == plugged \in Slot => Listed \in Slot
BY DEF Listed, Slot

\* An identity that a refresh does not find either ends an auto-sign.
LEMMA ReloadStep == ASSUME IInv, NEW w \in Workers, ResolveOrReload(w) PROVE IInv'
<1> USE DEF ResolveOrReload
<1>0. cache' = cache \/ Refresh
  OBVIOUS
<1>1. cache' \in [tokens : Slot, certificates : Slot]
  BY ONLY IInv, <1>0, ListedType DEF IInv, TypeOK, Refresh
<1>2. job[w].stage \notin Holding /\ job[w].stage # "idle" /\ job[w].token # NoToken
  BY DEF IInv, JobInv, HashOnly, Holding
<1>3. CASE Goto(w, "looking")
  BY <1>1, <1>2, <1>3, GotoStep DEF Stage, Holding
<1>4. CASE Finish(w, TRUE)
  BY <1>1, <1>2, <1>4, FinishStep
<1> QED
  BY <1>3, <1>4

\* A step that changes the lists of files and portions of a job, and its stage.
LEMMA SortStep ==
  ASSUME IInv, NEW w \in Workers, NEW left \in Files, NEW todo \in Portions,
         NEW stage \in {"reading", "looking"},
         job[w].stage = "reading",
         todo # <<>>, stage = "reading" => Len(todo) = 2,
         job' = [job EXCEPT ![w].stage = stage, ![w].left = left, ![w].todo = todo],
         UNCHANGED <<plugged, moves, cache, access, session, calls>>
  PROVE  IInv'
<1>1. /\ job' \in [Workers -> Job]
      /\ \A v \in Workers \ {w} : job'[v] = job[v]
      /\ job'[w].stage = stage /\ job'[w].todo = todo
      /\ job'[w].request = job[w].request /\ job'[w].token = job[w].token
      /\ job'[w].x5c = job[w].x5c /\ job'[w].out = job[w].out
      /\ job'[w].refused = job[w].refused
  <2> DEFINE j1 == [job EXCEPT ![w].stage = stage]
             j2 == [j1 EXCEPT ![w].left = left]
  <2>1. /\ j1 \in [Workers -> Job]
        /\ \A v \in Workers \ {w} : j1[v] = job[v]
        /\ j1[w].stage = stage
        /\ j1[w].request = job[w].request /\ j1[w].token = job[w].token
        /\ j1[w].x5c = job[w].x5c /\ j1[w].out = job[w].out
        /\ j1[w].refused = job[w].refused
    BY DEF IInv, TypeOK, Job, Stage
  <2>2. job' = [j2 EXCEPT ![w].todo = todo]
    BY Zenon
  <2> HIDE DEF j1
  <2>3. /\ j2 \in [Workers -> Job]
        /\ \A v \in Workers \ {w} : j2[v] = job[v]
        /\ j2[w].stage = stage
        /\ j2[w].request = job[w].request /\ j2[w].token = job[w].token
        /\ j2[w].x5c = job[w].x5c /\ j2[w].out = job[w].out
        /\ j2[w].refused = job[w].refused
    BY <2>1 DEF Job
  <2> HIDE DEF j2
  <2> QED
    BY ONLY <2>2, <2>3, todo \in Portions, w \in Workers DEF Job
<1>2. JobInv(job'[w])
  BY <1>1 DEF IInv, JobInv, Shaped, RefusedIsOver, HashOnly, CertificateFits,
              SignaturesFit, Holding
<1>3. job'[w].stage \notin Holding /\ job[w].stage \notin Holding
  BY <1>1 DEF Holding
<1>4. cache' \in [tokens : Slot, certificates : Slot] /\ calls' \in 0..MaxCalls
  BY DEF IInv, TypeOK
<1> QED
  BY <1>1, <1>2, <1>3, <1>4, QuietStep

\* A file of a batch goes to its half, or the batch ends.
LEMMA ReadFileStep == ASSUME IInv, NEW w \in Workers, ReadFile(w) PROVE IInv'
<1> DEFINE file == Head(job[w].left)
           left == Tail(job[w].left)
<1>1. /\ job \in [Workers -> Job] /\ job[w] \in Job
      /\ job[w].left \in Files /\ job[w].todo \in Portions
      /\ Len(job[w].todo) = 2 /\ job[w].stage = "reading" /\ job[w].left # <<>>
  BY DEF IInv, TypeOK, Job, JobInv, Shaped, ReadFile
<1>2. file \in File /\ left \in Files
  BY <1>1, HeadTailProperties DEF Files
<1>3. ASSUME NEW i \in 1..2,
             job' = [job EXCEPT ![w].left = Tail(@), ![w].todo[i] = Append(@, file)]
      PROVE  IInv'
  <2> DEFINE todo == [job[w].todo EXCEPT ![i] = Append(job[w].todo[i], file)]
  <2>1. job[w].todo[i] \in Files
    BY <1>1, ElementOfSeq DEF Portions
  <2>2. Append(job[w].todo[i], file) \in Files
    BY <1>2, <2>1, AppendProperties DEF Files
  <2>3. todo \in Portions /\ Len(todo) = 2
    BY <1>1, <2>2, ExceptSeq DEF Portions
  <2>4. todo # <<>>
    BY <2>3, EmptySeq
  <2>5. job' = [job EXCEPT ![w].stage = "reading", ![w].left = left, ![w].todo = todo]
    BY <1>1, <1>3 DEF Job
  <2> HIDE DEF file, left, todo
  <2> QED
    BY <1>1, <1>2, <2>3, <2>4, <2>5, SortStep DEF ReadFile
<1>4. CASE Finish(w, TRUE)
  <2>1. job[w].stage \notin Holding /\ cache' \in [tokens : Slot, certificates : Slot]
    BY <1>1 DEF Holding, ReadFile, IInv, TypeOK
  <2> QED
    BY <1>4, <2>1, FinishStep DEF ReadFile
<1>5. 1 \in 1..2 /\ 2 \in 1..2
  OBVIOUS
<1> QED
  BY <1>3, <1>4, <1>5, Zenon DEF ReadFile

\* A batch keeps the halves that have files.
LEMMA AllReadStep == ASSUME IInv, NEW w \in Workers, AllRead(w) PROVE IInv'
<1> DEFINE json == job[w].todo[1]
           pdf == job[w].todo[2]
           todo == CASE json = <<>> -> <<pdf>>
                     [] pdf = <<>> -> <<json>>
                     [] OTHER -> <<json, pdf>>
<1>1. /\ job \in [Workers -> Job] /\ job[w] \in Job
      /\ job[w].left \in Files /\ job[w].todo \in Portions
      /\ Len(job[w].todo) = 2 /\ job[w].stage = "reading"
  BY DEF IInv, TypeOK, Job, JobInv, Shaped, AllRead
<1>2. json \in Files /\ pdf \in Files
  BY <1>1, ElementOfSeq DEF Portions
<1>3. job' = [job EXCEPT ![w].stage = "looking", ![w].todo = todo]
  BY Zenon DEF AllRead
<1> HIDE DEF json, pdf
<1>4. todo \in Portions /\ todo # <<>>
  <2>1. <<pdf>> \in Portions /\ <<json>> \in Portions /\ <<json, pdf>> \in Portions
    BY <1>2 DEF Portions
  <2>2. <<pdf>> # <<>> /\ <<json>> # <<>> /\ <<json, pdf>> # <<>>
    OBVIOUS
  <2> QED
    BY <2>1, <2>2
<1> HIDE DEF todo
<1>5. job' = [job EXCEPT ![w].stage = "looking", ![w].left = job[w].left, ![w].todo = todo]
  BY <1>1, <1>3 DEF Job
<1>6. UNCHANGED <<plugged, moves, cache, access, session, calls>>
  BY Zenon DEF AllRead
<1> QED
  BY <1>1, <1>4, <1>5, <1>6, SortStep

\* The certificate has been found.
LEMMA FoundStep ==
  ASSUME IInv, NEW w \in Workers, NEW found \in Tokens,
         NEW stage \in {"preparing", "locking"},
         CertId[found] = CertId[job[w].token],
         job[w].stage \in {"looking", "refreshing"},
         job' = [job EXCEPT ![w].x5c = found, ![w].stage = stage],
         UNCHANGED <<plugged, moves, access, session, calls>>,
         cache' \in [tokens : Slot, certificates : Slot]
  PROVE  IInv'
<1> DEFINE j1 == [job EXCEPT ![w].x5c = found]
<1>1. /\ j1 \in [Workers -> Job]
      /\ \A v \in Workers \ {w} : j1[v] = job[v]
      /\ j1[w].x5c = found
      /\ j1[w].request = job[w].request /\ j1[w].token = job[w].token
      /\ j1[w].todo = job[w].todo /\ j1[w].out = job[w].out
      /\ j1[w].refused = job[w].refused
  BY DEF IInv, TypeOK, Job, Slot
<1>2. job' = [j1 EXCEPT ![w].stage = stage]
  BY Zenon
<1> HIDE DEF j1
<1>3. stage \in Stage
  BY DEF Stage
<1>4. /\ job' \in [Workers -> Job]
      /\ \A v \in Workers \ {w} : job'[v] = job[v]
      /\ job'[w].x5c = found /\ job'[w].stage = stage
      /\ job'[w].request = job[w].request /\ job'[w].token = job[w].token
      /\ job'[w].todo = job[w].todo /\ job'[w].out = job[w].out
      /\ job'[w].refused = job[w].refused
  BY ONLY <1>1, <1>2, <1>3, w \in Workers DEF Job
<1>5. job[w].token # NoToken /\ JobInv(job[w])
  BY DEF IInv, JobInv, HashOnly, Holding
<1>6. JobInv(job'[w])
  BY <1>4, <1>5 DEF JobInv, Shaped, RefusedIsOver, HashOnly, CertificateFits,
              SignaturesFit, Holding
<1>7. job'[w].stage \notin Holding /\ job[w].stage \notin Holding
  BY <1>4 DEF Holding
<1>8. calls' \in 0..MaxCalls
  BY DEF IInv, TypeOK
<1> QED
  BY <1>4, <1>6, <1>7, <1>8, QuietStep

\* After its certificate a portion is prepared or signed.
LEMMA AfterLookupStage ==
  ASSUME NEW w PROVE AfterLookup(w) \in {"preparing", "locking"}
BY DEF AfterLookup

\* A certificate in the cache is taken as it is, else a refresh follows.
LEMMA LookStep == ASSUME IInv, NEW w \in Workers, Look(w) PROVE IInv'
<1>1. /\ job[w].stage = "looking"
      /\ UNCHANGED <<plugged, moves, cache, access, session, calls>>
  BY Zenon DEF Look
<1>2. /\ job[w].stage \notin Holding /\ job[w].token # NoToken
      /\ cache' \in [tokens : Slot, certificates : Slot]
      /\ cache.certificates \in Slot
  BY <1>1 DEF IInv, TypeOK, JobInv, HashOnly, Holding
<1>3. CASE Goto(w, "refreshing")
  BY <1>1, <1>2, <1>3, GotoStep DEF Stage, Holding
<1>4. CASE /\ cache.certificates # NoToken
           /\ CertId[cache.certificates] = CertId[job[w].token]
           /\ job' = [job EXCEPT ![w].x5c = cache.certificates,
                                 ![w].stage = AfterLookup(w)]
  <2>1. cache.certificates \in Tokens
    BY <1>2, <1>4 DEF Slot
  <2> QED
    BY <1>1, <1>2, <1>4, <2>1, AfterLookupStage, FoundStep
<1> QED
  BY <1>3, <1>4, Zenon DEF Look

\* A certificate that the refresh does not list ends the call.
LEMMA RefreshAndLookStep == ASSUME IInv, NEW w \in Workers, RefreshAndLook(w) PROVE IInv'
<1>1. /\ job[w].stage = "refreshing"
      /\ UNCHANGED <<plugged, moves, access, session, calls>>
      /\ Refresh \/ UNCHANGED cache
  BY Zenon DEF RefreshAndLook
<1>2. /\ job[w].stage \notin Holding /\ job[w].token # NoToken
      /\ cache' \in [tokens : Slot, certificates : Slot]
      /\ Listed \in Slot
  <2>1. Listed \in Slot
    BY ListedType DEF IInv, TypeOK
  <2> QED
    BY <1>1, <2>1 DEF IInv, TypeOK, JobInv, HashOnly, Holding, Refresh
<1>3. CASE Finish(w, TRUE)
  BY <1>1, <1>2, <1>3, FinishStep
<1>4. CASE /\ Listed # NoToken
           /\ CertId[Listed] = CertId[job[w].token]
           /\ job' = [job EXCEPT ![w].x5c = Listed, ![w].stage = AfterLookup(w)]
  <2>1. Listed \in Tokens
    BY <1>2, <1>4 DEF Slot
  <2> QED
    BY <1>1, <1>2, <1>4, <2>1, AfterLookupStage, FoundStep
<1> QED
  BY <1>3, <1>4, Zenon DEF RefreshAndLook

\* A document that cannot be signed ends the call.
LEMMA RefuseStep == ASSUME IInv, NEW w \in Workers, RefuseDocument(w) PROVE IInv'
<1>1. job[w].stage \notin Holding /\ cache' \in [tokens : Slot, certificates : Slot]
  BY DEF RefuseDocument, IInv, TypeOK, Holding
<1> QED
  BY <1>1, FinishStep DEF RefuseDocument

\* Documents that can be signed lead to the token.
LEMMA PrepareStep == ASSUME IInv, NEW w \in Workers, Prepare(w) PROVE IInv'
<1>1. job[w].stage \notin Holding /\ cache' \in [tokens : Slot, certificates : Slot]
  BY DEF Prepare, IInv, TypeOK, Holding
<1>2. "locking" \in Stage \ ({"idle", "resolving", "reading"} \cup Holding)
  BY DEF Stage, Holding
<1> QED
  BY <1>1, <1>2, GotoStep DEF Prepare

-----------------------------------------------------------------------------
(* The steps with PKCS11_ACCESS.                                           *)

\* A worker with PKCS11_ACCESS in hand has it to itself.
LEMMA Holder ==
  ASSUME TypeOK, NEW w \in Workers, job[w].stage \in Holding
  PROVE  access = w
BY DEF TypeOK

\* A session is opened under PKCS11_ACCESS, or nothing is kept.
LEMMA OpenSessionStep == ASSUME IInv, NEW w \in Workers, OpenSession(w) PROVE IInv'
<1>1. /\ job[w].stage = "locking" /\ access = Nobody
      /\ UNCHANGED <<plugged, moves, cache, calls>>
  BY Zenon DEF OpenSession
<1>2. CASE /\ access' = w
           /\ session' = [token |-> Recognised, user |-> FALSE]
           /\ Goto(w, "login")
  <2>1. "login" \in Stage /\ "login" \in Holding
    BY DEF Stage, Holding
  <2>2. Recognised \in Slot
    BY DEF Recognised, IInv, TypeOK, Slot
  <2>3. JobInv(job'[w])
    BY <1>1, <1>2, <2>1, GotoJob DEF IInv, TypeOK, JobInv, Shaped, RefusedIsOver,
         HashOnly, CertificateFits, SignaturesFit
  <2>4. job'[w].stage = "login" /\ job' \in [Workers -> Job]
        /\ \A v \in Workers \ {w} : job'[v] = job[v]
    BY <1>2, <2>1, GotoJob DEF IInv, TypeOK
  <2>5. session' \in [token : Slot, user : BOOLEAN] /\ ~session'.user
    BY <1>2, <2>2
  <2> QED
    BY <1>1, <1>2, <2>1, <2>3, <2>4, <2>5, HoldingStep
<1>3. CASE Abandon(w)
  <2>1. job'[w].stage \notin Holding
    BY <1>3, FinishJob DEF Abandon, IInv, TypeOK, Holding
  <2> QED
    BY <1>1, <1>3, <2>1, FinishJob, ReleaseStep DEF Abandon, IInv, TypeOK
<1> QED
  BY <1>2, <1>3, Zenon DEF OpenSession

\* A login that succeeds goes on with the session, one that fails is the end.
LEMMA LoginStep == ASSUME IInv, NEW w \in Workers, Login(w) PROVE IInv'
<1>1. /\ job[w].stage = "login"
      /\ UNCHANGED <<plugged, moves, cache, calls>>
  BY Zenon DEF Login
<1>2. access = w /\ job[w].refused = 0
  BY <1>1, Holder DEF IInv, JobInv, RefusedIsOver, Holding
<1>3. CASE /\ session' = [session EXCEPT !.user = TRUE]
           /\ Goto(w, "finding")
           /\ UNCHANGED access
  <2>1. "finding" \in Stage /\ "finding" \in Holding
    BY DEF Stage, Holding
  <2>2. job'[w].stage = "finding" /\ job' \in [Workers -> Job]
        /\ \A v \in Workers \ {w} : job'[v] = job[v]
    BY <1>3, <2>1, GotoJob DEF IInv, TypeOK
  <2>3. JobInv(job'[w])
    BY <1>1, <1>3, <2>1, GotoJob DEF IInv, TypeOK, JobInv, Shaped, RefusedIsOver,
         HashOnly, CertificateFits, SignaturesFit
  <2>4. session' \in [token : Slot, user : BOOLEAN]
    BY <1>3 DEF IInv, TypeOK
  <2> QED
    BY <1>1, <1>2, <1>3, <2>1, <2>2, <2>3, <2>4, HoldingStep
<1>4. CASE access' = Nobody /\ session' = Closed /\ Refused(w)
  <2>1. job'[w].stage \notin Holding
    BY <1>2, <1>4, RefusedJob DEF IInv, TypeOK, Holding
  <2> QED
    BY <1>1, <1>2, <1>4, <2>1, RefusedJob, ReleaseStep DEF IInv, TypeOK
<1> QED
  BY <1>3, <1>4, Zenon DEF Login

\* After an error the logout comes next, with the session as it is.
LEMMA FailedStep ==
  ASSUME IInv, NEW w \in Workers, job[w].stage \in {"finding", "signing"},
         job' = [job EXCEPT ![w].stage = "loggingOut", ![w].failed = TRUE],
         UNCHANGED <<plugged, moves, cache, access, session, calls>>
  PROVE  IInv'
<1> DEFINE j1 == [job EXCEPT ![w].stage = "loggingOut"]
<1>1. /\ j1 \in [Workers -> Job]
      /\ \A v \in Workers \ {w} : j1[v] = job[v]
      /\ j1[w].stage = "loggingOut" /\ j1[w].x5c = job[w].x5c
      /\ j1[w].request = job[w].request /\ j1[w].token = job[w].token
      /\ j1[w].todo = job[w].todo /\ j1[w].out = job[w].out
      /\ j1[w].refused = job[w].refused
  BY DEF IInv, TypeOK, Job, Stage
<1>2. job' = [j1 EXCEPT ![w].failed = TRUE]
  BY Zenon
<1> HIDE DEF j1
<1>3. /\ job' \in [Workers -> Job]
      /\ \A v \in Workers \ {w} : job'[v] = job[v]
      /\ job'[w].stage = "loggingOut" /\ job'[w].x5c = job[w].x5c
      /\ job'[w].request = job[w].request /\ job'[w].token = job[w].token
      /\ job'[w].todo = job[w].todo /\ job'[w].out = job[w].out
      /\ job'[w].refused = job[w].refused
  BY ONLY <1>1, <1>2, w \in Workers DEF Job
<1>4. access = w
  BY Holder DEF IInv, Holding
<1>5. JobInv(job'[w])
  BY <1>3 DEF IInv, JobInv, Shaped, RefusedIsOver, HashOnly, CertificateFits,
              SignaturesFit, Holding
<1>6. session' \in [token : Slot, user : BOOLEAN]
  BY DEF IInv, TypeOK
<1> QED
  BY <1>3, <1>4, <1>5, <1>6, HoldingStep DEF Holding

\* Going on under the same login; whoever starts to sign has found the key.
LEMMA GotoHoldingStep ==
  ASSUME IInv, NEW w \in Workers, NEW next \in {"signing", "loggingOut"},
         job[w].stage \in {"finding", "signing"}, Goto(w, next),
         next = "signing" => HasKey(w),
         UNCHANGED <<plugged, moves, cache, access, session, calls>>
  PROVE  IInv'
<1>1. next \in Stage /\ next \in Holding
  BY DEF Stage, Holding
<1>2. /\ job'[w].stage = next /\ job' \in [Workers -> Job]
      /\ \A v \in Workers \ {w} : job'[v] = job[v]
      /\ job'[w].token = job[w].token
  BY <1>1, GotoJob DEF IInv, TypeOK
<1>3. JobInv(job'[w])
  BY <1>1, GotoJob DEF IInv, TypeOK, JobInv, Shaped, RefusedIsOver, HashOnly,
                       CertificateFits, SignaturesFit
<1>4. access = w
  BY Holder DEF IInv, Holding
<1>5. session' \in [token : Slot, user : BOOLEAN]
  BY DEF IInv, TypeOK
<1>6. job'[w].stage = "signing" => HasKey(w)'
  BY <1>2 DEF HasKey
<1> QED
  BY <1>1, <1>2, <1>3, <1>4, <1>5, <1>6, HoldingStep

\* The key of the session is found by the id of the certificate, or it is not.
LEMMA FindKeyStep == ASSUME IInv, NEW w \in Workers, FindKey(w) PROVE IInv'
<1>1. /\ job[w].stage = "finding"
      /\ UNCHANGED <<plugged, moves, cache, access, session, calls>>
  BY Zenon DEF FindKey
<1>2. CASE HasKey(w) /\ Goto(w, "signing")
  BY <1>1, <1>2, GotoHoldingStep
<1>3. CASE job' = [job EXCEPT ![w].stage = "loggingOut", ![w].failed = TRUE]
  BY <1>1, <1>3, FailedStep
<1> QED
  BY <1>2, <1>3, Zenon DEF FindKey

\* A signature is made with the key found, which fits the certificate found.
LEMMA SignStep == ASSUME IInv, NEW w \in Workers, Sign(w) PROVE IInv'
<1> DEFINE made == [file |-> Head(Portion(w)), key |-> session.token, x5c |-> job[w].x5c]
           out == Append(job[w].out, made)
           todo == <<Tail(Head(job[w].todo))>> \o Tail(job[w].todo)
<1>1. /\ job[w].stage = "signing" /\ Portion(w) # <<>>
      /\ UNCHANGED <<plugged, moves, cache, access, session, calls>>
  BY Zenon DEF Sign
<1>2. CASE /\ session.token # NoToken
           /\ job' = [job EXCEPT ![w].out = out, ![w].todo = todo]
  <2>1. /\ job \in [Workers -> Job] /\ job[w] \in Job /\ JobInv(job[w])
        /\ job[w].out \in Signatures /\ job[w].todo \in Portions /\ job[w].todo # <<>>
        /\ job[w].x5c \in Slot
    BY <1>1 DEF IInv, TypeOK, JobInv, Shaped, Job
  <2>2. /\ session.token \in Tokens
        /\ job[w].token # NoToken => CertId[session.token] = CertId[job[w].token]
    BY <1>1, <1>2 DEF IInv, KeyFits, HasKey
  <2>3. /\ Head(job[w].todo) \in Files /\ Tail(job[w].todo) \in Portions
    BY <2>1, HeadTailProperties DEF Portions
  <2>4. Head(Portion(w)) \in File /\ Tail(Head(job[w].todo)) \in Files
    BY <1>1, <2>3, HeadTailProperties DEF Portion, Files
  <2>5. made \in Signature
    BY <2>1, <2>2, <2>4 DEF Signature
  <2>6. todo \in Portions /\ todo # <<>>
    <3>1. <<Tail(Head(job[w].todo))>> \in Seq(Files)
      BY <2>4
    <3>2. /\ todo \in Seq(Files)
          /\ Len(todo) = 1 + Len(Tail(job[w].todo))
          /\ Len(Tail(job[w].todo)) \in Nat
      BY <2>3, <3>1, ConcatProperties, LenProperties DEF Portions
    <3>3. Len(todo) # 0
      BY <3>2
    <3> QED
      BY <3>2, <3>3, EmptySeq DEF Portions
  <2>7. /\ out \in Signatures
        /\ \A i \in DOMAIN out : \/ i \in DOMAIN job[w].out /\ out[i] = job[w].out[i]
                                 \/ out[i] = made
    <3> HIDE DEF made
    <3> QED
      BY <2>1, <2>5, AppendProperties DEF Signatures
  <2>8. made.x5c # NoToken => CertId[made.key] = CertId[made.x5c]
    BY <2>1, <2>2 DEF JobInv, HashOnly, CertificateFits
  <2> HIDE DEF made, out, todo
  <2> DEFINE j1 == [job EXCEPT ![w].out = out]
  <2>9. /\ j1 \in [Workers -> Job]
        /\ \A v \in Workers \ {w} : j1[v] = job[v]
        /\ j1[w].stage = job[w].stage /\ j1[w].x5c = job[w].x5c
        /\ j1[w].request = job[w].request /\ j1[w].token = job[w].token
        /\ j1[w].out = out /\ j1[w].refused = job[w].refused
    BY <2>1, <2>7 DEF Job
  <2>10. job' = [j1 EXCEPT ![w].todo = todo]
    BY <1>2, Zenon
  <2> HIDE DEF j1
  <2>11. /\ job' \in [Workers -> Job]
         /\ \A v \in Workers \ {w} : job'[v] = job[v]
         /\ job'[w].stage = job[w].stage /\ job'[w].x5c = job[w].x5c
         /\ job'[w].request = job[w].request /\ job'[w].token = job[w].token
         /\ job'[w].out = out /\ job'[w].todo = todo
         /\ job'[w].refused = job[w].refused
    BY ONLY <2>6, <2>9, <2>10, w \in Workers DEF Job
  <2>12. SignaturesFit(job'[w])
    BY <2>1, <2>7, <2>8, <2>11 DEF JobInv, SignaturesFit
  <2>13. JobInv(job'[w])
    BY <1>1, <2>1, <2>6, <2>11, <2>12 DEF JobInv, Shaped, RefusedIsOver, HashOnly,
         CertificateFits, Holding
  <2>14. job'[w].stage \in Holding /\ job'[w].stage = "signing"
    BY <1>1, <2>11 DEF Holding
  <2>15. access = w /\ session' \in [token : Slot, user : BOOLEAN]
    BY <1>1, Holder DEF IInv, TypeOK, Holding
  <2>16. HasKey(w)'
    BY <1>1, <2>2, <2>11 DEF HasKey
  <2> QED
    BY <1>1, <2>11, <2>13, <2>14, <2>15, <2>16, HoldingStep
<1>3. CASE job' = [job EXCEPT ![w].stage = "loggingOut", ![w].failed = TRUE]
  BY <1>1, <1>3, FailedStep
<1> QED
  BY <1>2, <1>3, Zenon DEF Sign

\* With its files signed a portion is over.
LEMMA PortionSignedStep == ASSUME IInv, NEW w \in Workers, PortionSigned(w) PROVE IInv'
<1>1. /\ job[w].stage = "signing" /\ Goto(w, "loggingOut")
      /\ UNCHANGED <<plugged, moves, cache, access, session, calls>>
  BY Zenon DEF PortionSigned
<1> QED
  BY <1>1, GotoHoldingStep

\* Whatever the logout answers, the session and PKCS11_ACCESS are given up.
LEMMA LogOutStep == ASSUME IInv, NEW w \in Workers, LogOut(w) PROVE IInv'
<1>1. /\ job[w].stage = "loggingOut" /\ access' = Nobody /\ session' = Closed
      /\ UNCHANGED <<plugged, moves, cache, calls>>
  BY Zenon DEF LogOut
<1>2. access = w
  BY <1>1, Holder DEF IInv, Holding
<1>3. ASSUME NEW failure \in BOOLEAN, Finish(w, failure) PROVE IInv'
  <2>1. job'[w].stage \notin Holding
    BY <1>3, FinishJob DEF IInv, TypeOK, Holding
  <2> QED
    BY <1>1, <1>2, <1>3, <2>1, FinishJob, ReleaseStep DEF IInv, TypeOK
<1>4. CASE Len(job[w].todo) # 1 /\ NextPortion(w)
  <2> DEFINE todo == Tail(job[w].todo)
             stage == IF job[w].request.kind \in {"hash", "jws"}
                      THEN "locking" ELSE "looking"
             j1 == [job EXCEPT ![w].todo = todo]
  <2>1. /\ job \in [Workers -> Job] /\ JobInv(job[w])
        /\ job[w].todo \in Portions /\ job[w].todo # <<>>
    BY <1>1 DEF IInv, TypeOK, JobInv, Shaped, Job
  <2>2. todo \in Portions /\ todo # <<>>
    <3>1. /\ Len(job[w].todo) \in Nat \ {0} /\ todo \in Seq(Files)
          /\ Len(todo) = Len(job[w].todo) - 1
      BY <2>1, HeadTailProperties, EmptySeq, LenProperties DEF Portions
    <3>2. Len(todo) # 0
      BY <1>4, <3>1
    <3> QED
      BY <3>1, <3>2, EmptySeq DEF Portions
  <2> HIDE DEF todo
  <2>3. /\ j1 \in [Workers -> Job]
        /\ \A v \in Workers \ {w} : j1[v] = job[v]
        /\ j1[w].x5c = job[w].x5c
        /\ j1[w].request = job[w].request /\ j1[w].token = job[w].token
        /\ j1[w].out = job[w].out /\ j1[w].refused = job[w].refused
        /\ j1[w].todo = todo
    BY <2>1, <2>2 DEF Job
  <2>4. job' = [j1 EXCEPT ![w].stage = stage]
    BY <1>4, Zenon DEF NextPortion, todo
  <2>5. stage \in Stage /\ stage \notin Holding /\ stage \in {"locking", "looking"}
    BY DEF Stage, Holding
  <2>6. job[w].token = NoToken => stage = "locking"
    BY <1>1, <2>1 DEF JobInv, HashOnly
  <2> HIDE DEF j1, stage
  <2>7. /\ job' \in [Workers -> Job]
        /\ \A v \in Workers \ {w} : job'[v] = job[v]
        /\ job'[w].stage = stage /\ job'[w].x5c = job[w].x5c
        /\ job'[w].request = job[w].request /\ job'[w].token = job[w].token
        /\ job'[w].out = job[w].out /\ job'[w].refused = job[w].refused
        /\ job'[w].todo = todo
    BY ONLY <2>3, <2>4, <2>5, w \in Workers DEF Job
  <2>8. JobInv(job'[w])
    BY <1>1, <2>1, <2>2, <2>5, <2>6, <2>7 DEF JobInv, Shaped, RefusedIsOver,
         HashOnly, CertificateFits, SignaturesFit
  <2> QED
    BY <1>1, <1>2, <2>5, <2>7, <2>8, ReleaseStep
<1>5. TRUE \in BOOLEAN /\ FALSE \in BOOLEAN
  OBVIOUS
<1> QED
  BY <1>3, <1>4, <1>5, Zenon DEF LogOut

-----------------------------------------------------------------------------
(* The calls and the surroundings.                                         *)

\* A hash starts at the driver, with a certificate or without.
LEMMA SignHashStep == ASSUME IInv, NEW w \in Workers, SignHash(w) PROVE IInv'
BY BeginStep DEF SignHash

\* A file, a session or a batch starts with its identity.
LEMMA SignFilesStep == ASSUME IInv, NEW w \in Workers, SignFiles(w) PROVE IInv'
<1>1. PICK request \in Requests, token \in Tokens :
        \E pin \in {PinOf[token], NoPin}, stage \in {"resolving", "reloading"} :
          Begin(w, request, token, pin, stage)
  BY DEF SignFiles
<1>2. PICK pin \in {PinOf[token], NoPin}, stage \in {"resolving", "reloading"} :
        Begin(w, request, token, pin, stage)
  BY <1>1
<1>3. token \in Slot /\ token # NoToken /\ pin \in Pin
  BY PinAssumption, NobodyAssumption DEF Slot, Pin
<1> QED
  BY <1>2, <1>3, BeginStep

\* Pulling a token out closes what was open on it.
LEMMA MoveStep == ASSUME IInv, MoveToken PROVE IInv'
<1>1. plugged' \in Slot
  BY DEF MoveToken, Slot
<1>2. moves' \in 0..MaxMoves
  BY BoundsAssumption DEF MoveToken, IInv, TypeOK
<1>3. session' = Closed /\ UNCHANGED <<cache, access, job, calls>>
  BY DEF MoveToken
<1>4. TypeOK'
  BY <1>1, <1>2, <1>3 DEF IInv, TypeOK, Closed, Slot
<1>5. NoSessionIsLeftOpen' /\ KeyFits'
  BY <1>3 DEF NoSessionIsLeftOpen, KeyFits, Closed
<1> QED
  BY <1>3, <1>4, <1>5 DEF IInv

\* The other users of the cache change its lists and nothing else.
LEMMA CacheStep ==
  ASSUME IInv, CacheRefreshed \/ CacheInvalidated
  PROVE  IInv'
<1>1. UNCHANGED <<plugged, moves, access, session, job, calls>>
  BY DEF CacheRefreshed, CacheInvalidated
<1>2. cache' \in [tokens : Slot, certificates : Slot]
  <2>1. Listed \in Slot /\ cache.certificates \in Slot
    BY ListedType DEF IInv, TypeOK
  <2> QED
    BY <2>1 DEF CacheRefreshed, CacheInvalidated, EmptyCache, Slot
<1>3. TypeOK' /\ NoSessionIsLeftOpen'
  BY <1>1, <1>2 DEF IInv, TypeOK, NoSessionIsLeftOpen
<1>4. KeyFits'
  BY <1>1 DEF IInv, KeyFits, HasKey
<1> QED
  BY <1>1, <1>3, <1>4 DEF IInv

-----------------------------------------------------------------------------
(* The theorems.                                                           *)

\* Nothing is under way when the program starts.
LEMMA InitInv == Init => IInv
<1> SUFFICES ASSUME Init PROVE IInv
  OBVIOUS
<1>1. \A w \in Workers : job[w] = Idle
  BY DEF Init
<1>2. job \in [Workers -> Job] /\ \A w \in Workers : job[w].stage = "idle"
  BY <1>1, IdleType DEF Init
<1>3. TypeOK
  BY <1>2, NobodyAssumption, BoundsAssumption
     DEF Init, TypeOK, EmptyCache, Closed, Slot, Holding
<1>4. \A w \in Workers : JobInv(job[w])
  BY <1>1, IdleType
<1>5. NoSessionIsLeftOpen /\ KeyFits
  BY <1>2 DEF Init, NoSessionIsLeftOpen, KeyFits, Closed
<1> QED
  BY <1>3, <1>4, <1>5 DEF IInv

\* Every action keeps the invariant.
LEMMA NextInv == IInv /\ [Next]_vars => IInv'
<1> SUFFICES ASSUME IInv, [Next]_vars PROVE IInv'
  OBVIOUS
<1>1. ASSUME NEW w \in Workers, SignHash(w) \/ SignFiles(w) PROVE IInv'
  BY <1>1, SignHashStep, SignFilesStep
<1>2. ASSUME NEW w \in Workers, WorkerStep(w) PROVE IInv'
  BY <1>2, ResolveStep, ReloadStep, ReadFileStep, AllReadStep, LookStep,
     RefreshAndLookStep, RefuseStep, PrepareStep, OpenSessionStep, LoginStep,
     FindKeyStep, SignStep, PortionSignedStep, LogOutStep, Zenon DEF WorkerStep
<1>3. ASSUME UNCHANGED vars PROVE IInv'
  BY <1>3 DEF vars, IInv, TypeOK, NoSessionIsLeftOpen, KeyFits, HasKey
<1> QED
  BY <1>1, <1>2, <1>3, MoveStep, CacheStep DEF Next

\* The invariant holds in every state.
LEMMA Invariance == Spec => []IInv
BY InitInv, NextInv, PTL DEF Spec

\* SigningCore's state keeps its types, and a worker holds PKCS11_ACCESS
\* exactly between the lock and the drop of its guard.
THEOREM TypeCorrect == Spec => []TypeOK
<1>1. IInv => TypeOK
  BY DEF IInv
<1> QED
  BY <1>1, Invariance, PTL

\* No call, whatever its files, is refused by a token twice: the first failed
\* login is returned (provider.rs sign_rs256 and sign_rs256_batch).
THEOREM OneRefusal == Spec => []AtMostOneRefusal
<1>1. IInv => AtMostOneRefusal
  BY DEF IInv, JobInv, RefusedIsOver, AtMostOneRefusal
<1> QED
  BY <1>1, Invariance, PTL

\* No path through sign_hash, sign_rs256 or the batch leaves a session behind,
\* and only the holder of PKCS11_ACCESS is ever logged in.
THEOREM SessionsAreClosed == Spec => []NoSessionIsLeftOpen
<1>1. IInv => NoSessionIsLeftOpen
  BY DEF IInv
<1> QED
  BY <1>1, Invariance, PTL

\* When no two tokens share a CKA_ID, the key that signs is the key of the
\* certificate that is sent along, whatever is plugged in between.
THEOREM DistinctIdsMatch ==
  ASSUME \A s, t \in Tokens : CertId[s] = CertId[t] => s = t
  PROVE  Spec => []SignatureMatchesCertificate
<1>1. IInv => SignatureMatchesCertificate
  <2> SUFFICES ASSUME IInv, NEW w \in Workers, NEW i \in DOMAIN job[w].out,
                      job[w].out[i].x5c # NoToken
               PROVE  job[w].out[i].key = job[w].out[i].x5c
    BY DEF SignatureMatchesCertificate
  <2>1. job[w].out \in Seq(Signature)
    BY DEF IInv, TypeOK, Job, Signatures
  <2>2. job[w].out[i] \in Signature
    BY <2>1
  <2>3. CertId[job[w].out[i].key] = CertId[job[w].out[i].x5c]
    BY DEF IInv, JobInv, SignaturesFit
  <2> QED
    BY <2>2, <2>3 DEF Signature, Slot
<1> QED
  BY <1>1, Invariance, PTL

-----------------------------------------------------------------------------
(***************************************************************************)
(* What a call signs.  A batch first sorts its files into two portions;    *)
(* after that, and from the start for the other calls, some order of the   *)
(* files is followed: the answers made are its beginning, the portions to  *)
(* come the rest.                                                          *)
(***************************************************************************)

\* A portion of the right format for the call, sound or of PDFs only.
Sound(portion, kind) ==
    /\ \A i \in DOMAIN portion :
           /\ portion[i].format # "pdf" => portion[i].valid
           /\ kind \in {"hash", "jws"} => portion[i].format # "pdf"
    /\ \A i, k \in DOMAIN portion : portion[i].format = "pdf" => portion[k].format = "pdf"

\* portion holds the files of one format among the first read ones, in order.
Sorted(portion, format, files, read) ==
    \E place \in [DOMAIN portion -> 1..read] :
        /\ \A i \in DOMAIN portion : portion[i] = files[place[i]] /\ portion[i].format = format
        /\ \A i, k \in DOMAIN portion : i < k => place[i] < place[k]
        /\ \A n \in 1..read :
               files[n].format = format => \E i \in DOMAIN portion : place[i] = n

\* A batch that reads its files has sorted those it has read.
HalfSorted(j, files) ==
    LET read == Len(files) - Len(j.left)
    IN  /\ Len(j.left) <= Len(files)
        /\ \A i \in DOMAIN j.left : j.left[i] = files[read + i]
        /\ \A n \in 1..read : files[n].format \in {"json", "pdf"}
        /\ Len(j.todo[1]) + Len(j.todo[2]) = read
        /\ Sorted(j.todo[1], "json", files, read)
        /\ Sorted(j.todo[2], "pdf", files, read)
        /\ j.out = <<>>

\* An order in which all the files can be answered.
Order(files, order) ==
    /\ order \in [1..Len(files) -> 1..Len(files)]
    /\ \A i, k \in 1..Len(files) : i < k => Before(files, order[i], order[k])
    /\ \A n \in 1..Len(files) : \E i \in 1..Len(files) : order[i] = n

\* How many files come before portion i: only the first may be half signed, and
\* a portion between the first and the last has one file.
Start(out, todo, i) == Len(out) + (IF i = 1 THEN 0 ELSE Len(todo[1]) + i - 2)

Follows(out, todo, files, order) ==
    /\ \A i \in DOMAIN out : out[i].file = files[order[i]]
    /\ \A i \in DOMAIN todo : \A k \in DOMAIN todo[i] :
           todo[i][k] = files[order[Start(out, todo, i) + k]]
    /\ \A i \in DOMAIN todo : 1 < i /\ i < Len(todo) => Len(todo[i]) = 1
    /\ Start(out, todo, Len(todo)) + Len(todo[Len(todo)]) = Len(files)

Planned(j, files) ==
    /\ \E order : Order(files, order) /\ Follows(j.out, j.todo, files, order)
    /\ \A i \in DOMAIN j.todo : Sound(j.todo[i], j.request.kind)

Sorting(j) == j.request.kind = "batch" /\ j.stage \in {"resolving", "reading"}

WorkInv(j) ==
    j.stage # "idle" =>
        /\ j.stage = "reading" => j.request.kind = "batch"
        /\ j.stage = "reloading" => j.request.kind # "batch"
        /\ IF Sorting(j) THEN HalfSorted(j, j.request.files) ELSE Planned(j, j.request.files)
        /\ j.stage \in {"locking", "login", "finding", "signing"} => AllValid(Head(j.todo))
        /\ j.stage = "loggingOut" /\ ~j.failed => Head(j.todo) = <<>>

-----------------------------------------------------------------------------
(* What a step does to the work of one job.                                *)

SameWork(j, k) ==
    k.request = j.request /\ k.left = j.left /\ k.todo = j.todo /\ k.out = j.out

\* A call begins.
Begins(k) ==
    /\ k.out = <<>>
    /\ IF k.request.kind = "batch"
       THEN /\ k.stage = "resolving"
            /\ k.left = k.request.files /\ k.todo = <<<<>>, <<>>>>
       ELSE /\ k.stage \in {"resolving", "reloading", "locking"}
            /\ k.stage = "locking" => k.request.kind = "hash"
            /\ k.todo = OnePerFile(k.request.files)

\* A file is read and goes to its half.
Reads(j, k) ==
    /\ j.stage = "reading" /\ k.stage = "reading" /\ j.left # <<>>
    /\ k.request = j.request /\ k.out = j.out /\ k.left = Tail(j.left)
    /\ \/ /\ Head(j.left).format = "json"
          /\ k.todo[1] = Append(j.todo[1], Head(j.left)) /\ k.todo[2] = j.todo[2]
       \/ /\ Head(j.left).format = "pdf"
          /\ k.todo[2] = Append(j.todo[2], Head(j.left)) /\ k.todo[1] = j.todo[1]

\* Both halves are complete.
Splits(j, k) ==
    /\ j.stage = "reading" /\ k.stage = "looking" /\ j.left = <<>>
    /\ k.request = j.request /\ k.out = j.out
    /\ k.todo = CASE j.todo[1] = <<>> -> <<j.todo[2]>>
                  [] j.todo[2] = <<>> -> <<j.todo[1]>>
                  [] OTHER -> <<j.todo[1], j.todo[2]>>

\* The call goes on with the same work.
Proceeds(j, k) ==
    /\ SameWork(j, k)
    /\ \/ /\ j.stage = "resolving"
          /\ k.stage = IF j.request.kind = "batch" THEN "reading" ELSE "looking"
       \/ j.stage = "reloading" /\ k.stage = "looking"
       \/ /\ j.stage \in {"looking", "refreshing"}
          /\ k.stage \in {"refreshing", "preparing", "locking"}
          /\ k.stage = "locking" => Head(j.todo)[1].format # "pdf"
       \/ j.stage = "preparing" /\ k.stage = "locking" /\ AllValid(Head(j.todo))
       \/ j.stage = "locking" /\ k.stage = "login"
       \/ j.stage = "login" /\ k.stage = "finding"
       \/ j.stage = "finding" /\ k.stage = "signing"
       \/ j.stage = "signing" /\ k.stage = "loggingOut" /\ Head(j.todo) = <<>>
       \/ j.stage \in {"finding", "signing"} /\ k.stage = "loggingOut" /\ k.failed

\* A file is signed.
Signs(j, k) ==
    /\ j.stage = "signing" /\ k.stage = "signing" /\ Head(j.todo) # <<>>
    /\ k.request = j.request
    /\ \E s \in Signature : s.file = Head(Head(j.todo)) /\ k.out = Append(j.out, s)
    /\ k.todo = <<Tail(Head(j.todo))>> \o Tail(j.todo)

\* The next portion has its turn.
Continues(j, k) ==
    /\ j.stage = "loggingOut" /\ ~j.failed /\ Len(j.todo) # 1
    /\ k.request = j.request /\ k.out = j.out /\ k.todo = Tail(j.todo)
    /\ k.stage = IF j.request.kind \in {"hash", "jws"} THEN "locking" ELSE "looking"

\* The call is over, with an error or with an answer.
Ends(j, k) ==
    /\ k.stage = "idle"
    /\ k.failed \/ (j.stage = "loggingOut" /\ ~j.failed /\ Len(j.todo) = 1)

Moves(j, k) ==
    \/ k = j \/ Begins(k) \/ Ends(j, k)
    \/ Reads(j, k) \/ Splits(j, k) \/ Proceeds(j, k) \/ Signs(j, k) \/ Continues(j, k)

\* Goto is one way to go on.
LEMMA GotoMoves ==
  ASSUME job \in [Workers -> Job], NEW w \in Workers, NEW next \in Stage, Goto(w, next)
  PROVE  /\ SameWork(job[w], job'[w]) /\ job'[w].stage = next
         /\ \A v \in Workers \ {w} : job'[v] = job[v]
  BY DEF Goto, Job, SameWork

\* Finish and Refused are the ways to end.
LEMMA FinishMoves ==
  ASSUME job \in [Workers -> Job], NEW w \in Workers, NEW failure \in BOOLEAN,
         Finish(w, failure)
  PROVE  /\ job'[w].stage = "idle" /\ job'[w].failed = failure
         /\ \A v \in Workers \ {w} : job'[v] = job[v]
<1> DEFINE finished == [Idle EXCEPT !.failed = failure]
<1>1. finished.stage = "idle" /\ finished.failed = failure
  BY IdleType DEF Job
<1> HIDE DEF finished
<1> QED
  BY <1>1 DEF Finish, finished

\* Begin is the way to begin.
LEMMA BeginMoves ==
  ASSUME job \in [Workers -> Job], NEW w \in Workers, NEW request \in Requests,
         NEW token, NEW pin, NEW stage \in {"locking", "resolving", "reloading"},
         stage = "locking" <=> request.kind = "hash",
         request.kind = "batch" => stage = "resolving",
         Begin(w, request, token, pin, stage)
  PROVE  Begins(job'[w]) /\ \A v \in Workers \ {w} : job'[v] = job[v]
<1> DEFINE left == IF request.kind = "batch" THEN request.files ELSE <<>>
           todo == IF request.kind = "batch" THEN <<<<>>, <<>>>>
                   ELSE OnePerFile(request.files)
           begun == [Idle EXCEPT !.stage = stage, !.request = request,
                        !.token = token, !.pin = pin, !.left = left, !.todo = todo]
<1>1. job' = [job EXCEPT ![w] = begun]
  BY Zenon DEF Begin
<1>2. /\ begun.stage = stage /\ begun.request = request
      /\ begun.left = left /\ begun.todo = todo /\ begun.out = <<>>
  BY IdleType DEF Job, Idle
<1> HIDE DEF begun
<1>3. job'[w] = begun /\ \A v \in Workers \ {w} : job'[v] = job[v]
  BY <1>1
<1> QED
  BY <1>2, <1>3 DEF Begins

\* The steps up to the use of the token are such moves.
LEMMA EarlyMoves ==
  ASSUME TypeOK, \A v \in Workers : JobInv(job[v]), NEW w \in Workers,
         \/ SignHash(w) \/ SignFiles(w) \/ Resolve(w) \/ ResolveOrReload(w)
         \/ ReadFile(w) \/ AllRead(w) \/ Look(w) \/ RefreshAndLook(w)
         \/ RefuseDocument(w) \/ Prepare(w)
  PROVE  Moves(job[w], job'[w]) /\ \A v \in Workers \ {w} : job'[v] = job[v]
<1> DEFINE Done == Moves(job[w], job'[w]) /\ \A v \in Workers \ {w} : job'[v] = job[v]
<1> SUFFICES Done
  OBVIOUS
<1>t. job \in [Workers -> Job]
  BY DEF TypeOK
<1>f. ASSUME Finish(w, TRUE) PROVE Done
  BY <1>t, <1>f, FinishMoves DEF Moves, Ends
<1>g. {"reading", "looking", "refreshing", "preparing", "locking"} \subseteq Stage
  BY DEF Stage
<1>1. CASE SignHash(w)
  BY <1>t, <1>1, BeginMoves DEF SignHash, Moves
<1>2. CASE SignFiles(w)
  BY <1>t, <1>2, BeginMoves DEF SignFiles, Moves
<1>3. CASE Resolve(w)
  <2>1. CASE Goto(w, IF job[w].request.kind = "batch" THEN "reading" ELSE "looking")
    <3>1. Proceeds(job[w], job'[w])
      BY <1>t, <1>g, <1>3, <2>1, GotoMoves DEF Resolve, Proceeds
    <3> QED BY <1>t, <1>g, <2>1, <3>1, GotoMoves DEF Moves
  <2> QED BY <1>3, <1>f, <2>1 DEF Resolve
<1>4. CASE ResolveOrReload(w)
  <2>1. CASE Goto(w, "looking")
    BY <1>t, <1>g, <1>4, <2>1, GotoMoves DEF ResolveOrReload, Proceeds, Moves
  <2> QED BY <1>4, <1>f, <2>1 DEF ResolveOrReload
<1>5. CASE ReadFile(w)
  <2> DEFINE file == Head(job[w].left)
  <2>1. CASE /\ file.format = "json"
             /\ job' = [job EXCEPT ![w].left = Tail(@), ![w].todo[1] = Append(@, file)]
    <3>1. Reads(job[w], job'[w])
      BY <1>t, <1>5, <2>1 DEF ReadFile, Reads, Job, JobInv, Shaped, Portions
    <3> QED BY <1>t, <2>1, <3>1 DEF Moves
  <2>2. CASE /\ file.format = "pdf"
             /\ job' = [job EXCEPT ![w].left = Tail(@), ![w].todo[2] = Append(@, file)]
    <3>1. Reads(job[w], job'[w])
      BY <1>t, <1>5, <2>2 DEF ReadFile, Reads, Job, JobInv, Shaped, Portions
    <3> QED BY <1>t, <2>2, <3>1 DEF Moves
  <2> QED BY <1>5, <1>f, <2>1, <2>2 DEF ReadFile
<1>6. CASE AllRead(w)
  <2> DEFINE json == job[w].todo[1]
             pdf == job[w].todo[2]
             todo == CASE json = <<>> -> <<pdf>>
                       [] pdf = <<>> -> <<json>>
                       [] OTHER -> <<json, pdf>>
  <2>1. /\ job[w].stage = "reading" /\ job[w].left = <<>>
        /\ job' = [job EXCEPT ![w].stage = "looking", ![w].todo = todo]
    BY <1>6, Zenon DEF AllRead
  <2> HIDE DEF todo
  <2>2. /\ job'[w].stage = "looking" /\ job'[w].todo = todo
        /\ job'[w].request = job[w].request /\ job'[w].out = job[w].out
        /\ \A v \in Workers \ {w} : job'[v] = job[v]
    BY <1>t, <2>1 DEF Job
  <2>3. Splits(job[w], job'[w])
    BY <2>1, <2>2, Zenon DEF Splits, todo
  <2> QED BY <2>2, <2>3 DEF Moves
<1>7. ASSUME NEW found \in Slot, job[w].stage \in {"looking", "refreshing"},
             job' = [job EXCEPT ![w].x5c = found, ![w].stage = AfterLookup(w)]
      PROVE  Done
  BY <1>t, <1>7 DEF AfterLookup, Portion, Job, Proceeds, SameWork, Moves
<1>8. CASE Look(w)
  <2>1. CASE Goto(w, "refreshing")
    BY <1>t, <1>g, <1>8, <2>1, GotoMoves DEF Look, Proceeds, Moves
  <2>2. cache.certificates \in Slot
    BY DEF TypeOK
  <2> QED BY <1>7, <1>8, <2>1, <2>2 DEF Look
<1>9. CASE RefreshAndLook(w)
  <2>1. job[w].stage = "refreshing"
    BY <1>9 DEF RefreshAndLook
  <2>2. \/ job' = [job EXCEPT ![w].x5c = Listed, ![w].stage = AfterLookup(w)]
        \/ Finish(w, TRUE)
    BY <1>9, Zenon DEF RefreshAndLook
  <2>3. ASSUME job' = [job EXCEPT ![w].x5c = Listed, ![w].stage = AfterLookup(w)]
        PROVE  Done
    <3>1. Listed \in Slot
      BY ListedType DEF TypeOK
    <3> HIDE DEF Done
    <3> QED BY <1>7, <2>1, <2>3, <3>1, Zenon
  <2> QED BY <1>f, <2>2, <2>3
<1>10. CASE Prepare(w)
  BY <1>t, <1>g, <1>10, GotoMoves DEF Prepare, Portion, Proceeds, Moves
<1>11. CASE RefuseDocument(w)
  BY <1>11, <1>f DEF RefuseDocument
<1> QED
  BY <1>1, <1>2, <1>3, <1>4, <1>5, <1>6, <1>8, <1>9, <1>10, <1>11

\* So are those at the token.
LEMMA TokenMoves ==
  ASSUME TypeOK, \A v \in Workers : JobInv(job[v]), NEW w \in Workers,
         \/ OpenSession(w) \/ Login(w) \/ FindKey(w) \/ Sign(w) \/ PortionSigned(w)
         \/ LogOut(w)
  PROVE  Moves(job[w], job'[w]) /\ \A v \in Workers \ {w} : job'[v] = job[v]
<1> DEFINE Done == Moves(job[w], job'[w]) /\ \A v \in Workers \ {w} : job'[v] = job[v]
<1> SUFFICES Done
  OBVIOUS
<1>t. job \in [Workers -> Job]
  BY DEF TypeOK
<1>f. ASSUME Finish(w, TRUE) PROVE Done
  BY <1>t, <1>f, FinishMoves DEF Moves, Ends
<1>g. {"login", "finding", "signing", "loggingOut"} \subseteq Stage
  BY DEF Stage
<1>1. CASE OpenSession(w)
  <2>1. CASE Goto(w, "login")
    BY <1>t, <1>g, <1>1, <2>1, GotoMoves DEF OpenSession, Proceeds, Moves
  <2> QED BY <1>1, <1>f, <2>1 DEF OpenSession, Abandon
<1>2. CASE Login(w)
  <2>1. CASE Goto(w, "finding")
    BY <1>t, <1>g, <1>2, <2>1, GotoMoves DEF Login, Proceeds, Moves
  <2>2. CASE Refused(w)
    <3> DEFINE refused == [Idle EXCEPT !.failed = TRUE, !.refused = job[w].refused + 1]
    <3>1. refused.stage = "idle" /\ refused.failed
      BY IdleType DEF Job
    <3> HIDE DEF refused
    <3> QED BY <1>t, <2>2, <3>1 DEF Refused, refused, Moves, Ends
  <2> QED BY <1>2, <2>1, <2>2 DEF Login
<1>3. ASSUME job[w].stage \in {"finding", "signing"},
             job' = [job EXCEPT ![w].stage = "loggingOut", ![w].failed = TRUE]
      PROVE  Done
  BY <1>t, <1>3 DEF Job, Proceeds, SameWork, Moves
<1>4. CASE FindKey(w)
  <2>1. CASE Goto(w, "signing")
    BY <1>t, <1>g, <1>4, <2>1, GotoMoves DEF FindKey, Proceeds, Moves
  <2> QED BY <1>3, <1>4, <2>1 DEF FindKey
<1>5. CASE Sign(w)
  <2> DEFINE made == [file |-> Head(Portion(w)), key |-> session.token, x5c |-> job[w].x5c]
             out == Append(job[w].out, made)
             todo == <<Tail(Head(job[w].todo))>> \o Tail(job[w].todo)
  <2>1. job[w].stage = "signing" /\ Portion(w) # <<>>
    BY <1>5 DEF Sign
  <2>2. CASE /\ session.token # NoToken
             /\ job' = [job EXCEPT ![w].out = out, ![w].todo = todo]
    <3>1. /\ job[w].todo \in Seq(Files) /\ job[w].todo # <<>>
          /\ job[w].x5c \in Slot /\ session.token \in Tokens
      BY <1>t, <2>1, <2>2 DEF TypeOK, Job, Portions, JobInv, Shaped, Slot
    <3>2. Portion(w) \in Seq(File) /\ Portion(w) # <<>>
      BY <2>1, <3>1, HeadTailProperties DEF Portion, Files
    <3>3. Head(Portion(w)) \in File
      BY <3>2, HeadTailProperties
    <3>4. made \in Signature /\ made.file = Head(Head(job[w].todo))
      BY <3>1, <3>3 DEF Signature, Portion
    <3> HIDE DEF todo, made
    <3>5. /\ job'[w].stage = "signing" /\ job'[w].request = job[w].request
          /\ job'[w].out = Append(job[w].out, made) /\ job'[w].todo = todo
          /\ \A v \in Workers \ {w} : job'[v] = job[v]
      BY <1>t, <2>1, <2>2 DEF Job
    <3>6. Signs(job[w], job'[w])
      BY <2>1, <3>4, <3>5 DEF Signs, Portion, todo
    <3> QED BY <3>5, <3>6 DEF Moves
  <2> QED BY <1>3, <1>5, <2>1, <2>2, Zenon DEF Sign
<1>6. CASE PortionSigned(w)
  BY <1>t, <1>g, <1>6, GotoMoves DEF PortionSigned, Portion, Proceeds, Moves
<1>7. CASE LogOut(w)
  <2>1. job[w].stage = "loggingOut"
    BY <1>7 DEF LogOut
  <2>2. CASE ~job[w].failed /\ Len(job[w].todo) = 1 /\ Finish(w, FALSE)
    BY <1>t, <2>1, <2>2, FinishMoves DEF Moves, Ends
  <2>3. CASE ~job[w].failed /\ Len(job[w].todo) # 1 /\ NextPortion(w)
    BY <1>t, <2>1, <2>3 DEF NextPortion, Job, Continues, Moves
  <2> QED BY <1>7, <1>f, <2>2, <2>3 DEF LogOut
<1> QED
  BY <1>1, <1>2, <1>4, <1>5, <1>6, <1>7

\* Whatever happens, each job makes one of these moves.
LEMMA EveryMove ==
  ASSUME IInv, [Next]_vars
  PROVE  \A w \in Workers : Moves(job[w], job'[w])
<1>t. TypeOK /\ \A v \in Workers : JobInv(job[v])
  BY DEF IInv
<1>1. ASSUME NEW w \in Workers, SignHash(w) \/ SignFiles(w) \/ WorkerStep(w)
      PROVE  Moves(job[w], job'[w]) /\ \A v \in Workers \ {w} : job'[v] = job[v]
  BY <1>t, <1>1, EarlyMoves, TokenMoves, Zenon DEF WorkerStep
<1>2. CASE MoveToken \/ CacheRefreshed \/ CacheInvalidated \/ UNCHANGED vars
  BY <1>2 DEF MoveToken, CacheRefreshed, CacheInvalidated, vars, Moves
<1> QED
  BY <1>1, <1>2 DEF Next, Moves

-----------------------------------------------------------------------------
(* Each move keeps to the plan.                                            *)

\* The ranges of a job's sequences.
LEMMA JobLists ==
  ASSUME NEW j \in Job
  PROVE  /\ j.request \in Requests
         /\ j.request.files \in Seq(File) /\ Len(j.request.files) \in Nat \ {0}
         /\ j.left \in Seq(File) /\ Len(j.left) \in Nat
         /\ j.todo \in Seq(Seq(File)) /\ Len(j.todo) \in Nat
         /\ \A i \in DOMAIN j.todo : j.todo[i] \in Seq(File) /\ Len(j.todo[i]) \in Nat
         /\ j.out \in Seq(Signature) /\ Len(j.out) \in Nat
<1>1. j.request \in Requests /\ j.request.files \in Seq(File) /\ j.request.files # <<>>
  BY RequestsAssumption DEF Job
<1>2. Len(j.request.files) \in Nat \ {0}
  BY <1>1, EmptySeq, LenProperties
<1>3. j.left \in Seq(File) /\ j.todo \in Seq(Seq(File)) /\ j.out \in Seq(Signature)
  BY DEF Job, Files, Portions, Signatures
<1> QED
  BY <1>1, <1>2, <1>3, LenProperties, ElementOfSeq

\* No file, no format to get wrong.
LEMMA EmptyPortion ==
  ASSUME NEW files, NEW format, NEW kind
  PROVE  Sorted(<<>>, format, files, 0) /\ Sound(<<>>, kind)
<1> DEFINE empty == <<>>
           place == [i \in DOMAIN empty |-> 1]
<1>1. DOMAIN empty = {} /\ 1..0 = {}
  OBVIOUS
<1> HIDE DEF empty
<1>2. place \in [DOMAIN empty -> 1..0]
  BY <1>1
<1>3. Sorted(empty, format, files, 0)
  BY <1>1, <1>2 DEF Sorted
<1>4. Sound(empty, kind)
  BY <1>1 DEF Sound
<1> QED BY <1>3, <1>4 DEF empty

\* A call of one format answers its files as they were sent.
LEMMA BeginsKeeps ==
  ASSUME NEW k \in Job, Begins(k)
  PROVE  WorkInv(k)
<1> DEFINE files == k.request.files
<1>t. k.request \in Requests /\ files \in Seq(File) /\ Len(files) \in Nat \ {0}
  BY JobLists
<1>1. CASE k.request.kind = "batch"
  <2>1. /\ k.out = <<>> /\ k.stage = "resolving" /\ k.left = files
        /\ k.todo = <<<<>>, <<>>>>
    BY <1>1 DEF Begins
  <2>2. Len(files) - Len(k.left) = 0
    BY <1>t, <2>1
  <2>3. k.todo[1] = <<>> /\ k.todo[2] = <<>> /\ Len(k.todo[1]) + Len(k.todo[2]) = 0
    BY <2>1
  <2>4. /\ Sorted(k.todo[1], "json", files, 0)
        /\ Sorted(k.todo[2], "pdf", files, 0)
    BY <2>3, EmptyPortion
  <2>5. HalfSorted(k, files)
    BY <1>t, <2>1, <2>2, <2>3, <2>4 DEF HalfSorted
  <2> QED BY <1>1, <2>1, <2>5 DEF WorkInv, Sorting
<1>2. CASE k.request.kind # "batch"
  <2>1. /\ k.out = <<>> /\ k.stage \in {"resolving", "reloading", "locking"}
        /\ k.stage = "locking" => k.request.kind = "hash"
        /\ k.todo = OnePerFile(files)
    BY <1>2 DEF Begins
  <2> DEFINE order == [i \in 1..Len(files) |-> i]
             format == FormatOf[k.request.kind]
  <2>2. /\ \A i \in 1..Len(files) : files[i].format = format
        /\ format \in {"hash", "json", "pdf"} /\ format = "pdf" => k.request.kind = "pdf"
        /\ \A i \in 1..Len(files) : format # "pdf" => files[i].valid
    BY <1>t, <1>2, FormatsAssumption, RequestsAssumption DEF FormatOf, Kind
  <2>3. Order(files, order)
    BY <1>t, <2>2 DEF Order, Before
  <2>4. /\ Len(k.todo) = Len(files) /\ DOMAIN k.todo = 1..Len(files)
        /\ \A i \in 1..Len(files) :
               /\ k.todo[i] = <<files[i]>>
               /\ Len(k.todo[i]) = 1 /\ DOMAIN k.todo[i] = {1} /\ k.todo[i][1] = files[i]
    <3>1. k.todo = [i \in 1..Len(files) |-> <<files[i]>>]
      BY <2>1 DEF OnePerFile
    <3>2. Len(k.todo) = Len(files) /\ DOMAIN k.todo = 1..Len(files)
      BY <1>t, <3>1, JobLists
    <3>3. \A i \in 1..Len(files) : k.todo[i] = <<files[i]>>
      BY <3>1
    <3>4. ASSUME NEW x PROVE Len(<<x>>) = 1 /\ DOMAIN <<x>> = {1} /\ <<x>>[1] = x
      OBVIOUS
    <3> QED BY <3>2, <3>3, <3>4
  <2> HIDE DEF order, format
  <2>5. Follows(k.out, k.todo, files, order)
    <3>1. Len(k.out) = 0 /\ DOMAIN k.out = {}
      BY <2>1
    <3>2. Len(k.todo[1]) = 1 /\ 1 \in 1..Len(files) /\ Len(files) \in 1..Len(files)
      BY <1>t, <2>4
    <3>3. ASSUME NEW i \in 1..Len(files)
          PROVE  Start(k.out, k.todo, i) = i - 1 /\ Start(k.out, k.todo, i) + 1 = i
      <4>1. i \in Nat /\ 1 + i - 2 = i - 1 /\ 0 + (i - 1) = i - 1 /\ i - 1 + 1 = i
        BY <1>t
      <4> QED BY <3>1, <3>2, <4>1 DEF Start
    <3>4. \A i \in 1..Len(files) : order[i] = i
      BY DEF order
    <3>5. \A i \in DOMAIN k.todo : \A n \in DOMAIN k.todo[i] :
             k.todo[i][n] = files[order[Start(k.out, k.todo, i) + n]]
      BY <2>4, <3>3, <3>4
    <3>6. Start(k.out, k.todo, Len(k.todo)) + Len(k.todo[Len(k.todo)]) = Len(files)
      BY <2>4, <3>2, <3>3
    <3> QED BY <2>4, <3>1, <3>5, <3>6 DEF Follows
  <2>6. \A i \in DOMAIN k.todo : Sound(k.todo[i], k.request.kind)
    BY <2>2, <2>4 DEF Sound
  <2>7. k.stage = "locking" => AllValid(Head(k.todo))
    <3>1. Head(k.todo) = k.todo[1]
      BY <1>t, <2>4, JobLists
    <3> QED BY <1>t, <2>1, <2>2, <2>4, <3>1 DEF AllValid
  <2>8. Planned(k, files)
    BY <2>3, <2>5, <2>6 DEF Planned
  <2> QED BY <1>2, <2>1, <2>7, <2>8 DEF WorkInv, Sorting
<1> QED BY <1>1, <1>2

\* The next file of the format comes last in its portion.
LEMMA SortedGrows ==
  ASSUME NEW files \in Seq(File), NEW portion \in Seq(File), NEW read \in Nat,
         read < Len(files), Sorted(portion, files[read + 1].format, files, read)
  PROVE  Sorted(Append(portion, files[read + 1]), files[read + 1].format, files, read + 1)
<1> DEFINE file == files[read + 1]
           n == Len(portion)
           longer == Append(portion, file)
<1>1. PICK place \in [DOMAIN portion -> 1..read] :
        /\ \A i \in DOMAIN portion :
               portion[i] = files[place[i]] /\ portion[i].format = file.format
        /\ \A i, k \in DOMAIN portion : i < k => place[i] < place[k]
        /\ \A m \in 1..read :
               files[m].format = file.format => \E i \in DOMAIN portion : place[i] = m
  BY DEF Sorted
<1>2. file \in File
  BY LenProperties, ElementOfSeq
<1>3. n \in Nat /\ DOMAIN portion = 1..n
  BY LenProperties
<1>4. /\ DOMAIN longer = 1..(n + 1) /\ longer[n + 1] = file
      /\ \A i \in 1..n : longer[i] = portion[i]
  BY <1>2, <1>3, AppendProperties
<1> DEFINE place2 == [i \in 1..(n + 1) |-> IF i <= n THEN place[i] ELSE read + 1]
<1> HIDE DEF file, n, longer
<1>5. \A i \in 1..n : place[i] \in 1..read
  BY <1>1, <1>3
<1>6. place2 \in [DOMAIN longer -> 1..(read + 1)]
  BY <1>3, <1>4, <1>5
<1>7. /\ \A i \in 1..n : place2[i] = place[i] /\ i \in 1..(n + 1)
      /\ place2[n + 1] = read + 1 /\ n + 1 \in 1..(n + 1)
  BY <1>3
<1> HIDE DEF place2
<1>8. \A i \in 1..(n + 1) : i \in 1..n \/ i = n + 1
  BY <1>3
<1>9. \A i \in DOMAIN longer : longer[i] = files[place2[i]] /\ longer[i].format = file.format
  BY <1>1, <1>3, <1>4, <1>7, <1>8 DEF file
<1>10. ASSUME NEW i \in 1..(n + 1), NEW k \in 1..(n + 1), i < k
       PROVE  place2[i] < place2[k]
  <2>1. i \in 1..n
    BY <1>3, <1>10
  <2>2. CASE k \in 1..n
    BY <1>1, <1>3, <1>7, <1>10, <2>1, <2>2
  <2>3. CASE k = n + 1
    BY <1>5, <1>7, <2>1, <2>3
  <2> QED BY <1>8, <2>2, <2>3
<1>11. ASSUME NEW m \in 1..(read + 1), files[m].format = file.format
       PROVE  \E i \in DOMAIN longer : place2[i] = m
  <2>1. CASE m \in 1..read
    BY <1>1, <1>3, <1>4, <1>7, <1>11, <2>1
  <2>2. CASE m = read + 1
    BY <1>4, <1>7, <2>2
  <2> QED BY <2>1, <2>2
<1>12. Sorted(longer, file.format, files, read + 1)
  BY <1>4, <1>6, <1>9, <1>10, <1>11 DEF Sorted
<1> QED BY <1>12 DEF longer, file

\* A file of another format leaves a portion as it is.
LEMMA SortedStays ==
  ASSUME NEW files \in Seq(File), NEW portion \in Seq(File), NEW read \in Nat,
         read < Len(files), NEW format, files[read + 1].format # format,
         Sorted(portion, format, files, read)
  PROVE  Sorted(portion, format, files, read + 1)
<1>1. PICK place \in [DOMAIN portion -> 1..read] :
        /\ \A i \in DOMAIN portion : portion[i] = files[place[i]] /\ portion[i].format = format
        /\ \A i, k \in DOMAIN portion : i < k => place[i] < place[k]
        /\ \A m \in 1..read :
               files[m].format = format => \E i \in DOMAIN portion : place[i] = m
  BY DEF Sorted
<1>2. place \in [DOMAIN portion -> 1..(read + 1)]
  BY <1>1
<1>3. \A m \in 1..(read + 1) : m \in 1..read \/ m = read + 1
  OBVIOUS
<1> QED BY <1>1, <1>2, <1>3 DEF Sorted

\* Reading on keeps the halves sorted.
LEMMA ReadsKeeps ==
  ASSUME NEW j \in Job, NEW k \in Job, JobInv(j), WorkInv(j), Reads(j, k)
  PROVE  WorkInv(k)
<1> DEFINE files == j.request.files
           read == Len(files) - Len(j.left)
           file == Head(j.left)
<1>t. /\ files \in Seq(File) /\ Len(files) \in Nat /\ j.left \in Seq(File)
      /\ Len(j.left) \in Nat /\ j.left # <<>> /\ Len(j.todo) = 2
      /\ j.todo[1] \in Seq(File) /\ j.todo[2] \in Seq(File)
      /\ Len(j.todo[1]) \in Nat /\ Len(j.todo[2]) \in Nat
  <2>1. j.todo \in Seq(Seq(File)) /\ Len(j.todo) = 2
    BY JobLists DEF Reads, JobInv, Shaped
  <2>2. 1 \in DOMAIN j.todo /\ 2 \in DOMAIN j.todo
    BY <2>1
  <2> QED BY <2>1, <2>2, JobLists DEF Reads
<1>1. /\ j.request.kind = "batch" /\ HalfSorted(j, files)
      /\ k.request = j.request /\ k.stage = "reading"
      /\ k.out = j.out /\ k.left = Tail(j.left)
  BY DEF WorkInv, Sorting, Reads
<1>2. /\ Len(k.left) = Len(j.left) - 1 /\ Len(j.left) >= 1 /\ file = j.left[1]
      /\ \A i \in 1..(Len(j.left) - 1) : k.left[i] = j.left[i + 1]
      /\ DOMAIN j.left = 1..Len(j.left) /\ DOMAIN k.left = 1..(Len(j.left) - 1)
  BY <1>t, <1>1, HeadTailProperties, EmptySeq, LenProperties
<1>0. Len(j.left) <= Len(files) /\ \A i \in DOMAIN j.left : j.left[i] = files[read + i]
  BY <1>1 DEF HalfSorted
<1>3. /\ read \in Nat /\ read < Len(files) /\ file = files[read + 1]
      /\ Len(k.left) <= Len(files) /\ Len(files) - Len(k.left) = read + 1
  <2> HIDE DEF files
  <2>1. /\ read \in Nat /\ read < Len(files)
        /\ Len(k.left) <= Len(files) /\ Len(files) - Len(k.left) = read + 1
    BY <1>t, <1>0, <1>2
  <2>2. 1 \in DOMAIN j.left
    BY <1>t, <1>2
  <2> QED BY <1>0, <1>2, <2>1, <2>2
<1>4. \A i \in DOMAIN k.left : k.left[i] = files[(read + 1) + i]
  <2> HIDE DEF read, files
  <2>1. \A i \in 1..(Len(j.left) - 1) :
           i + 1 \in DOMAIN j.left /\ read + (i + 1) = (read + 1) + i
    BY <1>t, <1>2, <1>3
  <2> QED BY <1>0, <1>2, <2>1
<1>5. file.format \in {"json", "pdf"}
  BY DEF Reads
<1>6. \A m \in 1..(read + 1) : files[m].format \in {"json", "pdf"}
  <2>1. \A m \in 1..read : files[m].format \in {"json", "pdf"}
    BY <1>1 DEF HalfSorted
  <2>2. \A m \in 1..(read + 1) : m \in 1..read \/ m = read + 1
    BY <1>3
  <2> QED BY <1>3, <1>5, <2>1, <2>2
<1>7. /\ Sorted(j.todo[1], "json", files, read) /\ Sorted(j.todo[2], "pdf", files, read)
      /\ Len(j.todo[1]) + Len(j.todo[2]) = read
  BY <1>1 DEF HalfSorted
<1>8. /\ Sorted(k.todo[1], "json", files, read + 1)
      /\ Sorted(k.todo[2], "pdf", files, read + 1)
      /\ Len(k.todo[1]) + Len(k.todo[2]) = read + 1
  <2>f. file \in File
    BY <1>t, HeadTailProperties
  <2>a. \A a, b \in Nat : (a + 1) + b = (a + b) + 1 /\ a + (b + 1) = (a + b) + 1
    OBVIOUS
  <2> HIDE DEF read, file, files
  <2>1. CASE file.format = "json"
    <3>1. k.todo[1] = Append(j.todo[1], file) /\ k.todo[2] = j.todo[2]
      BY <2>1 DEF Reads, file
    <3>2. Len(k.todo[1]) = Len(j.todo[1]) + 1
      BY <1>t, <2>f, <3>1, AppendProperties
    <3>3. Sorted(k.todo[1], "json", files, read + 1)
      BY <1>t, <1>3, <1>7, <2>1, <3>1, SortedGrows
    <3>4. Sorted(k.todo[2], "pdf", files, read + 1)
      BY <1>t, <1>3, <1>7, <2>1, <3>1, SortedStays
    <3>5. Len(k.todo[1]) + Len(k.todo[2]) = read + 1
      BY <1>t, <1>7, <2>a, <3>1, <3>2
    <3> QED BY <3>3, <3>4, <3>5
  <2>2. CASE file.format = "pdf"
    <3>1. k.todo[2] = Append(j.todo[2], file) /\ k.todo[1] = j.todo[1]
      BY <2>2 DEF Reads, file
    <3>2. Len(k.todo[2]) = Len(j.todo[2]) + 1
      BY <1>t, <2>f, <3>1, AppendProperties
    <3>3. Sorted(k.todo[2], "pdf", files, read + 1)
      BY <1>t, <1>3, <1>7, <2>2, <3>1, SortedGrows
    <3>4. Sorted(k.todo[1], "json", files, read + 1)
      BY <1>t, <1>3, <1>7, <2>2, <3>1, SortedStays
    <3>5. Len(k.todo[1]) + Len(k.todo[2]) = read + 1
      BY <1>t, <1>7, <2>a, <3>1, <3>2
    <3> QED BY <3>3, <3>4, <3>5
  <2> QED BY <1>5, <2>1, <2>2
<1>9. k.out = <<>>
  BY <1>1 DEF HalfSorted
<1>10. HalfSorted(k, files)
  BY <1>1, <1>3, <1>4, <1>6, <1>8, <1>9 DEF HalfSorted
<1> QED BY <1>1, <1>10 DEF WorkInv, Sorting

\* The two halves, one after the other, are an order of the files.
LEMMA HalvesAreAnOrder ==
  ASSUME NEW files \in Seq(File), NEW json \in Seq(File), NEW pdf \in Seq(File),
         Len(json) + Len(pdf) = Len(files),
         \A n \in 1..Len(files) : files[n].format \in {"json", "pdf"},
         Sorted(json, "json", files, Len(files)), Sorted(pdf, "pdf", files, Len(files))
  PROVE  \E order :
            /\ Order(files, order)
            /\ \A i \in 1..Len(json) : json[i] = files[order[i]]
            /\ \A i \in 1..Len(pdf) : pdf[i] = files[order[Len(json) + i]]
<1> DEFINE n == Len(files)
           a == Len(json)
           b == Len(pdf)
<1>1. PICK p \in [DOMAIN json -> 1..n] :
        /\ \A i \in DOMAIN json : json[i] = files[p[i]] /\ json[i].format = "json"
        /\ \A i, k \in DOMAIN json : i < k => p[i] < p[k]
        /\ \A m \in 1..n : files[m].format = "json" => \E i \in DOMAIN json : p[i] = m
  BY DEF Sorted
<1>2. PICK q \in [DOMAIN pdf -> 1..n] :
        /\ \A i \in DOMAIN pdf : pdf[i] = files[q[i]] /\ pdf[i].format = "pdf"
        /\ \A i, k \in DOMAIN pdf : i < k => q[i] < q[k]
        /\ \A m \in 1..n : files[m].format = "pdf" => \E i \in DOMAIN pdf : q[i] = m
  BY DEF Sorted
<1>3. /\ a \in Nat /\ b \in Nat /\ n \in Nat /\ a + b = n
      /\ DOMAIN json = 1..a /\ DOMAIN pdf = 1..b
  BY LenProperties
<1>4. \A m \in 1..n : files[m].format \in {"json", "pdf"}
  OBVIOUS
<1>p. /\ \A i \in 1..a : json[i] = files[p[i]] /\ json[i].format = "json"
      /\ \A i, k \in 1..a : i < k => p[i] < p[k]
      /\ \A m \in 1..n : files[m].format = "json" => \E i \in 1..a : p[i] = m
  BY <1>1, <1>3
<1>q. /\ \A i \in 1..b : pdf[i] = files[q[i]] /\ pdf[i].format = "pdf"
      /\ \A i, k \in 1..b : i < k => q[i] < q[k]
      /\ \A m \in 1..n : files[m].format = "pdf" => \E i \in 1..b : q[i] = m
  BY <1>2, <1>3
<1> DEFINE order == [i \in 1..n |-> IF i <= a THEN p[i] ELSE q[i - a]]
<1> HIDE DEF n, a, b
<1>5. /\ \A i \in 1..a : p[i] \in 1..n
      /\ \A i \in 1..b : q[i] \in 1..n
  BY <1>1, <1>2, <1>3
<1>6. /\ \A i \in 1..a : i \in 1..n /\ i <= a
      /\ \A i \in 1..b : a + i \in 1..n /\ ~(a + i <= a) /\ (a + i) - a = i
      /\ \A i \in 1..n : i \in 1..a \/ (~(i <= a) /\ i - a \in 1..b /\ a + (i - a) = i)
  BY <1>3
<1>7. /\ \A i \in 1..a : order[i] = p[i]
      /\ \A i \in 1..b : order[a + i] = q[i]
  BY <1>6
<1>8. order \in [1..n -> 1..n]
  BY <1>5, <1>6
<1> HIDE DEF order
<1>9. /\ \A i \in 1..a : files[order[i]] = json[i] /\ files[order[i]].format = "json"
      /\ \A i \in 1..b : files[order[a + i]] = pdf[i] /\ files[order[a + i]].format = "pdf"
  <2>1. ASSUME NEW i \in 1..a
        PROVE  files[order[i]] = json[i] /\ files[order[i]].format = "json"
    <3>1. order[i] = p[i] /\ json[i] = files[p[i]] /\ json[i].format = "json"
      BY ONLY <1>p, <1>7, <2>1
    <3> QED BY ONLY <3>1
  <2>2. ASSUME NEW i \in 1..b
        PROVE  files[order[a + i]] = pdf[i] /\ files[order[a + i]].format = "pdf"
    <3>1. order[a + i] = q[i] /\ pdf[i] = files[q[i]] /\ pdf[i].format = "pdf"
      BY ONLY <1>q, <1>7, <2>2
    <3> QED BY ONLY <3>1
  <2> QED BY ONLY <2>1, <2>2
<1>10. ASSUME NEW i \in 1..n, NEW k \in 1..n, i < k
       PROVE  Before(files, order[i], order[k])
  <2>1. CASE i \in 1..a /\ k \in 1..a
    BY ONLY <1>p, <1>7, <1>9, <1>10, <2>1 DEF Before
  <2>2. CASE i \in 1..a /\ k \notin 1..a
    <3>1. k - a \in 1..b /\ a + (k - a) = k
      BY <1>6, <2>2
    <3>2. files[order[i]].format = "json" /\ files[order[k]].format = "pdf"
      BY <1>9, <2>2, <3>1
    <3> QED BY <3>2 DEF Before
  <2>3. CASE i \notin 1..a
    <3>1. /\ i - a \in 1..b /\ a + (i - a) = i /\ k - a \in 1..b /\ a + (k - a) = k
          /\ i - a < k - a
      BY <1>3, <1>6, <1>10, <2>3
    <3>2. order[i] = q[i - a] /\ order[k] = q[k - a] /\ q[i - a] < q[k - a]
      BY <1>q, <1>7, <3>1
    <3>3. files[order[i]].format = "pdf" /\ files[order[k]].format = "pdf"
      BY <1>9, <3>1
    <3> QED BY <3>2, <3>3 DEF Before
  <2> QED BY <2>1, <2>2, <2>3
<1>11. ASSUME NEW m \in 1..n
       PROVE  \E i \in 1..n : order[i] = m
  <2>1. CASE files[m].format = "json"
    <3>1. PICK i \in 1..a : p[i] = m
      BY <1>p, <2>1
    <3> QED BY <1>6, <1>7, <3>1
  <2>2. CASE files[m].format = "pdf"
    <3>1. PICK i \in 1..b : q[i] = m
      BY <1>q, <2>2
    <3> QED BY <1>6, <1>7, <3>1
  <2> QED BY <1>4, <2>1, <2>2
<1>12. Order(files, order)
  BY <1>8, <1>10, <1>11 DEF Order, n
<1>13. /\ \A i \in 1..a : json[i] = files[order[i]]
       /\ \A i \in 1..b : pdf[i] = files[order[a + i]]
  BY ONLY <1>9
<1> QED BY <1>12, <1>13, Zenon DEF a, b

\* Two halves of a batch are sound.
LEMMA HalvesAreSound ==
  ASSUME NEW r \in Requests, r.kind = "batch", NEW portion \in Seq(File), NEW format,
         Sorted(portion, format, r.files, Len(r.files))
  PROVE  Sound(portion, r.kind)
<1>1. PICK place \in [DOMAIN portion -> 1..Len(r.files)] :
        \A i \in DOMAIN portion : portion[i] = r.files[place[i]] /\ portion[i].format = format
  BY DEF Sorted
<1>2. \A i \in 1..Len(r.files) : r.files[i].format # "pdf" => r.files[i].valid
  BY RequestsAssumption, FormatsAssumption
<1> QED BY <1>1, <1>2 DEF Sound

\* The sorted batch has a plan.
LEMMA SplitsKeeps ==
  ASSUME NEW j \in Job, NEW k \in Job, JobInv(j), WorkInv(j), Splits(j, k)
  PROVE  WorkInv(k)
<1> DEFINE files == j.request.files
           json == j.todo[1]
           pdf == j.todo[2]
<1>1. /\ j.request.kind = "batch" /\ HalfSorted(j, files) /\ j.left = <<>>
      /\ k.request = j.request /\ k.stage = "looking" /\ k.out = j.out
      /\ k.todo = CASE json = <<>> -> <<pdf>>
                    [] pdf = <<>> -> <<json>>
                    [] OTHER -> <<json, pdf>>
  BY DEF WorkInv, Sorting, Splits
<1>2. /\ j.request \in Requests /\ files \in Seq(File) /\ Len(files) \in Nat
      /\ json \in Seq(File) /\ pdf \in Seq(File) /\ Len(json) \in Nat /\ Len(pdf) \in Nat
      /\ DOMAIN json = 1..Len(json) /\ DOMAIN pdf = 1..Len(pdf)
  <2>1. j.todo \in Seq(Seq(File)) /\ Len(j.todo) = 2
    BY JobLists DEF Splits, JobInv, Shaped
  <2>2. 1 \in DOMAIN j.todo /\ 2 \in DOMAIN j.todo
    BY <2>1
  <2> QED BY <2>1, <2>2, JobLists, LenProperties
<1>3. Len(files) - Len(j.left) = Len(files)
  BY <1>1, <1>2
<1>4. /\ Len(json) + Len(pdf) = Len(files)
      /\ \A n \in 1..Len(files) : files[n].format \in {"json", "pdf"}
      /\ Sorted(json, "json", files, Len(files)) /\ Sorted(pdf, "pdf", files, Len(files))
      /\ k.out = <<>>
  BY <1>1, <1>3 DEF HalfSorted
<1>5. PICK order :
        /\ Order(files, order)
        /\ \A i \in 1..Len(json) : json[i] = files[order[i]]
        /\ \A i \in 1..Len(pdf) : pdf[i] = files[order[Len(json) + i]]
  BY <1>2, <1>4, HalvesAreAnOrder
<1>6. Sound(json, "batch") /\ Sound(pdf, "batch")
  BY <1>1, <1>2, <1>4, HalvesAreSound
<1> HIDE DEF files, json, pdf
<1>s. ASSUME NEW x PROVE Len(<<x>>) = 1 /\ DOMAIN <<x>> = {1} /\ <<x>>[1] = x
  OBVIOUS
<1>o. Len(k.out) = 0 /\ DOMAIN k.out = {}
  BY <1>4
<1>7. CASE json = <<>>
  <2>1. /\ Len(k.todo) = 1 /\ DOMAIN k.todo = {1} /\ k.todo[1] = pdf
        /\ Len(json) = 0
    BY <1>1, <1>7, <1>s
  <2>2. Start(k.out, k.todo, 1) = 0 /\ Len(pdf) = Len(files)
    BY <1>2, <1>4, <1>o, <2>1 DEF Start
  <2>3. \A i \in 1..Len(pdf) : 0 + i = i
    OBVIOUS
  <2>4. Follows(k.out, k.todo, files, order)
    BY <1>2, <1>5, <1>o, <2>1, <2>2, <2>3 DEF Follows
  <2> QED BY <1>1, <1>5, <1>6, <2>1, <2>4 DEF WorkInv, Sorting, Planned, files
<1>8. CASE json # <<>> /\ pdf = <<>>
  <2>1. /\ Len(k.todo) = 1 /\ DOMAIN k.todo = {1} /\ k.todo[1] = json
        /\ Len(pdf) = 0
    BY <1>1, <1>8, <1>s
  <2>2. Start(k.out, k.todo, 1) = 0 /\ Len(json) = Len(files)
    BY <1>2, <1>4, <1>o, <2>1 DEF Start
  <2>3. \A i \in 1..Len(json) : 0 + i = i
    OBVIOUS
  <2>4. Follows(k.out, k.todo, files, order)
    BY <1>2, <1>5, <1>o, <2>1, <2>2, <2>3 DEF Follows
  <2> QED BY <1>1, <1>5, <1>6, <2>1, <2>4 DEF WorkInv, Sorting, Planned, files
<1>9. CASE json # <<>> /\ pdf # <<>>
  <2>0. ASSUME NEW x, NEW y
        PROVE  Len(<<x, y>>) = 2 /\ DOMAIN <<x, y>> = {1, 2} /\ <<x, y>>[1] = x /\ <<x, y>>[2] = y
    OBVIOUS
  <2>1. /\ Len(k.todo) = 2 /\ DOMAIN k.todo = {1, 2} /\ k.todo[1] = json /\ k.todo[2] = pdf
    BY <1>1, <1>9, <2>0
  <2>2. Start(k.out, k.todo, 1) = 0 /\ Start(k.out, k.todo, 2) = Len(json)
    BY <1>2, <1>o, <2>1 DEF Start
  <2>3. \A i \in 1..Len(json) : 0 + i = i
    OBVIOUS
  <2>4. /\ \A i \in DOMAIN k.todo : \A n \in DOMAIN k.todo[i] :
              k.todo[i][n] = files[order[Start(k.out, k.todo, i) + n]]
        /\ \A i \in DOMAIN k.todo : ~(1 < i /\ i < Len(k.todo))
    <3>1. \A n \in DOMAIN json : json[n] = files[order[0 + n]]
      BY <1>2, <1>5, <2>3
    <3>2. \A n \in DOMAIN pdf : pdf[n] = files[order[Len(json) + n]]
      BY <1>2, <1>5
    <3>3. ~(1 < 1) /\ ~(2 < 2)
      OBVIOUS
    <3> QED BY ONLY <2>1, <2>2, <3>1, <3>2, <3>3
  <2>5. Start(k.out, k.todo, Len(k.todo)) + Len(k.todo[Len(k.todo)]) = Len(files)
    BY <1>2, <1>4, <2>1, <2>2
  <2>6. Follows(k.out, k.todo, files, order)
    BY <1>o, <2>4, <2>5, Zenon DEF Follows
  <2> QED BY <1>1, <1>5, <1>6, <2>1, <2>6 DEF WorkInv, Sorting, Planned, files
<1> QED BY <1>7, <1>8, <1>9

\* The first portion of a call that is under way.
LEMMA FirstPortion ==
  ASSUME NEW j \in Job, j.todo # <<>>
  PROVE  /\ Len(j.todo) \in Nat \ {0} /\ DOMAIN j.todo = 1..Len(j.todo)
         /\ Head(j.todo) = j.todo[1] /\ 1 \in DOMAIN j.todo
         /\ j.todo[1] \in Seq(File) /\ Len(j.todo[1]) \in Nat
         /\ DOMAIN j.todo[1] = 1..Len(j.todo[1])
<1>1. Len(j.todo) \in Nat \ {0} /\ DOMAIN j.todo = 1..Len(j.todo) /\ Head(j.todo) = j.todo[1]
  BY JobLists, HeadTailProperties, EmptySeq, LenProperties
<1>2. 1 \in DOMAIN j.todo
  BY <1>1
<1> QED BY <1>1, <1>2, JobLists, LenProperties

\* A sound portion whose first file is no PDF has none, and none that cannot be
\* signed.
LEMMA SoundIsValid ==
  ASSUME NEW portion \in Seq(File), NEW kind, Sound(portion, kind),
         portion[1].format # "pdf" \/ kind \in {"hash", "jws"}
  PROVE  AllValid(portion)
<1> SUFFICES ASSUME NEW i \in DOMAIN portion PROVE portion[i].valid
  BY DEF AllValid
<1>1. 1 \in DOMAIN portion
  BY LenProperties
<1>2. portion[i].format # "pdf"
  BY <1>1 DEF Sound
<1> QED BY <1>2 DEF Sound

\* Going on changes no plan, and only sound documents pass the last look.
LEMMA ProceedsKeeps ==
  ASSUME NEW j \in Job, NEW k \in Job, JobInv(j), WorkInv(j), Proceeds(j, k)
  PROVE  WorkInv(k)
<1>1. /\ k.request = j.request /\ k.left = j.left /\ k.todo = j.todo /\ k.out = j.out
      /\ j.stage # "idle" /\ j.todo # <<>>
  BY DEF Proceeds, SameWork, JobInv, Shaped
<1>2. CASE Sorting(j)
  <2>1. k.stage = "reading" /\ j.stage = "resolving"
    BY <1>2 DEF Sorting, Proceeds
  <2>2. HalfSorted(k, k.request.files)
    BY <1>1, <1>2 DEF WorkInv, HalfSorted
  <2> QED BY <1>1, <1>2, <2>1, <2>2 DEF WorkInv, Sorting
<1>3. CASE ~Sorting(j)
  <2>1. Planned(k, k.request.files) /\ ~Sorting(k) /\ k.stage \notin {"reading", "reloading"}
    <3>1. Planned(k, k.request.files)
      BY <1>1, <1>3 DEF WorkInv, Planned
    <3>2. k.stage \notin {"resolving", "reading", "reloading"}
      BY <1>1, <1>3 DEF Proceeds, Sorting, WorkInv
    <3> QED BY <3>1, <3>2 DEF Sorting
  <2>2. k.stage \in {"locking", "login", "finding", "signing"} => AllValid(Head(k.todo))
    <3>1. Sound(Head(j.todo), j.request.kind)
      BY <1>1, <1>3, FirstPortion DEF WorkInv, Planned
    <3>2. CASE Head(j.todo)[1].format # "pdf"
      BY <1>1, <3>1, <3>2, FirstPortion, SoundIsValid
    <3>3. CASE j.stage \in {"locking", "login", "finding", "signing"}
      BY <1>1, <3>3 DEF WorkInv
    <3> QED BY <1>1, <3>2, <3>3 DEF Proceeds
  <2>3. k.stage = "loggingOut" /\ ~k.failed => Head(k.todo) = <<>>
    BY <1>1 DEF Proceeds
  <2> QED BY <2>1, <2>2, <2>3 DEF WorkInv
<1> QED BY <1>2, <1>3

\* A signature is the next in the order.
LEMMA SignsKeeps ==
  ASSUME NEW j \in Job, NEW k \in Job, JobInv(j), WorkInv(j), Signs(j, k)
  PROVE  WorkInv(k)
<1> DEFINE files == j.request.files
           L == Len(j.todo)
           m == Len(j.out)
           a == Len(j.todo[1])
<1>1. /\ j.stage = "signing" /\ k.stage = "signing" /\ k.request = j.request
      /\ j.todo # <<>> /\ Head(j.todo) # <<>>
      /\ k.todo = <<Tail(Head(j.todo))>> \o Tail(j.todo)
  BY DEF Signs, JobInv, Shaped
<1>2. PICK s \in Signature : s.file = Head(Head(j.todo)) /\ k.out = Append(j.out, s)
  BY DEF Signs
<1>3. /\ L \in Nat \ {0} /\ DOMAIN j.todo = 1..L /\ Head(j.todo) = j.todo[1]
      /\ j.todo[1] \in Seq(File) /\ a \in Nat \ {0} /\ DOMAIN j.todo[1] = 1..a
      /\ m \in Nat /\ DOMAIN j.out = 1..m
  BY <1>1, FirstPortion, JobLists, LenProperties, EmptySeq
<1>4. /\ DOMAIN k.out = 1..(m + 1) /\ Len(k.out) = m + 1 /\ k.out[m + 1] = s
      /\ \A i \in 1..m : k.out[i] = j.out[i]
  BY <1>2, <1>3, JobLists, AppendProperties, LenProperties
<1> DEFINE rest == Tail(j.todo[1])
<1>5. /\ rest \in Seq(File) /\ Len(rest) = a - 1 /\ DOMAIN rest = 1..(a - 1)
      /\ \A i \in 1..(a - 1) : rest[i] = j.todo[1][i + 1]
      /\ Head(j.todo[1]) = j.todo[1][1]
  BY <1>1, <1>3, HeadTailProperties, LenProperties
<1>6. /\ Len(k.todo) = L /\ DOMAIN k.todo = 1..L /\ k.todo[1] = rest
      /\ \A i \in 2..L : k.todo[i] = j.todo[i]
  <2> DEFINE one == <<rest>>
             tail == Tail(j.todo)
  <2>1. /\ one \in Seq(Files) /\ Len(one) = 1 /\ one[1] = rest
    BY <1>5 DEF Files
  <2>2. /\ tail \in Seq(Files) /\ Len(tail) = L - 1
        /\ \A i \in 1..(L - 1) : tail[i] = j.todo[i + 1]
    BY <1>1, <1>3, JobLists, HeadTailProperties DEF Files
  <2>3. k.todo = one \o tail
    BY <1>1, <1>3
  <2> HIDE DEF one, tail, rest, L
  <2>4. /\ Len(k.todo) = Len(one) + Len(tail)
        /\ \A i \in 1..(Len(one) + Len(tail)) :
               k.todo[i] = IF i <= Len(one) THEN one[i] ELSE tail[i - Len(one)]
    <3>1. one \o tail \in Seq(Files) /\ Len(one \o tail) = Len(one) + Len(tail)
      BY <2>1, <2>2, ConcatProperties
    <3>2. \A i \in 1..(Len(one) + Len(tail)) :
             (one \o tail)[i] = IF i <= Len(one) THEN one[i] ELSE tail[i - Len(one)]
      BY <2>1, <2>2, ConcatProperties
    <3> QED BY ONLY <2>3, <3>1, <3>2
  <2>5. /\ 1 + (L - 1) = L /\ 1 \in 1..L /\ 1 <= 1
        /\ \A i \in 2..L : ~(i <= 1) /\ i - 1 \in 1..(L - 1) /\ (i - 1) + 1 = i /\ i \in 1..L
    BY <1>3
  <2>6. Len(k.todo) = L /\ \A i \in 1..L : k.todo[i] = IF i <= 1 THEN one[i] ELSE tail[i - 1]
    BY ONLY <2>1, <2>2, <2>4, <2>5
  <2>7. k.todo[1] = rest
    BY ONLY <2>1, <2>5, <2>6
  <2>8. \A i \in 2..L : k.todo[i] = j.todo[i]
    BY ONLY <2>2, <2>5, <2>6
  <2>9. DOMAIN k.todo = 1..Len(k.todo)
    BY JobLists, LenProperties
  <2> QED BY <2>6, <2>7, <2>8, <2>9
<1>7. PICK order : Order(files, order) /\ Follows(j.out, j.todo, files, order)
  BY <1>1 DEF WorkInv, Sorting, Planned
<1>8. \A i \in DOMAIN j.todo : Sound(j.todo[i], j.request.kind)
  BY <1>1 DEF WorkInv, Sorting, Planned
<1>f. Start(j.out, j.todo, 1) = m /\ \A n \in 1..a : j.todo[1][n] = files[order[m + n]]
  BY <1>3, <1>7 DEF Follows, Start
<1> HIDE DEF files, L, m, a, rest
<1>9. /\ Start(j.out, j.todo, 1) = m /\ Start(k.out, k.todo, 1) = m + 1
      /\ \A i \in 2..L : Start(k.out, k.todo, i) = Start(j.out, j.todo, i)
  <2>1. \A i \in 2..L : /\ ~(i = 1)
                       /\ (m + 1) + ((a - 1) + i - 2) = m + (a + i - 2)
    BY <1>3
  <2>2. /\ \A i \in 2..L : Start(j.out, j.todo, i) = m + (a + i - 2)
        /\ \A i \in 2..L : Start(k.out, k.todo, i) = (m + 1) + ((a - 1) + i - 2)
    BY <1>4, <1>5, <1>6, <2>1 DEF Start, m, a
  <2>3. Start(j.out, j.todo, 1) = m /\ Start(k.out, k.todo, 1) = m + 1
    BY <1>3, <1>4 DEF Start, m
  <2> QED BY <2>1, <2>2, <2>3
<1>10. ASSUME NEW i \in DOMAIN k.out
       PROVE  k.out[i].file = files[order[i]]
  <2>1. CASE i \in 1..m
    BY <1>3, <1>4, <1>7, <2>1 DEF Follows
  <2>2. CASE i = m + 1
    <3>1. j.todo[1][1] = files[order[m + 1]]
      BY <1>3, <1>f
    <3> QED BY <1>2, <1>3, <1>4, <1>5, <2>2, <3>1
  <2> QED BY <1>3, <1>4, <2>1, <2>2
<1>11. ASSUME NEW i \in DOMAIN k.todo, NEW n \in DOMAIN k.todo[i]
       PROVE  k.todo[i][n] = files[order[Start(k.out, k.todo, i) + n]]
  <2>1. CASE i = 1
    <3>0. n \in DOMAIN rest
      BY <1>6, <2>1
    <3>1. n \in 1..(a - 1) /\ n + 1 \in 1..a /\ m + (n + 1) = (m + 1) + n
      <4>1. n \in 1..(a - 1)
        BY <1>5, <3>0
      <4>2. a \in Nat /\ m \in Nat
        BY <1>3
      <4> QED BY ONLY <4>1, <4>2
    <3>2. k.todo[i][n] = j.todo[1][n + 1]
      BY <1>5, <1>6, <2>1, <3>1
    <3>3. j.todo[1][n + 1] = files[order[m + (n + 1)]]
      BY <1>f, <3>1
    <3> QED BY <1>9, <2>1, <3>1, <3>2, <3>3
  <2>2. CASE i # 1
    <3>1. i \in 2..L /\ k.todo[i] = j.todo[i] /\ i \in DOMAIN j.todo
      BY <1>3, <1>6, <2>2
    <3> QED BY <1>7, <1>9, <3>1 DEF Follows
  <2> QED BY <2>1, <2>2
<1>12. \A i \in DOMAIN k.todo : 1 < i /\ i < Len(k.todo) => Len(k.todo[i]) = 1
  BY <1>3, <1>6, <1>7 DEF Follows, L
<1>13. Start(k.out, k.todo, Len(k.todo)) + Len(k.todo[Len(k.todo)]) = Len(files)
  <2>1. Start(j.out, j.todo, L) + Len(j.todo[L]) = Len(files)
    BY <1>7 DEF Follows, L
  <2>2. CASE L = 1
    BY <1>3, <1>5, <1>6, <1>9, <2>1, <2>2 DEF a
  <2>3. CASE L \in 2..L
    BY <1>6, <1>9, <2>1, <2>3
  <2> QED BY <1>3, <2>2, <2>3
<1>14. Follows(k.out, k.todo, files, order)
  BY <1>10, <1>11, <1>12, <1>13 DEF Follows
<1>15. Sound(rest, j.request.kind)
  <2>1. Sound(j.todo[1], j.request.kind)
    BY <1>3, <1>8
  <2>2. \A i \in DOMAIN rest : i + 1 \in DOMAIN j.todo[1] /\ rest[i] = j.todo[1][i + 1]
    BY <1>3, <1>5
  <2> QED BY <2>1, <2>2 DEF Sound
<1>16. \A i \in DOMAIN k.todo : Sound(k.todo[i], k.request.kind)
  <2>1. \A i \in 1..L : i = 1 \/ i \in 2..L
    BY <1>3
  <2> QED BY <1>1, <1>3, <1>6, <1>8, <1>15, <2>1
<1>17. AllValid(Head(k.todo))
  <2>1. Head(k.todo) = rest
    BY <1>3, <1>6, JobLists
  <2>2. AllValid(j.todo[1])
    BY <1>1, <1>3 DEF WorkInv
  <2>3. \A i \in DOMAIN rest : i + 1 \in DOMAIN j.todo[1] /\ rest[i] = j.todo[1][i + 1]
    BY <1>3, <1>5
  <2> QED BY <2>1, <2>2, <2>3 DEF AllValid
<1>18. Planned(k, k.request.files)
  BY <1>1, <1>7, <1>14, <1>16 DEF Planned, files
<1> QED BY <1>1, <1>17, <1>18 DEF WorkInv, Sorting

\* The next portion goes on where the last one ended.
LEMMA ContinuesKeeps ==
  ASSUME NEW j \in Job, NEW k \in Job, JobInv(j), WorkInv(j), Continues(j, k)
  PROVE  WorkInv(k)
<1> DEFINE files == j.request.files
           L == Len(j.todo)
           m == Len(j.out)
<1>1. /\ j.stage = "loggingOut" /\ ~j.failed /\ L # 1 /\ k.request = j.request
      /\ k.out = j.out /\ k.todo = Tail(j.todo) /\ j.todo # <<>> /\ Head(j.todo) = <<>>
      /\ k.stage = IF j.request.kind \in {"hash", "jws"} THEN "locking" ELSE "looking"
  BY DEF Continues, JobInv, Shaped, WorkInv
<1>2. /\ L \in Nat /\ L >= 2 /\ DOMAIN j.todo = 1..L /\ Len(j.todo[1]) = 0 /\ m \in Nat
  <2>1. /\ L \in Nat \ {0} /\ DOMAIN j.todo = 1..L /\ Head(j.todo) = j.todo[1]
    BY <1>1, FirstPortion
  <2>2. L >= 2
    <3>1. L \in Nat \ {0} /\ L # 1
      BY <1>1, <2>1
    <3>2. \A n \in Nat \ {0} : n # 1 => n >= 2
      OBVIOUS
    <3> HIDE DEF L
    <3> QED BY ONLY <3>1, <3>2
  <2>3. j.todo[1] = <<>>
    BY ONLY <1>1, <2>1
  <2>4. Len(j.todo[1]) = 0
    BY ONLY <2>3
  <2>5. m \in Nat
    BY JobLists
  <2> QED BY <2>1, <2>2, <2>4, <2>5
<1>3. /\ Len(k.todo) = L - 1 /\ DOMAIN k.todo = 1..(L - 1)
      /\ \A i \in 1..(L - 1) : k.todo[i] = j.todo[i + 1]
  BY <1>1, <1>2, JobLists, HeadTailProperties, LenProperties
<1>4. PICK order : Order(files, order) /\ Follows(j.out, j.todo, files, order)
  BY <1>1 DEF WorkInv, Sorting, Planned
<1>5. \A i \in DOMAIN j.todo : Sound(j.todo[i], j.request.kind)
  BY <1>1 DEF WorkInv, Sorting, Planned
<1>6. /\ \A i \in DOMAIN j.todo : \A n \in DOMAIN j.todo[i] :
             j.todo[i][n] = files[order[Start(j.out, j.todo, i) + n]]
      /\ \A i \in 1..L : 1 < i /\ i < L => Len(j.todo[i]) = 1
      /\ Start(j.out, j.todo, L) + Len(j.todo[L]) = Len(files)
      /\ \A i \in DOMAIN k.out : k.out[i].file = files[order[i]]
  BY <1>1, <1>2, <1>4 DEF Follows
<1>7. \A i \in 1..(L - 1) : i + 1 \in 1..L /\ i + 1 > 1 /\ i \in Nat
  BY <1>2
<1>8. ASSUME NEW i \in 1..(L - 1)
      PROVE  Start(k.out, k.todo, i) = Start(j.out, j.todo, i + 1)
  <2>1. Start(j.out, j.todo, i + 1) = m + (0 + (i + 1) - 2)
    <3>1. ~(i + 1 = 1)
      BY <1>7
    <3>2. Start(j.out, j.todo, i + 1) = m + (Len(j.todo[1]) + (i + 1) - 2)
      BY ONLY <3>1 DEF Start, m
    <3> QED BY ONLY <1>2, <3>2
  <2>2. CASE i = 1
    <3>1. Start(k.out, k.todo, i) = m + 0
      BY <1>1, <2>2 DEF Start
    <3>2. m + 0 = m + (0 + (i + 1) - 2)
      BY <1>2, <2>2
    <3> QED BY <2>1, <3>1, <3>2
  <2>3. CASE i # 1
    <3>1. 2 \in 1..L /\ 1 < 2 /\ 2 < L /\ 1 \in 1..(L - 1) /\ 1 + 1 = 2
      BY <1>2, <2>3
    <3>2. Len(k.todo[1]) = 1
      BY <1>3, <1>6, <3>1
    <3>3. Start(k.out, k.todo, i) = m + (1 + i - 2)
      BY <1>1, <2>3, <3>2 DEF Start
    <3>4. m + (1 + i - 2) = m + (0 + (i + 1) - 2)
      BY <1>2
    <3> QED BY <2>1, <3>3, <3>4
  <2> QED BY <2>2, <2>3
<1> HIDE DEF files, L, m
<1>9. \A i \in DOMAIN k.todo : \A n \in DOMAIN k.todo[i] :
         k.todo[i][n] = files[order[Start(k.out, k.todo, i) + n]]
  <2> SUFFICES ASSUME NEW i \in 1..(L - 1), NEW n \in DOMAIN k.todo[i]
               PROVE  k.todo[i][n] = files[order[Start(k.out, k.todo, i) + n]]
    BY <1>3
  <2>1. i + 1 \in DOMAIN j.todo /\ k.todo[i] = j.todo[i + 1]
    BY <1>2, <1>3, <1>7
  <2>2. j.todo[i + 1][n] = files[order[Start(j.out, j.todo, i + 1) + n]]
    BY <1>6, <2>1
  <2> QED BY <1>8, <2>1, <2>2
<1>10. \A i \in DOMAIN k.todo : 1 < i /\ i < Len(k.todo) => Len(k.todo[i]) = 1
  <2>1. \A i \in 1..(L - 1) : 1 < i /\ i < L - 1 => 1 < i + 1 /\ i + 1 < L
    BY <1>2
  <2> QED BY <1>3, <1>6, <1>7, <2>1
<1>11. Start(k.out, k.todo, Len(k.todo)) + Len(k.todo[Len(k.todo)]) = Len(files)
  <2>1. L - 1 \in 1..(L - 1) /\ (L - 1) + 1 = L
    BY <1>2
  <2>2. Start(k.out, k.todo, L - 1) = Start(j.out, j.todo, L) /\ k.todo[L - 1] = j.todo[L]
    BY <1>3, <1>8, <2>1
  <2> QED BY <1>3, <1>6, <2>2
<1>12. Follows(k.out, k.todo, files, order)
  BY <1>6, <1>9, <1>10, <1>11 DEF Follows
<1>13. \A i \in DOMAIN k.todo : Sound(k.todo[i], k.request.kind)
  BY <1>1, <1>2, <1>3, <1>5, <1>7
<1>14. Planned(k, k.request.files)
  BY <1>1, <1>4, <1>12, <1>13 DEF Planned, files
<1>15. k.stage = "locking" => AllValid(Head(k.todo))
  <2>1. k.todo # <<>>
    BY <1>2, <1>3
  <2>2. Head(k.todo) \in Seq(File) /\ Sound(Head(k.todo), k.request.kind)
    BY <1>13, <2>1, FirstPortion
  <2> QED BY <1>1, <2>2, SoundIsValid
<1> QED BY <1>1, <1>14, <1>15 DEF WorkInv, Sorting

\* When nothing is left to sign every file has its answer.
LEMMA EndAnswers ==
  ASSUME NEW j \in Job, NEW k \in Job, JobInv(j), WorkInv(j), Ends(j, k), ~k.failed
  PROVE  Answers(j.out, j.request.files)
<1> DEFINE files == j.request.files
<1>1. /\ j.stage = "loggingOut" /\ Len(j.todo) = 1 /\ j.todo # <<>> /\ Head(j.todo) = <<>>
  BY DEF Ends, WorkInv, JobInv, Shaped
<1>2. PICK order : Order(files, order) /\ Follows(j.out, j.todo, files, order)
  BY <1>1 DEF WorkInv, Sorting, Planned
<1>3. Len(j.out) \in Nat /\ Len(files) \in Nat /\ Len(j.todo[1]) = 0
  BY <1>1, FirstPortion, JobLists
<1>4. Len(j.out) = Len(files)
  BY <1>1, <1>2, <1>3 DEF Follows, Start
<1>5. DOMAIN j.out = 1..Len(files) /\ DOMAIN files = 1..Len(files)
  BY <1>4, JobLists, LenProperties
<1>6. /\ order \in [DOMAIN j.out -> DOMAIN files]
      /\ \A i \in DOMAIN j.out : j.out[i].file = files[order[i]]
      /\ \A i, n \in DOMAIN j.out : i < n => Before(files, order[i], order[n])
      /\ \A n \in DOMAIN files : \E i \in DOMAIN j.out : order[i] = n
  <2> HIDE DEF files
  <2> QED BY <1>2, <1>5 DEF Order, Follows
<1> QED BY <1>6 DEF Answers

\* Whatever a job does it keeps to the plan.
LEMMA MovesKeep ==
  ASSUME NEW j \in Job, NEW k \in Job, JobInv(j), WorkInv(j), Moves(j, k)
  PROVE  WorkInv(k)
<1>1. CASE Ends(j, k)
  BY <1>1 DEF Ends, WorkInv
<1> QED
  BY <1>1, BeginsKeeps, ReadsKeeps, SplitsKeeps, ProceedsKeeps, SignsKeeps, ContinuesKeeps
     DEF Moves

\* The plan of every call is kept in every state.
LEMMA WorkIsPlanned == Spec => [](IInv /\ \A w \in Workers : WorkInv(job[w]))
<1> DEFINE Work == \A w \in Workers : WorkInv(job[w])
<1>1. Init => Work
  BY IdleType DEF Init, WorkInv
<1>2. IInv /\ IInv' /\ Work /\ [Next]_vars => Work'
  <2> SUFFICES ASSUME IInv, IInv', Work, [Next]_vars, NEW w \in Workers
               PROVE  WorkInv(job'[w])
    OBVIOUS
  <2>1. job[w] \in Job /\ job'[w] \in Job /\ JobInv(job[w])
    BY DEF IInv, TypeOK
  <2>2. Moves(job[w], job'[w])
    BY EveryMove
  <2> QED BY <2>1, <2>2, MovesKeep
<1> QED BY <1>1, <1>2, Invariance, PTL DEF Spec

\* Whoever logs in has only documents that can be signed to sign there: a broken
\* PDF of a session or a batch never costs an attempt at the PIN.
THEOREM SoundDocumentsOnly == Spec => []NoAttemptForInvalidDocuments
<1>1. IInv /\ (\A w \in Workers : WorkInv(job[w])) => NoAttemptForInvalidDocuments
  BY DEF WorkInv, NoAttemptForInvalidDocuments, Portion
<1> QED BY <1>1, WorkIsPlanned, PTL

\* A call that succeeds has answered all its files, in order: no portion, login
\* or error path loses, doubles or exchanges one.
THEOREM SuccessIsComplete == Spec => AnswersAreComplete
<1>1. ASSUME IInv, IInv', \A w \in Workers : WorkInv(job[w]), [Next]_vars,
             NEW w \in Workers,
             job[w].stage # "idle", job'[w].stage = "idle", ~job'[w].failed
      PROVE  Answers(job[w].out, job[w].request.files)
  <2>1. job[w] \in Job /\ job'[w] \in Job /\ JobInv(job[w])
    BY <1>1 DEF IInv, TypeOK
  <2>2. Moves(job[w], job'[w])
    BY <1>1, EveryMove
  <2>3. Ends(job[w], job'[w])
    BY <1>1, <2>2 DEF Moves, Begins, Reads, Splits, Proceeds, Signs, Continues
  <2> QED BY <1>1, <2>1, <2>3, EndAnswers
<1>2. ASSUME IInv, IInv', \A w \in Workers : WorkInv(job[w]), [Next]_vars
      PROVE  [\A w \in Workers :
                 job[w].stage # "idle" /\ job'[w].stage = "idle" /\ ~job'[w].failed =>
                     Answers(job[w].out, job[w].request.files)]_vars
  BY <1>1, <1>2
<1> QED BY <1>2, WorkIsPlanned, PTL DEF Spec, AnswersAreComplete
=============================================================================
