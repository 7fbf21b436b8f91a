------------------------ MODULE WorkerStartupProofs ------------------------
(***************************************************************************)
(* What a worker registers was verified and probed, for any number of      *)
(* processes on one cache, any downloads and any crashes.                  *)
(***************************************************************************)
EXTENDS WorkerStartup, TLAPS

(* Every file came into the cache by one write, and no two writes have the *)
(* same number.                                                            *)
FilesOK ==
  /\ cache \in MaybeFile /\ own \in MaybeFile /\ written \in Nat
  /\ cache # NoFile => cache.version <= written

StatesOK ==
  /\ lives \in 0..MaxLives
  /\ pc \in [Process -> Steps \cup Ended]
  /\ verified \in [Process -> MaybeFile] /\ loaded \in [Process -> MaybeFile]
  /\ force \in [Process -> BOOLEAN] /\ cancelled \in [Process -> BOOLEAN]
  /\ device \in [Process -> Devices]
  /\ target \in [Process -> Acceleration] /\ refused \in [Process -> SUBSET Acceleration]
  /\ listed \in [Process -> Acceleration \cup {"No"}]

(* The file at a path is the given one, or has replaced it in the cache.   *)
Since(p, file, v) == file = v \/ (p \notin Override /\ file # NoFile /\ file.version > v.version)

Probing == {"probing", "binding", "serving"}
Verified == {"reading metadata", "loading"} \cup Probing

(* A process past its resolution has verified what was at its path then;   *)
(* one past loading has loaded that file or a later one; one that is       *)
(* registered keeps both until it starts again.                            *)
VerifiedInv ==
  \A p \in Process :
    /\ verified[p] # NoFile => Good(verified[p]) /\ Since(p, Path(p), verified[p])
    /\ pc[p] \in Verified \/ listed[p] # "No" => verified[p] # NoFile
    /\ pc[p] \in Probing \/ listed[p] # "No" => Since(p, loaded[p], verified[p])

(* A target that is being tried has not been refused before, and is the    *)
(* one --device asks for, or the processor in place of a refused Metal.    *)
Chosen(p, t) ==
  /\ t \notin refused[p]
  /\ device[p] # "Auto" => t = device[p]
  /\ device[p] = "Auto" /\ p \in WithMetal /\ t = "Cpu" => "Metal" \in refused[p]

ProbedOf(p) ==
  /\ pc[p] \in {"inspecting", "hashing cached", "preflight", "downloading"} => p \notin Override
  /\ pc[p] \in Steps \ {"loading", "probing", "binding"} => refused[p] = {}
  /\ pc[p] = "loading" => Chosen(p, Target(p))
  /\ pc[p] \in Probing => Chosen(p, target[p])
  /\ listed[p] # "No" => Chosen(p, listed[p]) /\ pc[p] \in {"binding", "serving"} \cup Ended

ProbedInv == \A p \in Process : ProbedOf(p)

IInv == FilesOK /\ StatesOK /\ VerifiedInv /\ ProbedInv

-----------------------------------------------------------------------------

LEMMA InitInv == Init => IInv
<1> SUFFICES ASSUME Init PROVE IInv
  OBVIOUS
<1>1. \A file \in Found(0) : file \in MaybeFile /\ (file # NoFile => file.version = 0)
  BY DEF Found, MaybeFile, File
<1>2. FilesOK
  BY <1>1 DEF Init, FilesOK
<1>3. StatesOK
  BY StartupAssumption DEF Init, StatesOK, Ended, MaybeFile, Devices, Acceleration
<1>4. VerifiedInv
  BY DEF Init, VerifiedInv, Verified, Probing
<1>5. ProbedInv
  BY DEF Init, ProbedInv, ProbedOf, Steps, Probing
<1> QED  BY <1>2, <1>3, <1>4, <1>5 DEF IInv

(* Only a download changes a file, and it puts a newer one in place.       *)
LEMMA FilesStep ==
  ASSUME FilesOK, [Next]_vars
  PROVE  /\ FilesOK' /\ own' = own
         /\ \/ cache' = cache
            \/ cache' \in File /\ cache'.version = written + 1
               /\ UNCHANGED <<verified, loaded, listed, refused, target, device>>
<1>1. ASSUME NEW p \in Process, Download(p)
      PROVE  FilesOK' /\ own' = own /\ cache' \in File /\ cache'.version = written + 1
             /\ UNCHANGED <<verified, loaded, listed, refused, target, device>>
  BY <1>1 DEF Download, FilesOK, File, MaybeFile, resolveVars, modelVars
<1>2. ASSUME UNCHANGED fileVars PROVE FilesOK' /\ own' = own /\ cache' = cache
  BY <1>2 DEF fileVars, FilesOK
<1>3. ASSUME NEW p \in Process, ~Download(p),
             Start(p) \/ Crash(p) \/ Cancel(p) \/ Local(p) \/ Network(p) \/ Startup(p)
      PROVE  UNCHANGED fileVars
  BY <1>3 DEF Start, Crash, Cancel, Local, Network, Startup, FileOthers, CheckCancelled, InspectCache,
     HashCached, PreflightDiskSpace, NoticeCancelled, VerifyFile, FindDownloaded, DownloadFails,
     ReadMetadata, Load, ProbeFails, SmokeTest, Register, Bind
<1> QED  BY <1>1, <1>2, <1>3 DEF Next, vars

LEMMA OneMoreLife ==
  ASSUME NEW n \in 0..MaxLives, n < MaxLives
  PROVE  n + 1 \in 0..MaxLives
<1>1. MaxLives \in Nat
  BY StartupAssumption
<1> QED  BY <1>1

LEMMA Updated ==
  ASSUME NEW S, NEW T, NEW f \in [S -> T], NEW x, NEW v \in T
  PROVE  [f EXCEPT ![x] = v] \in [S -> T]
OBVIOUS

(* The types.                                                              *)
LEMMA StatesStep ==
  ASSUME FilesOK, StatesOK, [Next]_vars
  PROVE  StatesOK'
<1>t. /\ lives \in 0..MaxLives
      /\ pc \in [Process -> Steps \cup Ended]
      /\ verified \in [Process -> MaybeFile] /\ loaded \in [Process -> MaybeFile]
      /\ force \in [Process -> BOOLEAN] /\ cancelled \in [Process -> BOOLEAN]
      /\ device \in [Process -> Devices]
      /\ target \in [Process -> Acceleration] /\ refused \in [Process -> SUBSET Acceleration]
      /\ listed \in [Process -> Acceleration \cup {"No"}]
  BY DEF StatesOK
<1>f. NoFile \in MaybeFile /\ cache \in MaybeFile /\ \A p \in Process : Path(p) \in MaybeFile
  BY DEF FilesOK, MaybeFile, Path
<1>1. ASSUME NEW p \in Process, Start(p) PROVE StatesOK'
  <2>1. PICK d \in Devices \cup {device[p]} : device' = [device EXCEPT ![p] = d]
    BY <1>1 DEF Start
  <2>2. d \in Devices
    BY <1>t, <2>1
  <2>3. lives' \in 0..MaxLives
    BY <1>1, <1>t, OneMoreLife DEF Start
  <2>4. device' \in [Process -> Devices]
    BY <1>t, <2>1, <2>2, Updated
  <2>5. "checking" \in Steps \cup Ended /\ pc' = [pc EXCEPT ![p] = "checking"]
    BY <1>1 DEF Start, Steps
  <2>6. pc' \in [Process -> Steps \cup Ended]
    BY <1>t, <2>5, Updated
  <2>7. refused' \in [Process -> SUBSET Acceleration]
    <3>1. {} \in SUBSET Acceleration /\ refused' = [refused EXCEPT ![p] = {}]
      BY <1>1 DEF Start
    <3> QED  BY <1>t, <3>1, Updated
  <2>8. listed' \in [Process -> Acceleration \cup {"No"}]
    <3>1. listed' = [listed EXCEPT ![p] = "No"]
      BY <1>1 DEF Start
    <3> QED  BY <1>t, <3>1, Updated
  <2>9. verified' \in [Process -> MaybeFile] /\ loaded' \in [Process -> MaybeFile]
    <3>1. verified' = [verified EXCEPT ![p] = NoFile] /\ loaded' = [loaded EXCEPT ![p] = NoFile]
      BY <1>1 DEF Start
    <3> QED  BY <1>t, <1>f, <3>1, Updated
  <2>10. force' \in [Process -> BOOLEAN] /\ cancelled' \in [Process -> BOOLEAN]
    <3>1. force' = [force EXCEPT ![p] = FALSE] /\ cancelled' = [cancelled EXCEPT ![p] = FALSE]
      BY <1>1 DEF Start
    <3> QED  BY <1>t, <3>1, Updated
  <2>11. target' \in [Process -> Acceleration]
    BY <1>1, <1>t DEF Start
  <2> QED  BY <2>3, <2>4, <2>6, <2>7, <2>8, <2>9, <2>10, <2>11 DEF StatesOK
<1>2. ASSUME NEW p \in Process, Crash(p) \/ Cancel(p) PROVE StatesOK'
  <2>1. UNCHANGED <<lives, verified, force, device, loaded, target, refused, listed>>
    BY <1>2 DEF Crash, Cancel, resolveVars, modelVars
  <2>2. pc' \in [Process -> Steps \cup Ended]
    <3>1. "off" \in Steps \cup Ended /\ (pc' = pc \/ pc' = [pc EXCEPT ![p] = "off"])
      BY <1>2 DEF Crash, Cancel, Ended
    <3> QED  BY <1>t, <3>1, Updated
  <2>3. cancelled' \in [Process -> BOOLEAN]
    <3>1. cancelled' = cancelled \/ cancelled' = [cancelled EXCEPT ![p] = TRUE]
      BY <1>2 DEF Crash, Cancel, resolveVars
    <3> QED  BY <1>t, <3>1, Updated
  <2> QED  BY <1>t, <2>1, <2>2, <2>3 DEF StatesOK
<1>3. ASSUME NEW p \in Process, Local(p) PROVE StatesOK'
  <2>1. UNCHANGED <<lives, cancelled, device, loaded, target, refused, listed>>
    BY <1>3 DEF Local, CheckCancelled, InspectCache, HashCached, PreflightDiskSpace, NoticeCancelled,
       VerifyFile, FileOthers, resolveVars, modelVars
  <2>2. pc' \in [Process -> Steps \cup Ended]
    <3>1. \E to \in Steps \cup Ended : pc' = [pc EXCEPT ![p] = to]
      BY <1>3 DEF Local, CheckCancelled, InspectCache, HashCached, PreflightDiskSpace, NoticeCancelled,
         VerifyFile, Goto, Resolved, Steps, Ended
    <3> QED  BY <1>t, <3>1, Updated
  <2>3. verified' \in [Process -> MaybeFile]
    <3>1. verified' = verified \/ (\E file \in {cache, Path(p)} : verified' = [verified EXCEPT ![p] = file])
      BY <1>3 DEF Local, CheckCancelled, InspectCache, HashCached, PreflightDiskSpace, NoticeCancelled,
         VerifyFile, resolveVars
    <3> QED  BY <1>t, <1>f, <3>1, Updated
  <2>4. force' \in [Process -> BOOLEAN]
    <3>1. force' = force \/ force' = [force EXCEPT ![p] = TRUE]
      BY <1>3 DEF Local, CheckCancelled, InspectCache, HashCached, PreflightDiskSpace, NoticeCancelled,
         VerifyFile, resolveVars
    <3> QED  BY <1>t, <3>1, Updated
  <2> QED  BY <1>t, <2>1, <2>2, <2>3, <2>4 DEF StatesOK
<1>4. ASSUME NEW p \in Process, Network(p) PROVE StatesOK'
  <2>1. UNCHANGED <<lives, verified, force, cancelled, device, loaded, target, refused, listed>>
    BY <1>4 DEF Network, FindDownloaded, Download, DownloadFails, FileOthers, resolveVars, modelVars
  <2>2. \E to \in Steps \cup Ended : pc' = [pc EXCEPT ![p] = to]
    BY <1>4 DEF Network, FindDownloaded, Download, DownloadFails, Goto, Steps, Ended
  <2>3. pc' \in [Process -> Steps \cup Ended]
    BY <1>t, <2>2, Updated
  <2> QED  BY <1>t, <2>1, <2>3 DEF StatesOK
<1>5. ASSUME NEW p \in Process, Startup(p) PROVE StatesOK'
  <2>1. UNCHANGED <<lives, verified, force, cancelled, device>>
    BY <1>5 DEF Startup, ReadMetadata, Load, ProbeFails, SmokeTest, Register, Bind, FileOthers,
       resolveVars, modelVars
  <2>2. pc' \in [Process -> Steps \cup Ended]
    <3>1. pc' = pc \/ \E to \in Steps \cup Ended : pc' = [pc EXCEPT ![p] = to]
      BY <1>5 DEF Startup, ReadMetadata, Load, ProbeFails, SmokeTest, Register, Bind, Goto, Steps, Ended
    <3> QED  BY <1>t, <3>1, Updated
  <2>3. Target(p) \in Acceleration
    BY DEF Target, FirstTarget, Acceleration
  <2>4. loaded' \in [Process -> MaybeFile]
    <3>1. loaded' = loaded \/ loaded' = [loaded EXCEPT ![p] = Path(p)]
      BY <1>5 DEF Startup, ReadMetadata, Load, ProbeFails, SmokeTest, Register, Bind, FileOthers, modelVars
    <3> QED  BY <1>t, <1>f, <3>1, Updated
  <2>5. target' \in [Process -> Acceleration]
    <3>1. target' = target \/ target' = [target EXCEPT ![p] = Target(p)]
      BY <1>5 DEF Startup, ReadMetadata, Load, ProbeFails, SmokeTest, Register, Bind, FileOthers, modelVars
    <3> QED  BY <1>t, <2>3, <3>1, Updated
  <2>6. refused' \in [Process -> SUBSET Acceleration]
    <3>1. refused' = refused \/ refused' = [refused EXCEPT ![p] = refused[p] \cup {Target(p)}]
      BY <1>5 DEF Startup, ReadMetadata, Load, ProbeFails, SmokeTest, Register, Bind, FileOthers, modelVars
    <3>2. refused[p] \cup {Target(p)} \in SUBSET Acceleration
      BY <1>t, <2>3
    <3> QED  BY <1>t, <3>1, <3>2, Updated
  <2>7. listed' \in [Process -> Acceleration \cup {"No"}]
    <3>1. listed' = listed \/ listed' = [listed EXCEPT ![p] = target[p]]
      BY <1>5 DEF Startup, ReadMetadata, Load, ProbeFails, SmokeTest, Register, Bind, FileOthers, modelVars
    <3>2. target[p] \in Acceleration \cup {"No"}
      BY <1>t
    <3> QED  BY <1>t, <3>1, <3>2, Updated
  <2> QED  BY <1>t, <2>1, <2>2, <2>4, <2>5, <2>6, <2>7 DEF StatesOK
<1>6. CASE UNCHANGED vars
  BY <1>t, <1>6 DEF StatesOK, vars, resolveVars, modelVars
<1> QED  BY <1>1, <1>2, <1>3, <1>4, <1>5, <1>6 DEF Next

(* What a process has verified stays at its path, or something later does. *)
LEMMA VerifiedStep ==
  ASSUME FilesOK, StatesOK, VerifiedInv, ProbedInv, [Next]_vars
  PROVE  VerifiedInv'
<1> USE DEF VerifiedInv
<1>f. /\ own' = own
      /\ \/ cache' = cache
         \/ cache' \in File /\ cache'.version = written + 1
            /\ UNCHANGED <<verified, loaded, listed>>
  BY FilesStep
<1>m. ASSUME NEW q \in Process, verified[q] # NoFile
      PROVE  Since(q, Path(q)', verified[q])
  <2>1. Since(q, Path(q), verified[q]) /\ verified[q] \in File
    BY <1>m DEF StatesOK, MaybeFile
  <2>2. CASE q \in Override \/ cache' = cache
    BY <1>f, <2>1, <2>2 DEF Path
  <2>3. CASE q \notin Override /\ cache' \in File /\ cache'.version = written + 1
    <3>1. cache # NoFile /\ (cache = verified[q] \/ cache.version > verified[q].version)
      BY <1>m, <2>1, <2>3 DEF Since, Path
    <3>2. verified[q].version \in Nat /\ cache.version \in Nat /\ cache.version <= written
          /\ written \in Nat
      BY <2>1, <3>1 DEF FilesOK, MaybeFile, File
    <3>3. cache'.version > verified[q].version
      BY <2>3, <3>1, <3>2
    <3>4. cache' # NoFile /\ Path(q)' = cache'
      BY <2>3, StartupAssumption DEF File, Path
    <3> QED  BY <2>3, <3>3, <3>4 DEF Since
  <2> QED  BY <1>f, <2>2, <2>3
<1>k. ASSUME UNCHANGED <<verified, loaded, listed>>,
             \A q \in Process : pc'[q] \in Verified => pc[q] \in Verified,
             \A q \in Process : pc'[q] \in Probing => pc[q] \in Probing
      PROVE  VerifiedInv'
  BY <1>k, <1>m
<1>1. ASSUME NEW p \in Process, Start(p) PROVE VerifiedInv'
  <2>1. \A q \in Process \ {p} : /\ verified'[q] = verified[q] /\ loaded'[q] = loaded[q]
                                 /\ listed'[q] = listed[q] /\ pc'[q] = pc[q]
    BY <1>1 DEF Start, StatesOK
  <2>2. verified'[p] = NoFile /\ listed'[p] = "No" /\ pc'[p] = "checking"
    BY <1>1 DEF Start, StatesOK
  <2> QED  BY <1>m, <2>1, <2>2 DEF Verified, Probing
<1>2. ASSUME NEW p \in Process, Crash(p) \/ Cancel(p) PROVE VerifiedInv'
  BY <1>2, <1>k DEF Crash, Cancel, StatesOK, modelVars, resolveVars, Verified, Probing
<1>3. ASSUME NEW p \in Process, NEW file, Good(file), file = Path(p),
             verified' = [verified EXCEPT ![p] = file], UNCHANGED <<cache, loaded, listed>>,
             pc[p] \in {"hashing cached", "verifying"}, pc' = [pc EXCEPT ![p] = Resolved(p)]
      PROVE  VerifiedInv'
  <2>1. \A q \in Process \ {p} : verified'[q] = verified[q] /\ pc'[q] = pc[q]
    BY <1>3 DEF StatesOK
  <2>2. verified'[p] = file /\ pc'[p] \notin Probing /\ file # NoFile
    BY <1>3 DEF StatesOK, Probing, Resolved, Good
  <2>3. Since(p, Path(p)', file)
    BY <1>3, <1>f DEF Since, Path
  <2>4. listed'[p] = "No"
    BY <1>3 DEF ProbedInv, ProbedOf, Ended
  <2> QED  BY <1>3, <1>m, <2>1, <2>2, <2>3, <2>4
<1>4. ASSUME NEW p \in Process, Local(p) PROVE VerifiedInv'
  <2>1. CASE HashCached(p) /\ Good(cache)
    <3>1. p \notin Override
      BY <2>1 DEF HashCached, Goto, ProbedInv, ProbedOf
    <3>2. Path(p) = cache
      BY <3>1 DEF Path
    <3> QED  BY <1>3, <2>1, <3>2 DEF HashCached, Goto, FileOthers, fileVars, modelVars
  <2>2. CASE VerifyFile(p) /\ Good(Path(p))
    BY <1>3, <2>2 DEF VerifyFile, Goto, FileOthers, fileVars, modelVars
  <2>3. CASE /\ ~(HashCached(p) /\ Good(cache)) /\ ~(VerifyFile(p) /\ Good(Path(p)))
    <3>1. UNCHANGED <<verified, loaded, listed>>
      BY <1>4, <2>3 DEF Local, CheckCancelled, InspectCache, HashCached, PreflightDiskSpace,
         NoticeCancelled, VerifyFile, FileOthers, resolveVars, modelVars
    <3>2. \E to \in {"cancelled", "verifying", "inspecting", "preflight", "hashing cached", "failed",
                     "downloading"} : pc' = [pc EXCEPT ![p] = to]
      BY <1>4, <2>3 DEF Local, CheckCancelled, InspectCache, HashCached, PreflightDiskSpace,
         NoticeCancelled, VerifyFile, Goto
    <3> QED  BY <1>k, <3>1, <3>2 DEF StatesOK, Verified, Probing
  <2> QED  BY <2>1, <2>2, <2>3
<1>5. ASSUME NEW p \in Process, Network(p) PROVE VerifiedInv'
  BY <1>5, <1>k DEF Network, FindDownloaded, Download, DownloadFails, Goto, FileOthers, resolveVars,
     modelVars, StatesOK, Verified, Probing
<1>6. ASSUME NEW p \in Process, Startup(p) PROVE VerifiedInv'
  <2>1. CASE ReadMetadata(p) \/ SmokeTest(p) \/ Bind(p)
    BY <2>1, <1>k DEF ReadMetadata, SmokeTest, Bind, Goto, FileOthers, resolveVars, modelVars,
       StatesOK, Verified, Probing
  <2>2. CASE ProbeFails(p)
    <3>1. \A q \in Process \ {p} : pc'[q] = pc[q] /\ loaded'[q] = loaded[q]
      BY <2>2 DEF ProbeFails, StatesOK
    <3>2. pc[p] \in Verified /\ pc'[p] \in {"loading", "failed"} /\ UNCHANGED <<verified, loaded, listed>>
      BY <2>2 DEF ProbeFails, StatesOK, Verified, Probing, resolveVars
    <3> QED  BY <1>k, <3>1, <3>2 DEF Probing
  <2>3. CASE Load(p)
    <3>1. \A q \in Process \ {p} : pc'[q] = pc[q] /\ loaded'[q] = loaded[q]
      BY <2>3 DEF Load, Goto, StatesOK
    <3>2. pc[p] = "loading" /\ loaded'[p] = Path(p) /\ UNCHANGED <<verified, listed>>
      BY <2>3 DEF Load, Goto, StatesOK, resolveVars
    <3>3. verified[p] # NoFile
      BY <3>2 DEF Verified
    <3> QED  BY <1>m, <3>1, <3>2, <3>3
  <2>4. CASE Register(p)
    <3>1. UNCHANGED <<pc, verified, loaded>> /\ \A q \in Process \ {p} : listed'[q] = listed[q]
      BY <2>4 DEF Register, StatesOK, resolveVars
    <3>2. pc[p] \in Probing
      BY <2>4 DEF Register, Probing
    <3>3. verified[p] # NoFile /\ Since(p, loaded[p], verified[p])
      BY <3>2 DEF Verified
    <3> QED  BY <1>m, <3>1, <3>3
  <2> QED  BY <1>6, <2>1, <2>2, <2>3, <2>4 DEF Startup
<1>7. CASE UNCHANGED vars
  BY <1>7, <1>k DEF vars, resolveVars, modelVars
<1> QED  BY <1>1, <1>2, <1>4, <1>5, <1>6, <1>7 DEF Next

(* A process is not concerned by the steps of the others.                  *)
LEMMA ProbedOthers ==
  ASSUME ProbedInv, NEW p \in Process, ProbedOf(p)',
         \A q \in Process \ {p} :
           /\ pc'[q] = pc[q] /\ device'[q] = device[q] /\ target'[q] = target[q]
           /\ refused'[q] = refused[q] /\ listed'[q] = listed[q]
  PROVE  ProbedInv'
<1>1. ASSUME NEW q \in Process \ {p} PROVE ProbedOf(q)'
  <2>1. /\ pc'[q] = pc[q] /\ device'[q] = device[q] /\ target'[q] = target[q]
        /\ refused'[q] = refused[q] /\ listed'[q] = listed[q] /\ ProbedOf(q)
    BY DEF ProbedInv
  <2>2. Target(q)' = Target(q)
    BY <2>1 DEF Target, FirstTarget
  <2>4. Chosen(q, Target(q))' <=> Chosen(q, Target(q))
    BY <2>1, <2>2 DEF Chosen
  <2>5. Chosen(q, target[q])' <=> Chosen(q, target[q])
    BY <2>1 DEF Chosen
  <2>6. Chosen(q, listed[q])' <=> Chosen(q, listed[q])
    BY <2>1 DEF Chosen
  <2> QED  BY <2>1, <2>4, <2>5, <2>6 DEF ProbedOf
<1> QED  BY <1>1 DEF ProbedInv

(* A step that only moves a process on, to where nothing new is tried.     *)
LEMMA ProbedMove ==
  ASSUME StatesOK, ProbedInv, NEW p \in Process, NEW from, NEW to,
         pc[p] = from, pc' = [pc EXCEPT ![p] = to], UNCHANGED <<device, target, refused, listed>>,
         \/ to \in Ended \ {"serving"}
         \/ /\ to \in {"inspecting", "hashing cached", "preflight", "downloading", "verifying",
                       "reading metadata"}
            /\ from \in {"checking", "inspecting", "hashing cached", "preflight", "downloading",
                         "verifying"}
            /\ to \notin {"verifying", "reading metadata"} => p \notin Override
         \/ from = "reading metadata" /\ to = "loading"
         \/ from = "probing" /\ to = "binding"
         \/ from = "binding" /\ to = "serving"
  PROVE  ProbedInv'
<1>1. /\ pc'[p] = to /\ \A q \in Process \ {p} : pc'[q] = pc[q]
      /\ pc[p] \in Steps \cup Ended /\ device[p] \in Devices
  BY DEF StatesOK
<1>2. /\ device'[p] = device[p] /\ target'[p] = target[p] /\ refused'[p] = refused[p]
      /\ listed'[p] = listed[p] /\ ProbedOf(p)
  BY DEF ProbedInv
<1>3. refused[p] = {} => Chosen(p, Target(p))
  BY <1>1 DEF Chosen, Target, FirstTarget, Devices
<1>4. Target(p)' = Target(p)
  BY <1>2 DEF Target, FirstTarget
<1>5. /\ Chosen(p, Target(p))' <=> Chosen(p, Target(p))
      /\ Chosen(p, target[p])' <=> Chosen(p, target[p])
      /\ Chosen(p, listed[p])' <=> Chosen(p, listed[p])
  BY <1>2, <1>4 DEF Chosen
<1>6. ProbedOf(p)'
  <2>1. CASE to \in Ended \ {"serving"}
    BY <1>1, <1>2, <1>5, <2>1 DEF ProbedOf, Steps, Ended, Probing
  <2>2. CASE /\ to \in {"inspecting", "hashing cached", "preflight", "downloading", "verifying",
                        "reading metadata"}
             /\ from \in {"checking", "inspecting", "hashing cached", "preflight", "downloading",
                          "verifying"}
             /\ to \notin {"verifying", "reading metadata"} => p \notin Override
    BY <1>1, <1>2, <1>5, <2>2 DEF ProbedOf, Steps, Ended, Probing
  <2>3. CASE from = "reading metadata" /\ to = "loading"
    BY <1>1, <1>2, <1>3, <1>5, <2>3 DEF ProbedOf, Steps, Ended, Probing
  <2>4. CASE from = "probing" /\ to = "binding"
    BY <1>1, <1>2, <1>5, <2>4 DEF ProbedOf, Steps, Ended, Probing
  <2>5. CASE from = "binding" /\ to = "serving"
    BY <1>1, <1>2, <1>5, <2>5 DEF ProbedOf, Steps, Ended, Probing
  <2> QED  BY <2>1, <2>2, <2>3, <2>4, <2>5
<1> QED  BY <1>1, <1>6, ProbedOthers

(* What is being tried was not refused before.                             *)
LEMMA ProbedStep ==
  ASSUME StatesOK, ProbedInv, [Next]_vars
  PROVE  ProbedInv'
<1>1. ASSUME NEW p \in Process, Start(p) PROVE ProbedInv'
  <2>1. \A q \in Process \ {p} :
          /\ pc'[q] = pc[q] /\ device'[q] = device[q] /\ target'[q] = target[q]
          /\ refused'[q] = refused[q] /\ listed'[q] = listed[q]
    BY <1>1 DEF Start, StatesOK
  <2>2. pc'[p] = "checking" /\ refused'[p] = {} /\ listed'[p] = "No"
    BY <1>1 DEF Start, StatesOK
  <2>3. ProbedOf(p)'
    BY <2>2 DEF ProbedOf, Probing
  <2> QED  BY <2>1, <2>3, ProbedOthers
<1>2. ASSUME NEW p \in Process, Crash(p) PROVE ProbedInv'
  <2>1. pc' = [pc EXCEPT ![p] = "off"] /\ UNCHANGED <<device, target, refused, listed>>
    BY <1>2 DEF Crash, modelVars
  <2> QED  BY <2>1, ProbedMove DEF Ended
<1>3. ASSUME NEW p \in Process, Cancel(p) PROVE ProbedInv'
  <2>1. UNCHANGED <<pc, device, target, refused, listed>>
    BY <1>3 DEF Cancel, modelVars
  <2> QED  BY <2>1 DEF ProbedInv, ProbedOf, Chosen, Target, FirstTarget
<1>4. ASSUME NEW p \in Process, Local(p) \/ Network(p) PROVE ProbedInv'
  <2>1. UNCHANGED <<device, target, refused, listed>>
    BY <1>4 DEF Local, Network, CheckCancelled, InspectCache, HashCached, PreflightDiskSpace,
       NoticeCancelled, VerifyFile, FindDownloaded, Download, DownloadFails, FileOthers, modelVars
  <2>2. /\ pc[p] \in {"inspecting", "hashing cached", "preflight", "downloading"} => p \notin Override
        /\ pc[p] \in Steps \cup Ended
    BY DEF ProbedInv, ProbedOf, StatesOK
  <2>3. PICK to : /\ pc' = [pc EXCEPT ![p] = to]
                  /\ \/ to \in Ended \ {"serving"}
                     \/ /\ to \in {"inspecting", "hashing cached", "preflight", "downloading",
                                   "verifying", "reading metadata"}
                        /\ pc[p] \in {"checking", "inspecting", "hashing cached", "preflight",
                                      "downloading", "verifying"}
                        /\ to \notin {"verifying", "reading metadata"} => p \notin Override
    <3>1. CASE CheckCancelled(p)
      <4>1. pc[p] = "checking" /\ "cancelled" \in Ended \ {"serving"}
        BY <3>1 DEF CheckCancelled, Goto, Ended
      <4>2. CASE cancelled[p]
        <5>1. pc' = [pc EXCEPT ![p] = "cancelled"]
          BY <3>1, <4>2 DEF CheckCancelled, Goto
        <5> QED  BY <4>1, <5>1
      <4>3. CASE ~cancelled[p] /\ p \in Override
        <5>1. pc' = [pc EXCEPT ![p] = "verifying"]
          BY <3>1, <4>3 DEF CheckCancelled, Goto
        <5> QED  BY <4>1, <5>1
      <4>4. CASE ~cancelled[p] /\ p \notin Override
        <5>1. pc' = [pc EXCEPT ![p] = "inspecting"]
          BY <3>1, <4>4 DEF CheckCancelled, Goto
        <5> QED  BY <4>1, <4>4, <5>1
      <4> QED  BY <4>2, <4>3, <4>4
    <3>2. CASE InspectCache(p)
      BY <2>2, <3>2 DEF InspectCache, Goto, Ended
    <3>3. CASE HashCached(p)
      BY <2>2, <3>3 DEF HashCached, Goto, Ended, Resolved
    <3>4. CASE PreflightDiskSpace(p)
      BY <2>2, <3>4 DEF PreflightDiskSpace, Goto, Ended
    <3>5. CASE NoticeCancelled(p)
      <4>1. pc' = [pc EXCEPT ![p] = "cancelled"] /\ "cancelled" \in Ended \ {"serving"}
        BY <3>5 DEF NoticeCancelled, Ended
      <4> QED  BY <4>1
    <3>6. CASE VerifyFile(p)
      BY <3>6 DEF VerifyFile, Goto, Ended, Resolved
    <3>7. CASE Network(p)
      BY <3>7 DEF Network, FindDownloaded, Download, DownloadFails, Goto, Ended
    <3> QED  BY <1>4, <3>1, <3>2, <3>3, <3>4, <3>5, <3>6, <3>7 DEF Local
  <2> QED  BY <2>1, <2>3, ProbedMove
<1>5. ASSUME NEW p \in Process, ReadMetadata(p) \/ SmokeTest(p) \/ Bind(p) PROVE ProbedInv'
  <2>1. UNCHANGED <<device, target, refused, listed>>
    BY <1>5 DEF ReadMetadata, SmokeTest, Bind, FileOthers, modelVars
  <2>2. PICK to : /\ pc' = [pc EXCEPT ![p] = to]
                  /\ \/ to = "failed"
                     \/ pc[p] = "reading metadata" /\ to = "loading"
                     \/ pc[p] = "probing" /\ to = "binding"
                     \/ pc[p] = "binding" /\ to = "serving"
    BY <1>5 DEF ReadMetadata, SmokeTest, Bind, Goto
  <2> QED  BY <2>1, <2>2, ProbedMove DEF Ended
<1>6. ASSUME NEW p \in Process, Load(p) PROVE ProbedInv'
  <2>1. \A q \in Process \ {p} : pc'[q] = pc[q] /\ target'[q] = target[q]
    BY <1>6 DEF Load, Goto, StatesOK
  <2>2. pc[p] = "loading" /\ pc'[p] = "probing" /\ target'[p] = Target(p)
        /\ UNCHANGED <<device, refused, listed>>
    BY <1>6 DEF Load, Goto, StatesOK
  <2>3. Chosen(p, Target(p)) /\ listed[p] = "No"
    BY <2>2 DEF ProbedInv, ProbedOf, Ended
  <2>4. Chosen(p, target[p])'
    BY <2>2, <2>3 DEF Chosen
  <2>5. ProbedOf(p)'
    BY <2>2, <2>3, <2>4 DEF ProbedOf
  <2> QED  BY <2>1, <2>2, <2>5, ProbedOthers
<1>7. ASSUME NEW p \in Process, ProbeFails(p) PROVE ProbedInv'
  <2>1. \A q \in Process \ {p} : pc'[q] = pc[q] /\ refused'[q] = refused[q]
    BY <1>7 DEF ProbeFails, StatesOK
  <2>2. /\ pc[p] \in {"loading", "probing"} /\ UNCHANGED <<device, target, listed>>
        /\ refused'[p] = refused[p] \cup {Target(p)}
        /\ pc'[p] = IF FallsBack(p) THEN "loading" ELSE "failed"
    BY <1>7 DEF ProbeFails, StatesOK
  <2>3. listed[p] = "No" /\ listed'[p] = "No"
    BY <2>2 DEF ProbedInv, ProbedOf, Ended
  <2>4. CASE ~FallsBack(p)
    <3>1. ProbedOf(p)'
      BY <2>2, <2>3, <2>4 DEF ProbedOf, Probing, Steps
    <3> QED  BY <2>1, <2>2, <3>1, ProbedOthers
  <2>5. CASE FallsBack(p)
    <3>1. refused[p] = {} /\ device[p] = "Auto"
      BY <2>5 DEF FallsBack, Target
    <3>2. refused'[p] = {"Metal"} /\ Target(p)' = "Cpu"
      BY <2>2, <2>5, <3>1 DEF FallsBack, Target
    <3>3. Chosen(p, Target(p))'
      BY <2>2, <3>1, <3>2 DEF Chosen
    <3>4. ProbedOf(p)'
      BY <2>2, <2>3, <2>5, <3>3 DEF ProbedOf, Probing, Steps
    <3> QED  BY <2>1, <2>2, <3>4, ProbedOthers
  <2> QED  BY <2>4, <2>5
<1>8. ASSUME NEW p \in Process, Register(p) PROVE ProbedInv'
  <2>1. \A q \in Process \ {p} : listed'[q] = listed[q]
    BY <1>8 DEF Register, StatesOK
  <2>2. /\ pc[p] \in {"binding", "serving"} /\ listed'[p] = target[p]
        /\ UNCHANGED <<pc, device, target, refused>>
    BY <1>8 DEF Register, StatesOK
  <2>3. Chosen(p, target[p])
    BY <2>2 DEF ProbedInv, ProbedOf, Probing
  <2>4. Chosen(p, target[p])' /\ Chosen(p, listed[p])'
    BY <2>2, <2>3 DEF Chosen
  <2>5. ProbedOf(p)'
    BY <2>2, <2>4 DEF ProbedInv, ProbedOf, Probing, Steps
  <2> QED  BY <2>1, <2>2, <2>5, ProbedOthers
<1>9. CASE UNCHANGED vars
  BY <1>9 DEF vars, modelVars, ProbedInv, ProbedOf, Chosen, Target, FirstTarget
<1> QED
  BY <1>1, <1>2, <1>3, <1>4, <1>5, <1>6, <1>7, <1>8, <1>9 DEF Next, Startup

LEMMA Invariance == Spec => []IInv
<1>1. IInv /\ [Next]_vars => IInv'
  BY FilesStep, StatesStep, VerifiedStep, ProbedStep DEF IInv
<1> QED  BY InitInv, <1>1, PTL DEF Spec

(* A worker that registers has verified its file, and loaded it or one     *)
(* that replaced it in the shared cache (decompute-models/src/lib.rs:200). *)
THEOREM ListedAlwaysVerified == Spec => []ListedIsVerified
<1>1. IInv => ListedIsVerified
  BY DEF IInv, FilesOK, StatesOK, TypeOK, VerifiedInv, Since, ListedIsVerified
<1> QED  BY Invariance, <1>1, PTL

(* What it registers with passed the smoke test, and is not a silent       *)
(* fallback (worker/src/main.rs:123-174).                                  *)
THEOREM ListedAlwaysProbed == Spec => []ListedIsProbed
<1>1. IInv => ListedIsProbed
  BY DEF IInv, ProbedInv, ProbedOf, Chosen, ListedIsProbed
<1> QED  BY Invariance, <1>1, PTL

=============================================================================
