---------------------------- MODULE WorkerStartup ---------------------------
(***************************************************************************)
(* How a process comes by its model: resolve_with_progress                 *)
(* (decompute-models/src/lib.rs) on a cache that several processes share,  *)
(* and, for a worker, the start-up after it (worker/src/main.rs): load the *)
(* file on a device, prove it with the smoke test, register, listen.       *)
(*                                                                         *)
(* hf_hub is external: it looks a file up, or downloads it and puts it in  *)
(* place as a whole, replacing what was there.  A file is read at the      *)
(* moment it is opened: who has it open when it is replaced keeps the old. *)
(***************************************************************************)
EXTENDS Integers, FiniteSets

CONSTANTS Process,      \* workers, and other callers of the resolver
          Library,      \* those others: they may cancel, and stop at the result
          Override,     \* workers started with --model-path
          WithMetal,    \* workers built with Metal
          MaxLives,     \* bound: starts of all processes
          NoFile

ASSUME StartupAssumption ==
  /\ Library \subseteq Process /\ Override \subseteq Process /\ Library \cap Override = {}
  /\ WithMetal \subseteq Process
  /\ MaxLives \in Nat
  /\ NoFile \notin [good : BOOLEAN, version : Nat]

VARIABLES cache,      \* the file in the shared cache
          own,        \* the file at --model-path
          written,    \* how often the cache was written, to tell files apart
          lives,      \* processes started so far
          pc,
          force,      \* force_download
          cancelled,  \* its cancellation token
          verified,   \* the file whose digest matched
          device,     \* what --device says
          loaded,     \* the file the model was loaded from
          target,     \* the acceleration it is tried on
          refused,    \* accelerations that failed the probe
          listed      \* what the process has registered with the coordinator

fileVars == <<cache, own, written>>
resolveVars == <<force, cancelled, verified>>
modelVars == <<device, loaded, target, refused, listed>>
vars == <<fileVars, lives, pc, resolveVars, modelVars>>

(* A file is what its digest says, and which write put it there.           *)
File == [good : BOOLEAN, version : Nat]
MaybeFile == File \cup {NoFile}
Acceleration == {"Metal", "Cpu"}
Devices == {"Auto", "Cpu", "Metal"}
Steps == {"checking", "inspecting", "hashing cached", "preflight", "downloading", "verifying",
          "reading metadata", "loading", "probing", "binding"}
Ended == {"off", "resolved", "cancelled", "failed", "serving"}

TypeOK ==
  /\ cache \in MaybeFile /\ own \in MaybeFile
  /\ written \in Nat /\ lives \in 0..MaxLives
  /\ pc \in [Process -> Steps \cup Ended]
  /\ {verified, loaded} \subseteq [Process -> MaybeFile]
  /\ {force, cancelled} \subseteq [Process -> BOOLEAN]
  /\ device \in [Process -> Devices]
  /\ target \in [Process -> Acceleration] /\ refused \in [Process -> SUBSET Acceleration]
  /\ listed \in [Process -> Acceleration \cup {"No"}]

Found(version) == {NoFile} \cup {[good |-> g, version |-> version] : g \in BOOLEAN}

Init ==
  /\ cache \in Found(0) /\ own \in Found(0) /\ written = 0 /\ lives = 0
  /\ pc = [p \in Process |-> "off"]
  /\ verified = [p \in Process |-> NoFile] /\ loaded = verified
  /\ force = [p \in Process |-> FALSE] /\ cancelled = force
  /\ device = [p \in Process |-> "Auto"] /\ target = [p \in Process |-> "Cpu"]
  /\ refused = [p \in Process |-> {}]
  /\ listed = [p \in Process |-> "No"]

Good(file) == file # NoFile /\ file.good
Path(p) == IF p \in Override THEN own ELSE cache

Goto(p, from, to) == pc[p] = from /\ pc' = [pc EXCEPT ![p] = to]

(* A process starts, for the first time or again.  What it had registered  *)
(* is the business of the registry.                                        *)
Start(p) ==
  /\ pc[p] \in Ended /\ lives < MaxLives
  /\ lives' = lives + 1
  /\ pc' = [pc EXCEPT ![p] = "checking"]
  /\ \E d \in IF p \in Library THEN {device[p]} ELSE Devices : device' = [device EXCEPT ![p] = d]
  /\ verified' = [verified EXCEPT ![p] = NoFile] /\ loaded' = [loaded EXCEPT ![p] = NoFile]
  /\ force' = [force EXCEPT ![p] = FALSE] /\ cancelled' = [cancelled EXCEPT ![p] = FALSE]
  /\ refused' = [refused EXCEPT ![p] = {}] /\ listed' = [listed EXCEPT ![p] = "No"]
  /\ UNCHANGED <<fileVars, target>>

Crash(p) ==
  /\ pc[p] \notin Ended
  /\ pc' = [pc EXCEPT ![p] = "off"]
  /\ UNCHANGED <<fileVars, lives, resolveVars, modelVars>>

Cancel(p) ==
  /\ p \in Library /\ pc[p] \notin Ended /\ ~cancelled[p]
  /\ cancelled' = [cancelled EXCEPT ![p] = TRUE]
  /\ UNCHANGED <<fileVars, lives, pc, force, verified, modelVars>>

-----------------------------------------------------------------------------
(* Resolving.                                                              *)

FileOthers == <<fileVars, lives, modelVars>>
Resolved(p) == IF p \in Library THEN "resolved" ELSE "reading metadata"

CheckCancelled(p) ==
  /\ Goto(p, "checking", IF cancelled[p] THEN "cancelled"
                         ELSE IF p \in Override THEN "verifying" ELSE "inspecting")
  /\ UNCHANGED <<resolveVars, FileOthers>>

(* inspect_cache: no file is no error here; other errors are.              *)
InspectCache(p) ==
  /\ \/ Goto(p, "inspecting", IF cache = NoFile THEN "preflight" ELSE "hashing cached")
     \/ Goto(p, "inspecting", "failed")
  /\ UNCHANGED <<resolveVars, FileOthers>>

\* Defect: a file that is present is taken for verified.
TrustCached(p) ==
  /\ Goto(p, "hashing cached", Resolved(p))
  /\ verified' = [verified EXCEPT ![p] = cache]
  /\ UNCHANGED <<force, cancelled, FileOthers>>

(* The inspection hashes with a token of its own, so the cancellation is   *)
(* not noticed; a match ends the resolution, a mismatch forces a download. *)
HashCached(p) ==
  /\ IF Good(cache)
     THEN /\ Goto(p, "hashing cached", Resolved(p))
          /\ verified' = [verified EXCEPT ![p] = cache]
          /\ UNCHANGED force
     ELSE /\ Goto(p, "hashing cached", "preflight")
          /\ force' = [force EXCEPT ![p] = TRUE]
          /\ UNCHANGED verified
  /\ UNCHANGED <<cancelled, FileOthers>>

PreflightDiskSpace(p) ==
  /\ Goto(p, "preflight", "downloading") \/ Goto(p, "preflight", "failed")
  /\ UNCHANGED <<resolveVars, FileOthers>>

(* A file another process has put there meanwhile is not downloaded again, *)
(* unless that is forced.                                                  *)
FindDownloaded(p) ==
  /\ ~force[p] /\ cache # NoFile
  /\ Goto(p, "downloading", "verifying")
  /\ UNCHANGED <<resolveVars, FileOthers>>

Download(p) ==
  /\ force[p] \/ cache = NoFile
  /\ Goto(p, "downloading", "verifying")
  /\ cache' \in [good : BOOLEAN, version : {written + 1}]
  /\ written' = written + 1
  /\ UNCHANGED <<own, lives, resolveVars, modelVars>>

DownloadFails(p) ==
  /\ Goto(p, "downloading", "failed")
  /\ UNCHANGED <<resolveVars, FileOthers>>

\* Defect: the download is awaited without looking at the token.
NoticeAfterDownload(p) ==
  /\ cancelled[p] /\ Goto(p, "verifying", "cancelled")
  /\ UNCHANGED <<resolveVars, FileOthers>>

(* The select of the download, and the check before every read.            *)
NoticeCancelled(p) ==
  /\ cancelled[p] /\ pc[p] \in {"downloading", "verifying"}
  /\ pc' = [pc EXCEPT ![p] = "cancelled"]
  /\ UNCHANGED <<resolveVars, FileOthers>>

(* The last read may be done before the token is cancelled.                *)
VerifyFile(p) ==
  /\ IF Good(Path(p))
     THEN /\ Goto(p, "verifying", Resolved(p))
          /\ verified' = [verified EXCEPT ![p] = Path(p)]
     ELSE Goto(p, "verifying", "failed") /\ UNCHANGED verified
  /\ UNCHANGED <<force, cancelled, FileOthers>>

-----------------------------------------------------------------------------
(* Loading.  The path is opened again, by its name.                        *)

(* decompute_llama::inspect, for the size of the context.                  *)
ReadMetadata(p) ==
  /\ Goto(p, "reading metadata", "loading") \/ Goto(p, "reading metadata", "failed")
  /\ UNCHANGED <<resolveVars, FileOthers>>

FirstTarget(p) ==
  IF device[p] = "Metal" \/ (device[p] = "Auto" /\ p \in WithMetal) THEN "Metal" ELSE "Cpu"

(* The acceleration to try: CPU after Metal was refused, with --device     *)
(* auto only.                                                              *)
Target(p) == IF refused[p] = {} THEN FirstTarget(p) ELSE "Cpu"

Load(p) ==
  /\ device[p] = "Metal" => p \in WithMetal
  /\ Goto(p, "loading", "probing")
  /\ loaded' = [loaded EXCEPT ![p] = Path(p)]
  /\ target' = [target EXCEPT ![p] = Target(p)]
  /\ UNCHANGED <<fileVars, lives, resolveVars, device, refused, listed>>

\* Defect: an explicit choice falls back as well.
AlwaysFallsBack(p) == Target(p) = "Metal"

FallsBack(p) == Target(p) = "Metal" /\ device[p] = "Auto"

(* The model does not load, or its smoke test fails; both happen to good   *)
(* files as well.                                                          *)
ProbeFails(p) ==
  /\ pc[p] \in {"loading", "probing"}
  /\ refused' = [refused EXCEPT ![p] = @ \cup {Target(p)}]
  /\ pc' = [pc EXCEPT ![p] = IF FallsBack(p) THEN "loading" ELSE "failed"]
  /\ UNCHANGED <<fileVars, lives, resolveVars, device, loaded, target, listed>>

(* Then the heartbeat task is spawned and the listener bound; neither      *)
(* waits for the other.                                                    *)
SmokeTest(p) ==
  /\ Goto(p, "probing", "binding")
  /\ UNCHANGED <<fileVars, lives, resolveVars, modelVars>>

Register(p) ==
  /\ pc[p] \in {"binding", "serving"} /\ p \notin Library /\ listed[p] = "No"
  /\ listed' = [listed EXCEPT ![p] = target[p]]
  /\ UNCHANGED <<fileVars, lives, pc, resolveVars, device, loaded, target, refused>>

Bind(p) ==
  /\ Goto(p, "binding", "serving") \/ Goto(p, "binding", "failed")
  /\ UNCHANGED <<fileVars, lives, resolveVars, modelVars>>

Network(p) == FindDownloaded(p) \/ Download(p) \/ DownloadFails(p)

Local(p) ==
  \/ CheckCancelled(p) \/ InspectCache(p) \/ HashCached(p) \/ PreflightDiskSpace(p)
  \/ NoticeCancelled(p) \/ VerifyFile(p)

Startup(p) ==
  ReadMetadata(p) \/ Load(p) \/ ProbeFails(p) \/ SmokeTest(p) \/ Register(p) \/ Bind(p)

Next == \E p \in Process :
  Start(p) \/ Crash(p) \/ Cancel(p) \/ Local(p) \/ Network(p) \/ Startup(p)

(* What needs no network happens.                                          *)
Fairness == \A p \in Process : WF_vars(Local(p))

Spec == Init /\ [][Next]_vars /\ Fairness

-----------------------------------------------------------------------------
(* Properties.                                                             *)

(* README.md: a worker verifies the complete file before it can register.  *)
(* What it then serves is that very file, unless another process replaced  *)
(* it in the shared cache between its verification and its loading.        *)
ListedIsVerified ==
  /\ TypeOK
  /\ \A p \in Process : listed[p] # "No" =>
       /\ Good(verified[p])
       /\ \/ loaded[p] = verified[p]
          \/ p \notin Override /\ loaded[p].version > verified[p].version

(* README.md: the acceleration a worker advertises passed the smoke test,  *)
(* --device metal never falls back, and auto uses the processor only after *)
(* a failed probe.                                                         *)
ListedIsProbed ==
  \A p \in Process : listed[p] # "No" =>
    /\ listed[p] \notin refused[p]
    /\ device[p] # "Auto" => listed[p] = device[p]
    /\ device[p] = "Auto" /\ p \in WithMetal /\ listed[p] = "Cpu" => "Metal" \in refused[p]

(* A cancelled resolution ends, also when the download hangs.              *)
CancelEnds == \A p \in Library : cancelled[p] ~> pc[p] \in Ended

=============================================================================
