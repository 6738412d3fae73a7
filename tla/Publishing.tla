----------------------------- MODULE Publishing -----------------------------
(***************************************************************************)
(* From a finished simulation to a public video (core/video/worker.py,     *)
(* core/youtube/worker.py and the two scripts they start).  The finalizer  *)
(* of a run claims the row and starts a renderer; a renderer that is done  *)
(* claims the row again and starts an uploader.  The claims are            *)
(* conditional UPDATEs of two status columns, which serve as locks that    *)
(* their holders release by a later, unconditional write.  Renderers and   *)
(* uploaders are detached processes; an operator may start a renderer by   *)
(* hand (make render-verify), which claims nothing.                        *)
(***************************************************************************)
EXTENDS SimulationRun

CONSTANTS Helpers,    \* slots for renderers and uploaders
          MaxRetries, \* max_retries of the YouTube configuration
          MaxManual,  \* bound on renders by hand
          MaxDeaths   \* bound on helpers that end before their last write

VARIABLES video,    \* video_render_status
          tube,     \* youtube_publish_status
          helper,   \* where each renderer or uploader is, and its attempts
          uploads,  \* videos that YouTube has accepted
          unclear,  \* those of them whose upload call raised
          manual,
          deaths

publishVars == <<video, tube, helper, uploads, unclear, manual, deaths>>

Free == [job |-> "none", pc |-> "free", attempt |-> 0]
Renderer == [job |-> "render", pc |-> "boot", attempt |-> 0]
Uploader == [job |-> "upload", pc |-> "boot", attempt |-> 1]

PublishInit ==
    /\ video = "none" /\ tube = "none"
    /\ helper = [h \in Helpers |-> Free]
    /\ uploads = 0 /\ unclear = 0 /\ manual = 0 /\ deaths = 0

Is(h, job, pc) == helper[h].job = job /\ helper[h].pc = pc
Step(h, pc) == helper' = [helper EXCEPT ![h].pc = pc]
Leaves(h) == helper' = [helper EXCEPT ![h] = Free]
(* Mutant: the lock of a crashed holder may be taken over.                 *)
ClaimableAgain(status) == status # "done"

Claimable(status) == status \in {"none", "failed"}

-----------------------------------------------------------------------------
(* The end of _finalize: the row decides whether there is a video.  The    *)
(* rest of the run is left alone.                                          *)
RunGoes(pc) ==
    /\ Goes(pc)
    /\ UNCHANGED <<mode, row, spent, stopped, starts, errors, books>>

EndWithoutRender ==
    /\ At("render") /\ row.status \notin {"completed", "failed"}
    /\ RunGoes("ended")
    /\ UNCHANGED publishVars

MarkUnrenderable ==
    /\ At("render") /\ row.status \in {"completed", "failed"} /\ ~row.turns
    /\ video' = "skipped"
    /\ RunGoes("ended")
    /\ UNCHANGED <<tube, helper, uploads, unclear, manual, deaths>>

(* enqueue_render: claim_for_render, then Popen; when that fails the lock  *)
(* is freed.                                                               *)
ClaimRender ==
    /\ At("render") /\ row.status \in {"completed", "failed"} /\ row.turns
    /\ IF Claimable(video) THEN video' = "rendering" /\ RunGoes("spawn")
                           ELSE UNCHANGED video /\ RunGoes("ended")
    /\ UNCHANGED <<tube, helper, uploads, unclear, manual, deaths>>

(* Mutant: the lock is kept when the renderer cannot be started.           *)
SpawnRenderKeepsLock ==
    /\ At("spawn")
    /\ \/ \E h \in Helpers : helper[h] = Free /\ helper' = [helper EXCEPT ![h] = Renderer]
       \/ UNCHANGED helper
    /\ RunGoes("ended")
    /\ UNCHANGED <<video, tube, uploads, unclear, manual, deaths>>

SpawnRender ==
    /\ At("spawn")
    /\ \/ \E h \in Helpers : helper[h] = Free /\ helper' = [helper EXCEPT ![h] = Renderer]
                             /\ UNCHANGED video
       \/ video' = "failed" /\ UNCHANGED helper
    /\ RunGoes("ended")
    /\ UNCHANGED <<tube, uploads, unclear, manual, deaths>>

ManualRender ==
    /\ manual < MaxManual /\ row.turns
    /\ \E h \in Helpers : helper[h] = Free /\ helper' = [helper EXCEPT ![h] = Renderer]
    /\ manual' = manual + 1
    /\ UNCHANGED <<runVars, video, tube, uploads, unclear, deaths>>

-----------------------------------------------------------------------------
(* A renderer.  Without cues the video is skipped, an error of the render  *)
(* or of the storage is a failure; a video that is stored is done, and     *)
(* enqueue_youtube_publish looks at the row once more before its claim.    *)
Boot(h, job, pc) ==
    /\ Is(h, job, "boot")
    /\ Step(h, pc)
    /\ UNCHANGED <<runVars, video, tube, uploads, unclear, manual, deaths>>

Render(h) ==
    /\ Is(h, "render", "render")
    /\ \/ \E status \in {"skipped", "failed"} : video' = status /\ Leaves(h)
       \/ video' = "done" /\ Step(h, "fresh")
    /\ UNCHANGED <<runVars, tube, uploads, unclear, manual, deaths>>

ReadFresh(h) ==
    /\ Is(h, "render", "fresh")
    /\ IF video = "done" THEN Step(h, "claim") ELSE Leaves(h)
    /\ UNCHANGED <<runVars, video, tube, uploads, unclear, manual, deaths>>

ClaimPublish(h) ==
    /\ Is(h, "render", "claim")
    /\ IF Claimable(tube) THEN tube' = "publishing" /\ Step(h, "spawn")
                          ELSE UNCHANGED tube /\ Leaves(h)
    /\ UNCHANGED <<runVars, video, uploads, unclear, manual, deaths>>

SpawnUpload(h) ==
    /\ Is(h, "render", "spawn")
    /\ \/ helper' = [helper EXCEPT ![h] = Uploader] /\ UNCHANGED tube
       \/ tube' = "failed" /\ Leaves(h)
    /\ UNCHANGED <<runVars, video, uploads, unclear, manual, deaths>>

-----------------------------------------------------------------------------
(* An uploader.  It fails at once without a video; it tries to upload up   *)
(* to MaxRetries times, unless the error is not retryable, and an upload   *)
(* that raises may have been accepted by YouTube.                          *)
Fetch(h) ==
    /\ Is(h, "upload", "fetch")
    /\ \/ video = "done" /\ Step(h, "upload") /\ UNCHANGED tube
       \/ tube' = "failed" /\ Leaves(h)
    /\ UNCHANGED <<runVars, video, uploads, unclear, manual, deaths>>

Upload(h) ==
    /\ Is(h, "upload", "upload")
    /\ uploads' = uploads + 1
    /\ Step(h, "record")
    /\ UNCHANGED <<runVars, video, tube, unclear, manual, deaths>>

UploadRaises(h) ==
    /\ Is(h, "upload", "upload")
    /\ \/ uploads' = uploads + 1 /\ unclear' = unclear + 1
       \/ UNCHANGED <<uploads, unclear>>
    /\ \/ helper[h].attempt < MaxRetries /\ helper' = [helper EXCEPT ![h].attempt = @ + 1]
       \/ Step(h, "give up")
    /\ UNCHANGED <<runVars, video, tube, manual, deaths>>

Record(h) ==
    /\ \E end \in {<<"record", "done">>, <<"give up", "failed">>} :
          Is(h, "upload", end[1]) /\ tube' = end[2]
    /\ Leaves(h)
    /\ UNCHANGED <<runVars, video, uploads, unclear, manual, deaths>>

(* A helper ends before its last write: a failed preflight or bootstrap, a *)
(* kill.  Its lock stays taken.                                            *)
Die(h) ==
    /\ helper[h] # Free
    /\ deaths < MaxDeaths
    /\ deaths' = deaths + 1
    /\ Leaves(h)
    /\ UNCHANGED <<runVars, video, tube, uploads, unclear, manual>>

HelperStep(h) ==
    \/ Boot(h, "render", "render") \/ Render(h) \/ ReadFresh(h) \/ ClaimPublish(h) \/ SpawnUpload(h)
    \/ Boot(h, "upload", "fetch") \/ Fetch(h) \/ Upload(h) \/ UploadRaises(h) \/ Record(h)

FinalStep == EndWithoutRender \/ MarkUnrenderable \/ ClaimRender \/ SpawnRender

PublishNext ==
    \/ RunNext /\ UNCHANGED publishVars
    \/ FinalStep
    \/ ManualRender
    \/ \E h \in Helpers : HelperStep(h) \/ Die(h)

(* The event loop and the operating system run every process that can go   *)
(* on; nobody is assumed to start, stop or cancel one.                     *)
PublishFairness ==
    /\ WF_<<runVars, publishVars>>(RunStep /\ UNCHANGED publishVars)
    /\ WF_<<runVars, publishVars>>(FinalStep)
    /\ \A h \in Helpers : WF_<<runVars, publishVars>>(HelperStep(h))

PublishSpec ==
    RunInit /\ PublishInit /\ [][PublishNext]_<<runVars, publishVars>> /\ PublishFairness

-----------------------------------------------------------------------------
PublishTypeOK ==
    /\ RunTypeOK
    /\ video \in {"none", "rendering", "done", "failed", "skipped"}
    /\ tube \in {"none", "publishing", "done", "failed"}
    /\ uploads \in Nat /\ unclear \in Nat /\ unclear <= uploads
    /\ \A h \in Helpers : helper[h].attempt <= MaxRetries

Rendering == {h \in Helpers : helper[h].job = "render"}
Holders == {h \in Helpers : helper[h].job = "upload" \/ Is(h, "render", "spawn")}

(* A simulation is published once: no two processes hold the claim, which  *)
(* lasts until the holder's last write; YouTube holds at most one video    *)
(* more than there were uploads that raised after they had been accepted,  *)
(* and one at least when the row says done (claim_for_youtube_publish and  *)
(* the retries of publish_simulation_youtube.py).  However often a         *)
(* simulation is resumed and finalized, it is rendered by one process at a *)
(* time, unless an operator renders by hand (claim_for_render).            *)
PublishedOnce ==
    /\ manual = 0 => \A g, h \in Rendering : g = h
    /\ \A g, h \in Holders : g = h
    /\ Holders # {} => tube = "publishing"
    /\ uploads <= 1 + unclear
    /\ tube = "done" => uploads > 0

(* No status is left in between: a claim leads to an end, unless the       *)
(* process that holds it was killed.                                       *)
ClaimsEnd ==
    [](deaths = 0 /\ run.pc # "dead") =>
        /\ (video = "rendering") ~> (video # "rendering")
        /\ (tube = "publishing") ~> (tube # "publishing")

(* Runs end and so do the claims of their videos.                          *)
EverythingEnds == KilledRunEnds /\ ClaimsEnd

=============================================================================
