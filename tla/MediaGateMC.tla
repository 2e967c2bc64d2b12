---------------------------- MODULE MediaGateMC ----------------------------
(***************************************************************************)
(* Who calls what.  In most runs three threads: app sends audio, runs the  *)
(* speed test, connects and disconnects, vid sends video, and the status   *)
(* thread tears the media down.                                            *)
(***************************************************************************)
EXTENDS MediaGate, TLC

CONSTANTS app, vid, stat

MCThreads == {app, vid, stat}

MCCalls ==
    (app :> {"audio", "test", "init", "destroy"}) @@ (vid :> {"video", "audio"})
        @@ (stat :> {"destroy"})
=============================================================================
