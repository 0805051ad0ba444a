------------------------------ MODULE MCStack ------------------------------
(* Instances of Stack for TLC.                                             *)
EXTENDS Stack

MCNone == {}
MCAllSteps == Steps
MCAllFiles == Files
MCConfigYml == {"config"}
MCRedefinable == {"postgres", "gerbil"}
MCCrashable == {"pangolin", "gerbil", "traefik"}
MCRestartingExited == {"restarting", "exited"}
=============================================================================
