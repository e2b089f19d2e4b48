-------------------------- MODULE MCImsMediaSocket --------------------------
EXTENDS ImsMediaSocket, TLC
CONSTANTS audio, video
\* One receiving socket in each of two sessions.
MCOwners == {"audioManager", "videoManager"}
MCOwnerOf == (audio :> "audioManager") @@ (video :> "videoManager")
=============================================================================
