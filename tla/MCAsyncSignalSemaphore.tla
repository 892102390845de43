----------------------- MODULE MCAsyncSignalSemaphore -----------------------
(* Small instances of AsyncSignalSemaphore for TLC.                        *)
EXTENDS AsyncSignalSemaphore
=============================================================================
