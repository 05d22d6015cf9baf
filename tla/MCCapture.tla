----------------------------- MODULE MCCapture -----------------------------
(* Instance of Capture: the helper of the repository, one that writes its   *)
(* headers in the byte order the service reads, and all promises.           *)
EXTENDS Capture

MCWorlds == {{}, {"networkOrder"}, Promises}
=============================================================================
