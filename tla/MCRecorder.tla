----------------------------- MODULE MCRecorder -----------------------------
(* Instance of Recorder for TLC: the second packet of a session fits into  *)
(* the recent history of session 1 and displaces the first in session 2.   *)
EXTENDS Recorder

MCPacketSize == <<2, 1>>
MCCapacity == <<3, 2>>
=============================================================================
