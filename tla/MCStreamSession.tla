--------------------------- MODULE MCStreamSession --------------------------
(* Model-checking instances of the streaming session.                      *)
EXTENDS StreamSession

(* Two source selections; the wider one fits fewer records in a packet.    *)
MCMaxRecords == [narrow |-> 2, wide |-> 1]

(* One selection whose packets hold more records than the ring, as with up *)
(* to one source in the firmware (363 records against 255).                *)
MCSingle == [narrow |-> 3]

=============================================================================
