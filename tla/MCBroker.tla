------------------------------ MODULE MCBroker ------------------------------
(* Model-checking instances of the broker.                                 *)
EXTENDS Broker, TLC

(* Clients are interchangeable, and so are layouts.                        *)
Symmetry == Permutations(Clients) \cup Permutations(Layouts)

(* Bound: while finite sessions, datagrams or a storage failure are        *)
(* followed, one client is served, one set-up is in use and nobody reboots *)
(* the device; while a client reboots it, the other one is idle or away    *)
(* and one set-up is in use.                                               *)
Counting ==
    \/ packet # NoPacket \/ received_records > 0 \/ fatal
    \/ configuration.count > 0 \/ device.setup.count > 0
    \/ \E c \in Clients : argument[c].count > 0
Served == {c \in Clients : pc[c] # "off"}
InUse == ({configuration, device.setup} \cup {argument[c] : c \in Clients}) \ {NoConfiguration}
Rebooting == {c \in Clients : op[c] \in {"reboot", "plainreboot"}}
Focus ==
    /\ Counting => /\ Cardinality(Served) <= 1
                   /\ Cardinality(InUse) <= 1
                   /\ Rebooting = {}
    /\ \A c \in Rebooting : /\ Cardinality(InUse) <= 1
                            /\ \A d \in Clients \ {c} : pc[d] \in {"off", "idle"}

=============================================================================
