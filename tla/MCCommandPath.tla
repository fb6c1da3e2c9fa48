--------------------------- MODULE MCCommandPath ---------------------------
(* Instances of CommandPath for TLC.                                       *)
EXTENDS CommandPath

(* All settings but the default share a command word, as frequencies that  *)
(* round to one phase increment do.                                        *)
MCEncode == [v \in Settings |-> IF v = Default THEN Zero
                                ELSE CHOOSE x \in Finite : x # Zero]

=============================================================================
