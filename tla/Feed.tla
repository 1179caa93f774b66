--------------------------------- MODULE Feed --------------------------------
(****************************************************************************)
(* What publication promises those who read the text files and DNS,         *)
(* whatever fails and whenever the master is killed: the best addresses of  *)
(* one moment are offered together, after all of them are recorded; a file  *)
(* holds all of an offer's addresses for its operator or what it held       *)
(* before; a line serves as many of them as it may, and is never emptied;   *)
(* and nothing goes back to an offer that was withdrawn.                    *)
(****************************************************************************)
EXTENDS Integers, FiniteSets

CONSTANTS Isp, RecordsPerLine

VARIABLES
    recorded,   \* the addresses that ever were the best of an operator
    offer,      \* {}, or the set of the one batch that may be published now
    file, dns   \* what is read, by operator

Nothing == [i \in Isp |-> {}]
FDInit == recorded = Nothing /\ offer = {} /\ file = Nothing /\ dns = Nothing

Record ==
    /\ \A i \in Isp : recorded[i] \subseteq recorded'[i]
    /\ \/ offer' = {}
       \/ /\ offer = {}
          /\ \E b \in offer' : offer' = {b} /\ \A i \in Isp : b[i] \subseteq recorded'[i]
    /\ UNCHANGED <<file, dns>>

Write ==
    /\ \E b \in offer, J \in SUBSET Isp :
          file' = [i \in Isp |-> IF i \in J THEN b[i] ELSE file[i]]
    /\ UNCHANGED <<recorded, offer, dns>>

Serve ==
    /\ \E b \in offer, i \in Isp : \E records \in SUBSET b[i] :
          /\ b[i] # {}
          /\ Cardinality(records) = IF Cardinality(b[i]) > RecordsPerLine THEN RecordsPerLine
                                    ELSE Cardinality(b[i])
          /\ dns' = [dns EXCEPT ![i] = records]
    /\ UNCHANGED <<recorded, offer, file>>

FDNext == Record \/ Write \/ Serve

FDSpec == FDInit /\ [][FDNext]_<<recorded, offer, file, dns>>
=============================================================================
