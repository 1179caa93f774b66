------------------------------- MODULE MCRounds ------------------------------
(* A small instance of Scan, for TLC. *)
EXTENDS MCMonitor, Scan

\* Networks with and without host bits; the fetched list has changed.
BuiltinNetworks == <<[base |-> 1031, size |-> 1024], [base |-> 4096, size |-> 256],
                     [base |-> 8192, size |-> 512]>>
FetchedNetworks == <<[base |-> 4096, size |-> 256], [base |-> 1024, size |-> 512],
                     [base |-> 1536, size |-> 512]>>
=============================================================================
