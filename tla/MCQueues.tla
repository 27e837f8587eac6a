------------------------------- MODULE MCQueues -------------------------------
(***************************************************************************)
(* The two queues that must drain: the records a gate's device holds and   *)
(* the files the import workers hold.  A behaviour runs one of them.       *)
(***************************************************************************)
EXTENDS MCCheckin, FileImport

VARIABLE part

CONSTANTS fa, fb, fp, ea, eb, none

MCQueue == [f \in File |-> IF f = fp THEN "bio" ELSE "csv"]
MCCsvRows == [f \in File |-> CASE f = fa -> <<ea, eb, none>>
                              [] f = fb -> <<ea, ea, none>>
                              [] f = fp -> <<>>]

QueueInit == part \in {"gates", "files"} /\ Init /\ ImportInit

QueueNext ==
    /\ UNCHANGED part
    /\ \/ part = "gates" /\ Next /\ OneFault /\ UNCHANGED importVars
       \/ part = "files" /\ ImportNext /\ UNCHANGED vars

QueueSpec ==
    /\ QueueInit /\ [][QueueNext]_<<part, vars, importVars>>
    /\ Fairness /\ ImportFairness
=============================================================================
