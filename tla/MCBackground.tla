---------------------------- MODULE MCBackground ----------------------------
(* Connections, the scheduler of the daily reports, and bulk imports: parts that share no state     *)
(* here, so each behaviour is one of one of them.                                                  *)
EXTENDS ConnectionPool, DailyReports, Uploads, Imports, TLC

VARIABLE part       \* whose behaviour this one is

TwoUploads == {[old |-> {2, 3}, new |-> 1], [old |-> {4}, new |-> 0]}

BackgroundInit ==
    /\ part \in {"pool", "reports", "uploads", "imports"}
    /\ PoolInit /\ ReportsInit /\ UploadsInit /\ ImportsInit
    /\ part # "imports" => kind = Payments

BackgroundNext ==
    /\ \/ part = "pool" /\ PoolNext /\ UNCHANGED <<reportVars, uploadVars, importVars>>
       \/ part = "reports" /\ ReportsNext /\ UNCHANGED <<poolVars, uploadVars, importVars>>
       \/ part = "uploads" /\ UploadsNext /\ UNCHANGED <<poolVars, reportVars, importVars>>
       \/ part = "imports" /\ ImportsNext /\ UNCHANGED <<poolVars, reportVars, uploadVars>>
    /\ UNCHANGED part

BackgroundSpec ==
    /\ BackgroundInit
    /\ [][BackgroundNext]_<<part, poolVars, reportVars, uploadVars, importVars>>
    /\ \A w \in Users : /\ WF_poolVars(part = "pool" /\ Try(w))
                        /\ WF_poolVars(part = "pool" /\ Late(w))
    /\ \A c \in Copies : WF_reportVars(part = "reports" /\ ReportStep(c))
=============================================================================
