----------------------------- MODULE MCServices -----------------------------
(* Small instances of three services that claim work for a while: the       *)
(* analysis queue, the webhook deliveries and the backup.  They share no    *)
(* state, and a behaviour is of one of them: the others are never asked to  *)
(* do anything.                                                             *)
EXTENDS AnalysisQueue, Webhook, Backup

VARIABLE service

allVars == <<vars, hookVars, backupVars, service>>

ServicesInit ==
    /\ Init /\ HookInit /\ BackupInit
    /\ service \in {"analysis", "webhook", "backup"}

ServicesNext ==
    /\ \/ service = "analysis" /\ Next /\ UNCHANGED <<hookVars, backupVars>>
       \/ service = "webhook" /\ HookNext /\ UNCHANGED <<vars, backupVars>>
       \/ service = "backup" /\ BackupNext /\ UNCHANGED <<vars, hookVars>>
    /\ UNCHANGED service

ServicesSpec ==
    ServicesInit /\ [][ServicesNext]_allVars /\ Fairness /\ HookFairness /\ BackupFairness
=============================================================================
