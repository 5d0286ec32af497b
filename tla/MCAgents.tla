------------------------------ MODULE MCAgents ------------------------------
(* Small instances of two agents of the second pipeline, the processor with *)
(* the TI worker and the backup.  They share no state, and a behaviour is   *)
(* of one of them.                                                          *)
EXTENDS ThreatIntel, Backup

VARIABLE agent

AgentsInit == TiInit /\ BackupInit /\ agent \in {"threat intelligence", "backup"}

AgentsNext ==
    /\ \/ agent = "threat intelligence" /\ TiNext /\ UNCHANGED backupVars
       \/ agent = "backup" /\ BackupNext /\ UNCHANGED tiVars
    /\ UNCHANGED agent

AgentsSpec == AgentsInit /\ [][AgentsNext]_<<tiVars, backupVars, agent>>
=============================================================================
