----------------------------- MODULE MCLocalFiles -----------------------------
(***************************************************************************)
(* The files BitByGit writes.  Registry and state, the audit log, and the  *)
(* locks of a recovery share nothing, so a behaviour is about one of the   *)
(* three: three repositories, of which two fit in the list of recent ones; *)
(* six audit calls, enough for two torn lines in a row, a joined line, and *)
(* acknowledged entries around them; or three sessions and five files.     *)
(***************************************************************************)
EXTENDS Store, AuditLog, RecoveryLock, TLC

CONSTANTS a, b, c

VARIABLE part

\* The sessions are interchangeable, and so are the identities of files.
Symmetry == Permutations(Sessions) \cup Permutations(Inodes)

LockAtRest == path = Closed /\ LockInit

MCInit ==
  /\ StoreInit
  /\ AuditInit
  /\ \/ part \in {"state", "audit"} /\ LockAtRest
     \/ part = "lock" /\ LockInit

MCNext ==
  /\ UNCHANGED part
  /\ \/ part = "state" /\ StoreNext /\ UNCHANGED <<auditVars, lockVars>>
     \/ part = "audit" /\ AuditNext /\ UNCHANGED <<storeVars, lockVars>>
     \/ part = "lock" /\ LockNext /\ UNCHANGED <<storeVars, auditVars>>

MCSpec == MCInit /\ [][MCNext]_<<storeVars, auditVars, lockVars, part>>

=============================================================================
