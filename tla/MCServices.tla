----------------------------- MODULE MCServices -----------------------------
(***************************************************************************)
(* A small instance of the REST handlers, and one of the audit recorder: a *)
(* behaviour is of one or of the other, which share no state.              *)
(***************************************************************************)
EXTENDS InstanceApi, AuditRecorder

VARIABLE part

all == <<vars, avars, part>>

ServicesInit == /\ Init /\ AuditInit
                /\ \/ part = "api"
                   \/ part = "audit" /\ \A s \in Slug : file[s] = Gone

ServicesNext == \/ part = "api" /\ Next /\ UNCHANGED <<avars, part>>
                \/ part = "audit" /\ AuditNext /\ UNCHANGED <<vars, part>>

\* The fairness of FairSpec and AuditFairSpec.
ServicesWork == \/ part = "api" /\ Work /\ UNCHANGED <<avars, part>>
                \/ part = "audit" /\ AuditWork /\ UNCHANGED <<vars, part>>

ServicesSpec == ServicesInit /\ [][ServicesNext]_all /\ WF_all(ServicesWork)

-----------------------------------------------------------------------------
\* The variables of both parts keep their types.
ServicesTypeOK == TypeOK /\ AuditTypeOK

\* When requests and events cease, both parts come to rest where they should:
\* the keys handed out open their instance, and no event is left in memory.
Settles == KeysOpen /\ ReachesDisk
=============================================================================
