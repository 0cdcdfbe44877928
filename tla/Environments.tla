---------------------------- MODULE Environments ----------------------------
(***************************************************************************)
(* Environments and promotions: EnvironmentService over                    *)
(* EnvironmentRepository (api/api/services/environment_service.py).        *)
(*                                                                         *)
(* Environments are deleted softly.  The unique index ix_env_tenant_name   *)
(* covers deleted rows too: a name, that of an expired pull-request        *)
(* environment included, is never free again.                              *)
(***************************************************************************)
EXTENDS Integers, FiniteSets

CONSTANTS
    Names, Catalogs, Snapshots,
    Promoters,       \* promote requests being served
    MaxRows,         \* bound: environments created
    MaxPromotions    \* bound

\* What the constants must be.
EnvironmentsAssumption == MaxRows \in Nat /\ MaxPromotions \in Nat

Idle == [pc |-> "idle"]

VARIABLES
    envRows,     \* committed rows
    promotions,  \* committed rows of environment_promotions
    promoter,    \* [Promoters -> locals of a promote request, or Idle]
    refused      \* history: names refused by create, with whether one was active

environmentsVars == <<envRows, promotions, promoter, refused>>

Init ==
    /\ envRows = {} /\ promotions = {} /\ refused = {}
    /\ promoter = [q \in Promoters |-> Idle]

Active == {e \in envRows : ~e.deleted}

\* get: an active environment of this name.
Get(name) == {e \in Active : e.name = name}

\* Mutant: the index covers active rows only, as create documents it.
TakenByActive(name) == Get(name) # {}

\* ix_env_tenant_name, on every row.
Taken(name) == \E e \in envRows : e.name = name

\* create_environment, create_ephemeral_environment.
Create(name, catalog, ephemeral) ==
    /\ Cardinality(envRows) < MaxRows
    /\ IF Taken(name)
       THEN /\ refused' = refused \cup {[name |-> name, active |-> Get(name) # {}]}
            /\ UNCHANGED envRows
       ELSE /\ envRows' = envRows \cup {[name |-> name, catalog |-> catalog,
                                         ephemeral |-> ephemeral, expired |-> FALSE,
                                         deleted |-> FALSE]}
            /\ UNCHANGED refused
    /\ UNCHANGED <<promotions, promoter>>

\* An UPDATE of the rows that are to go.
Delete(rows) == envRows' = (envRows \ rows) \cup {[e EXCEPT !.deleted = TRUE] : e \in rows}

SoftDelete(name) ==
    /\ Get(name) # {}
    /\ Delete(Get(name))
    /\ UNCHANGED <<promotions, promoter, refused>>

\* expires_at passes.
Expire(name) ==
    /\ \E e \in Get(name) : e.ephemeral /\ ~e.expired
    /\ envRows' = (envRows \ Get(name)) \cup {[e EXCEPT !.expired = TRUE] : e \in Get(name)}
    /\ UNCHANGED <<promotions, promoter, refused>>

\* One UPDATE for all that have expired.
CleanupExpired ==
    LET gone == {e \in Active : e.ephemeral /\ e.expired}
    IN  /\ gone # {}
        /\ Delete(gone)
        /\ UNCHANGED <<promotions, promoter, refused>>

\* promote: both environments are looked up, then the record is written.
LookUp(q, source, target, snapshot) ==
    /\ promoter[q] = Idle
    /\ \E s \in Get(source), t \in Get(target) :
          promoter' = [promoter EXCEPT ![q] =
              [pc |-> "found", source |-> source, target |-> target, snapshot |-> snapshot,
               sourceCatalog |-> s.catalog, targetCatalog |-> t.catalog]]
    /\ UNCHANGED <<envRows, promotions, refused>>

RecordPromotion(q) ==
    /\ promoter[q] # Idle /\ Cardinality(promotions) < MaxPromotions
    /\ promotions' = promotions \cup {promoter[q]}
    /\ promoter' = [promoter EXCEPT ![q] = Idle]
    /\ UNCHANGED <<envRows, refused>>

Next ==
    \/ \E n \in Names, c \in Catalogs, ephemeral \in BOOLEAN : Create(n, c, ephemeral)
    \/ \E n \in Names : SoftDelete(n) \/ Expire(n)
    \/ CleanupExpired
    \/ \E q \in Promoters : \/ \E s, t \in Names, x \in Snapshots : LookUp(q, s, t, x)
                            \/ RecordPromotion(q)

Spec == Init /\ [][Next]_environmentsVars

-----------------------------------------------------------------------------
(* Properties.                                                             *)

TypeOK ==
    /\ envRows \subseteq [name : Names, catalog : Catalogs, ephemeral : BOOLEAN,
                          expired : BOOLEAN, deleted : BOOLEAN]
    /\ \A p \in promotions : p.source \in Names /\ p.target \in Names /\ p.snapshot \in Snapshots
    /\ \A q \in Promoters : promoter[q].pc \in {"idle", "found"}

\* Whatever is deleted, expires or is created between the look-up and the record of a
\* promotion, and after it, the names in a promotion tell which environments took
\* part: one row each, with the catalog the promotion recorded.
PromotionsNameOneEnvironment ==
    \A p \in promotions :
        /\ \A e \in envRows : e.name = p.source => e.catalog = p.sourceCatalog
        /\ \A e \in envRows : e.name = p.target => e.catalog = p.targetCatalog

\* "ValueError if an active (non-deleted) environment with the same name already
\* exists" (core_engine/state/repository.py): only then is a name refused.
RefusedNamesAreActive == \A x \in refused : x.active
=============================================================================
