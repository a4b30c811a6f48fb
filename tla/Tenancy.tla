------------------------------- MODULE Tenancy -------------------------------
(***************************************************************************)
(* Tenants, their PostgreSQL schemas, and the two programs that migrate    *)
(* them: onboarding, inside the API, and the runner of the command line.   *)
(*                                                                         *)
(* Every statement outside a transaction is a step of its own, and either  *)
(* program may stop between any two.  A migration of the onboarding is     *)
(* applied statement by statement; one that stops halfway counts as not    *)
(* applied, since all its statements may be repeated.                      *)
(***************************************************************************)
EXTENDS Naturals

CONSTANTS
  Tenant,
  Name,        \* names a tenant may be given
  Program,     \* processes that onboard or migrate
  Guarded,     \* concurrent requests that pass TenantGuard
  MaxStarts,   \* onboardings and runs that are started
  None

VARIABLES
  tenants,     \* public.tenants
  recorded,    \* public.tenant_migrations
  schemas,     \* the schemas of the database: their tables and whether they are seeded
  schemaOf,    \* the key tenant:schema:<tenant> of each tenant
  program,     \* where each process stands
  lookup,      \* where each request stands that looks its schema up
  starts,      \* onboardings and runs so far
  damaged      \* tenants with a dropped schema or another name than at first (history)

vars == <<tenants, recorded, schemas, schemaOf, program, lookup, starts, damaged>>

-----------------------------------------------------------------------------
\* Three of the nineteen stand for them: 001 (branches), 006 (roles, which name
\* branches) and 017 (notifications, which name no table).
Migration == 1 .. 3
Needs(m) == IF m = 2 THEN {1} ELSE {}

\* The seed writes into branches, roles and their like.
SeedNeeds == {1, 2}

\* generateTenantSchema: the name and the first digits of the id.
SchemaName(t, n) == <<t, n>>
Schema == Tenant \X Name

NoSchema == [exists |-> FALSE, tables |-> {}, seeded |-> FALSE]
EmptySchema == [NoSchema EXCEPT !.exists = TRUE]
Idle == [at |-> "idle"]
Steps == {"uncache", "schema", "check", "apply", "record", "seed", "drop"}

Init ==
  /\ tenants = [t \in Tenant |-> None]
  /\ recorded = [t \in Tenant |-> [m \in Migration |-> "none"]]
  /\ schemas = [s \in Schema |-> NoSchema]
  /\ schemaOf = [t \in Tenant |-> None]
  /\ program = [p \in Program |-> Idle]
  /\ lookup = [g \in Guarded |-> None]
  /\ starts = 0
  /\ damaged = {}

-----------------------------------------------------------------------------
\* Mutant of Reregistered: the conflict also updates schema_name.
ReregisteredSchema(t, n) == [name |-> n, schema |-> SchemaName(t, n)]

\* ON CONFLICT (id) DO UPDATE leaves schema_name as it was.
Reregistered(t, n) == [name |-> n, schema |-> tenants[t].schema]

Start(p) == program[p] = Idle /\ starts < MaxStarts /\ starts' = starts + 1

\* create: the row comes before the schema.  A known id onboards its tenant again.
Register(p, t, n) ==
  /\ Start(p)
  /\ tenants' = [tenants EXCEPT ![t] =
       IF @ = None THEN [name |-> n, schema |-> SchemaName(t, n)] ELSE Reregistered(t, n)]
  /\ damaged' = IF tenants[t] # None /\ tenants[t].schema # SchemaName(t, n) THEN damaged \cup {t} ELSE damaged
  /\ program' = [program EXCEPT ![p] =
       [at |-> "uncache", tenant |-> t, schema |-> SchemaName(t, n), m |-> 1, mode |-> "onboard"]]
  /\ UNCHANGED <<recorded, schemas, schemaOf, lookup>>

Move(p, at) == program' = [program EXCEPT ![p].at = at]
End(p) == program' = [program EXCEPT ![p] = Idle]
At(p, at) == program[p] # Idle /\ program[p].at = at

Uncache(p) ==
  /\ At(p, "uncache")
  /\ schemaOf' = [schemaOf EXCEPT ![program[p].tenant] = None]
  /\ Move(p, "schema")
  /\ UNCHANGED <<tenants, recorded, schemas, lookup, damaged, starts>>

\* run, applyForTenant: the runner derives the schema from the name of today.
StartRunner(p, t, mode) ==
  /\ Start(p) /\ tenants[t] # None
  /\ program' = [program EXCEPT ![p] =
       [at |-> "schema", tenant |-> t, schema |-> SchemaName(t, tenants[t].name), m |-> 1, mode |-> mode]]
  /\ UNCHANGED <<tenants, recorded, schemas, schemaOf, lookup, damaged>>

CreateSchema(p) ==
  /\ At(p, "schema")
  /\ schemas' = [schemas EXCEPT ![program[p].schema] = IF @.exists THEN @ ELSE EmptySchema]
  /\ Move(p, "check")
  /\ UNCHANGED <<tenants, recorded, schemaOf, lookup, damaged, starts>>

\* What follows migration m, or m = 3, the last.
Advanced(p) ==
  IF program[p].m < 3 THEN [program[p] EXCEPT !.m = @ + 1, !.at = "check"]
  ELSE IF program[p].mode = "onboard" THEN [program[p] EXCEPT !.at = "seed"]
  ELSE Idle

Success(p) == recorded[program[p].tenant][program[p].m] = "SUCCESS"

\* wasApplied, before the advisory lock; a retry does not ask.
Check(p) ==
  /\ At(p, "check")
  /\ program' = [program EXCEPT ![p] =
       IF program[p].mode # "retry" /\ Success(p) THEN Advanced(p) ELSE [@ EXCEPT !.at = "apply"]]
  /\ UNCHANGED <<tenants, recorded, schemas, schemaOf, lookup, damaged, starts>>

Applicable(p) == LET s == schemas[program[p].schema] IN s.exists /\ Needs(program[p].m) \subseteq s.tables

Apply(p) ==
  /\ At(p, "apply") /\ Applicable(p)
  /\ schemas' = [schemas EXCEPT ![program[p].schema].tables = @ \cup {program[p].m}]
  /\ Move(p, "record")
  /\ UNCHANGED <<tenants, recorded, schemaOf, lookup, damaged, starts>>

\* Mutant of Recorded: a migration that failed is recorded like one that did not.
RecordedSuccess(p, status) == recorded' = [recorded EXCEPT ![program[p].tenant][program[p].m] = "SUCCESS"]

Recorded(p, status) == recorded' = [recorded EXCEPT ![program[p].tenant][program[p].m] = status]

Record(p) ==
  /\ At(p, "record")
  /\ Recorded(p, "SUCCESS")
  /\ program' = [program EXCEPT ![p] = Advanced(p)]
  /\ UNCHANGED <<tenants, schemas, schemaOf, lookup, damaged, starts>>

\* A statement is refused, perhaps that of the status row after the migration's commit.
Fail(p) ==
  /\ At(p, "apply") \/ At(p, "record")
  /\ Recorded(p, "FAILED")
  /\ IF program[p].mode = "onboard" THEN Move(p, "drop") ELSE End(p)
  /\ UNCHANGED <<tenants, schemas, schemaOf, lookup, damaged, starts>>

\* Steps 2 to 12 of the onboarding are one transaction.
Seed(p) ==
  /\ At(p, "seed")
  /\ SeedNeeds \subseteq schemas[program[p].schema].tables
  /\ schemas' = [schemas EXCEPT ![program[p].schema].seeded = TRUE]
  /\ End(p)
  /\ UNCHANGED <<tenants, recorded, schemaOf, lookup, damaged, starts>>

SeedFails(p) ==
  /\ At(p, "seed")
  /\ Move(p, "drop")
  /\ UNCHANGED <<tenants, recorded, schemas, schemaOf, lookup, damaged, starts>>

\* DROP SCHEMA CASCADE, of a tenant that is onboarded again too; the row of the tenant
\* and the status rows stay.
DropSchema(p) ==
  /\ At(p, "drop")
  /\ schemas' = [schemas EXCEPT ![program[p].schema] = NoSchema]
  /\ damaged' = damaged \cup {program[p].tenant}
  /\ End(p)
  /\ UNCHANGED <<tenants, recorded, schemaOf, lookup, starts>>

\* The process ends, or the DROP is refused.
Crash(p) ==
  /\ program[p] # Idle
  /\ End(p)
  /\ UNCHANGED <<tenants, recorded, schemas, schemaOf, lookup, damaged, starts>>

-----------------------------------------------------------------------------
\* resolveSchema of TenantGuard: whatever the tenant's state, the stored name.
ReadSchema(g, t) ==
  /\ lookup[g] = None /\ schemaOf[t] = None /\ tenants[t] # None
  /\ lookup' = [lookup EXCEPT ![g] = [tenant |-> t, schema |-> tenants[t].schema]]
  /\ UNCHANGED <<tenants, recorded, schemas, schemaOf, program, damaged, starts>>

StoreSchema(g) ==
  /\ lookup[g] # None
  /\ schemaOf' = [schemaOf EXCEPT ![lookup[g].tenant] = lookup[g].schema]
  /\ lookup' = [lookup EXCEPT ![g] = None]
  /\ UNCHANGED <<tenants, recorded, schemas, program, damaged, starts>>

ExpireSchema(t) ==
  /\ schemaOf[t] # None
  /\ schemaOf' = [schemaOf EXCEPT ![t] = None]
  /\ UNCHANGED <<tenants, recorded, schemas, program, lookup, damaged, starts>>

-----------------------------------------------------------------------------
Onboarding(p) ==
  \/ \E t \in Tenant, n \in Name : Register(p, t, n)
  \/ Uncache(p) \/ Seed(p) \/ SeedFails(p) \/ DropSchema(p)

Migrating(p) ==
  \/ \E t \in Tenant, mode \in {"apply", "retry"} : StartRunner(p, t, mode)
  \/ CreateSchema(p) \/ Check(p) \/ Apply(p) \/ Record(p) \/ Fail(p)

Next ==
  \/ \E p \in Program : Onboarding(p) \/ Migrating(p) \/ Crash(p)
  \/ \E g \in Guarded : StoreSchema(g) \/ \E t \in Tenant : ReadSchema(g, t)
  \/ \E t \in Tenant : ExpireSchema(t)

Spec == Init /\ [][Next]_vars

-----------------------------------------------------------------------------
TypeOK ==
  /\ tenants \in [Tenant -> [name : Name, schema : Schema] \cup {None}]
  /\ recorded \in [Tenant -> [Migration -> {"none", "SUCCESS", "FAILED"}]]
  /\ schemas \in [Schema -> [exists : BOOLEAN, tables : SUBSET Migration, seeded : BOOLEAN]]
  /\ schemaOf \in [Tenant -> Schema \cup {None}]
  /\ program \in [Program ->
       [at : Steps, tenant : Tenant, schema : Schema, m : Migration, mode : {"onboard", "apply", "retry"}] \cup {Idle}]
  /\ lookup \in [Guarded -> [tenant : Tenant, schema : Schema] \cup {None}]
  /\ starts \in 0 .. MaxStarts
  /\ damaged \subseteq Tenant

\* However onboarding and runners overlap and wherever they stop, a migration is recorded
\* as SUCCESS only if the tenant's schema has its tables, as long as no schema of the
\* tenant was dropped and the tenant kept its name (saveMigrationStatus comes after COMMIT).
RecordedIsApplied ==
  \A t \in Tenant : tenants[t] # None /\ t \notin damaged =>
    {m \in Migration : recorded[t][m] = "SUCCESS"} \subseteq schemas[tenants[t].schema].tables

\* TenantGuard never works in another schema than the stored one, although a lookup may
\* be overtaken by an onboarding of its tenant and the cache is cleared before the end.
CachedSchemaIsStored ==
  \A t \in Tenant : schemaOf[t] # None => tenants[t] # None /\ schemaOf[t] = tenants[t].schema
==============================================================================
