-------------------------- MODULE TenantProvisioning --------------------------
(***************************************************************************)
(* TenantProvisioner.provision for overlapping signups that ask for the    *)
(* same name, await by await. Nothing else sets the status of a tenant:    *)
(* every admin route answers 500 (requireSuperAdmin reads a req.context    *)
(* that is not there), so no tenant is ever suspended or restored.         *)
(*                                                                         *)
(* A tenant is named after the signup that creates it, and a slug by the   *)
(* suffix that _generateSlug gives to the common name. The progress that   *)
(* _trackProgress keeps in Redis and the error that a failing step leaves  *)
(* in the record are left out: no code reads them.                         *)
(***************************************************************************)
EXTENDS Integers, FiniteSets

CONSTANTS
  Signups,
  MaxSuffix \* bound on the suffixes of _generateSlug

ASSUME ProvisioningAssumption == MaxSuffix \in Nat

VARIABLES
  status,   \* of the tenant's record; "none" before it exists
  slug,     \* of the tenant's record
  parts,    \* what has been set up for the tenant
  pro       \* signup -> where its provision call stands

tenantVars == <<status, slug, parts, pro>>

NoSlug == -1
Slugs == 0..MaxSuffix
Statuses == {"none", "provisioning", "active"}
Parts == {"roles", "owner", "ownerId", "config", "bucket"}
Steps == {"probe", "create", "roles", "owner", "ownerId", "config", "bucket",
          "activate", "done", "rejected"}

\* What an active tenant needs. The bucket may be missing: "non-fatal".
Required == Parts \ {"bucket"}

ProvisioningTypeOK ==
  /\ status \in [Signups -> Statuses]
  /\ slug \in [Signups -> Slugs \cup {NoSlug}]
  /\ parts \in [Signups -> SUBSET Parts]
  /\ pro \in [Signups -> [step : Steps, slug : Slugs]]

ProvisioningInit ==
  /\ status = [s \in Signups |-> "none"]
  /\ slug = [s \in Signups |-> NoSlug]
  /\ parts = [s \in Signups |-> {}]
  /\ pro = [s \in Signups |-> [step |-> "probe", slug |-> 0]]

-----------------------------------------------------------------------------

At(s, step) == pro[s].step = step
Goto(s, step) == pro' = [pro EXCEPT ![s].step = step]

Taken(x) == \E s \in Signups : slug[s] = x

\* _generateSlug: findOne({ slug })
Probe(s) ==
  /\ At(s, "probe")
  /\ IF Taken(pro[s].slug)
     THEN /\ pro[s].slug < MaxSuffix
          /\ pro' = [pro EXCEPT ![s].slug = @ + 1]
     ELSE Goto(s, "create")
  /\ UNCHANGED <<status, slug, parts>>

\* Mutant of Refused: no unique index on slug.
RefusedNever(s) == FALSE
\* Error 11000 of the unique index on slug: DuplicateSlugError
Refused(s) == Taken(pro[s].slug)

\* Tenant.create
Create(s) ==
  /\ At(s, "create")
  /\ IF Refused(s)
     THEN Goto(s, "rejected") /\ UNCHANGED <<status, slug>>
     ELSE /\ status' = [status EXCEPT ![s] = "provisioning"]
          /\ slug' = [slug EXCEPT ![s] = pro[s].slug]
          /\ Goto(s, "roles")
  /\ UNCHANGED <<parts>>

SetUp(s, part, next) ==
  /\ At(s, part)
  /\ parts' = [parts EXCEPT ![s] = @ \cup {part}]
  /\ Goto(s, next)
  /\ UNCHANGED <<status, slug>>

\* Role.insertMany of the system roles
SeedRoles(s) == SetUp(s, "roles", "owner")

\* User.create
CreateOwner(s) == SetUp(s, "owner", "ownerId")

\* tenant.save() of ownerId, the only path that has changed
LinkOwner(s) == SetUp(s, "ownerId", "config")

\* Mutant of CreateConfig: a failure is non-fatal, like the bucket's.
CreateConfigAnyway(s) ==
  \/ SetUp(s, "config", "bucket")
  \/ At(s, "config") /\ Goto(s, "bucket") /\ UNCHANGED <<status, slug, parts>>
\* TenantConfig.create
CreateConfig(s) == SetUp(s, "config", "bucket")

\* MinioService.ensureBucket, whose failure is only logged
MakeBucket(s) ==
  \/ SetUp(s, "bucket", "activate")
  \/ /\ At(s, "bucket")
     /\ Goto(s, "activate")
     /\ UNCHANGED <<status, slug, parts>>

\* tenant.save() of status. The tokens and the events that follow change nothing here.
Activate(s) ==
  /\ At(s, "activate")
  /\ status' = [status EXCEPT ![s] = "active"]
  /\ Goto(s, "done")
  /\ UNCHANGED <<slug, parts>>

\* An awaited call rejects, or the process dies. Nothing takes a provisioning
\* up again, and the record keeps its status.
Reject(s) ==
  /\ pro[s].step \notin {"done", "rejected"}
  /\ Goto(s, "rejected")
  /\ UNCHANGED <<status, slug, parts>>

Provision(s) ==
  \/ Probe(s) \/ Create(s) \/ SeedRoles(s) \/ CreateOwner(s) \/ LinkOwner(s)
  \/ CreateConfig(s) \/ MakeBucket(s) \/ Activate(s)

ProvisioningNext == \E s \in Signups : Provision(s) \/ Reject(s)

-----------------------------------------------------------------------------
(* Correctness.                                                            *)

\* "Generate a unique slug": signups that probe for the same name at the same
\* time never end up with the same slug (_generateSlug, Tenant.create and the
\* unique index behind it).
SlugsDistinct ==
  \A s, t \in Signups : slug[s] # NoSlug /\ slug[s] = slug[t] => s = t

\* A tenant that is let in has its roles, its owner and its configuration,
\* wherever its provisioning failed or its process died (provision).
ActiveIsComplete ==
  \A s \in Signups : status[s] = "active" => Required \subseteq parts[s]
=============================================================================
