--------------------------- MODULE TenantGateProofs ---------------------------
(***************************************************************************)
(* Signups and the gate in front of the tenants, for any numbers of        *)
(* signups and visitors, any bound on the suffixes and any lifetime of the *)
(* copies.                                                                 *)
(***************************************************************************)
EXTENDS TenantGate, TLAPS

USE ProvisioningAssumption, GateAssumption

-----------------------------------------------------------------------------
(* Provisioning.                                                           *)

\* What has been set up when provision is at a step
SetUpBefore(step) ==
  CASE step = "owner"   -> {"roles"}
    [] step = "ownerId" -> {"roles", "owner"}
    [] step = "config"  -> {"roles", "owner", "ownerId"}
    [] step \in {"bucket", "activate"} -> Required
    [] OTHER -> {}

\* Nothing of a tenant exists before its record does; slugs are distinct; and
\* what has been set up grows with the steps of provision.
ProvisioningInv ==
  /\ ProvisioningTypeOK
  /\ \A s \in Signups : pro[s].step \in {"probe", "create"} => status[s] = "none"
  /\ \A s \in Signups : SetUpBefore(pro[s].step) \subseteq parts[s]
  /\ SlugsDistinct
  /\ ActiveIsComplete

LEMMA ProvisioningInvInit == ProvisioningInit => ProvisioningInv
BY DEF ProvisioningInit, ProvisioningInv, ProvisioningTypeOK, SetUpBefore, SlugsDistinct,
       ActiveIsComplete, Statuses, Steps, Slugs, NoSlug

\* The calls that look for a slug and create the record with it
LEMMA RecordStepInv ==
  ASSUME ProvisioningInv, NEW s \in Signups, Probe(s) \/ Create(s)
  PROVE  ProvisioningInv'
<1> USE DEF ProvisioningInv, ProvisioningTypeOK, Steps, Statuses
<1>1. CASE Probe(s)
  <2>1. pro' \in [Signups -> [step : Steps, slug : Slugs]]
    BY <1>1 DEF Probe, Goto, Slugs
  <2>2. /\ pro'[s].step \in {"probe", "create"} /\ pro[s].step = "probe"
        /\ \A t \in Signups \ {s} : pro'[t] = pro[t]
    BY <1>1 DEF Probe, Goto, At
  <2>3. UNCHANGED <<status, slug, parts>>
    BY <1>1 DEF Probe
  <2> QED BY <2>1, <2>2, <2>3 DEF SetUpBefore, SlugsDistinct, ActiveIsComplete
<1>2. CASE Create(s)
  <2>1. /\ pro' \in [Signups -> [step : Steps, slug : Slugs]]
        /\ pro'[s].step \in {"roles", "rejected"}
        /\ \A t \in Signups \ {s} : pro'[t] = pro[t]
    BY <1>2 DEF Create, Goto
  <2>2. CASE UNCHANGED <<status, slug>>
    BY <1>2, <2>1, <2>2 DEF Create, SetUpBefore, SlugsDistinct, ActiveIsComplete
  <2>3. CASE ~ Refused(s)
    <3>1. /\ status' = [status EXCEPT ![s] = "provisioning"]
          /\ slug' = [slug EXCEPT ![s] = pro[s].slug]
          /\ \A t \in Signups : slug[t] # pro[s].slug
          /\ UNCHANGED parts
      BY <1>2, <2>3 DEF Create, Refused, Taken
    <3>2. SlugsDistinct'
      BY <3>1 DEF SlugsDistinct
    <3> QED BY <2>1, <3>1, <3>2 DEF SetUpBefore, ActiveIsComplete
  <2> QED BY <1>2, <2>2, <2>3 DEF Create
<1> QED BY <1>1, <1>2

\* One part more is set up.
LEMMA SetUpInv ==
  ASSUME ProvisioningInv, NEW s \in Signups, NEW part \in Parts, NEW next \in Steps,
         SetUp(s, part, next), next \notin {"probe", "create"},
         SetUpBefore(next) \subseteq SetUpBefore(part) \cup {part}
  PROVE  ProvisioningInv'
<1> USE DEF ProvisioningInv, ProvisioningTypeOK
<1>1. /\ pro' \in [Signups -> [step : Steps, slug : Slugs]]
      /\ pro[s].step = part /\ pro'[s].step = next
      /\ \A t \in Signups \ {s} : pro'[t] = pro[t]
  BY DEF SetUp, Goto, At
<1>2. /\ parts' \in [Signups -> SUBSET Parts]
      /\ parts'[s] = parts[s] \cup {part}
      /\ \A t \in Signups \ {s} : parts'[t] = parts[t]
      /\ UNCHANGED <<status, slug>>
  BY DEF SetUp
<1>3. \A t \in Signups : SetUpBefore(pro'[t].step) \subseteq parts'[t]
  BY <1>1, <1>2
<1> QED BY <1>1, <1>2, <1>3 DEF SlugsDistinct, ActiveIsComplete

LEMMA ProvisionInv ==
  ASSUME ProvisioningInv, NEW s \in Signups, Provision(s)
  PROVE  ProvisioningInv'
<1>1. CASE Probe(s) \/ Create(s)
  BY <1>1, RecordStepInv
<1>2. CASE SeedRoles(s)
  BY <1>2, SetUpInv DEF SeedRoles, SetUpBefore, Parts, Steps
<1>3. CASE CreateOwner(s)
  BY <1>3, SetUpInv DEF CreateOwner, SetUpBefore, Parts, Steps
<1>4. CASE LinkOwner(s)
  BY <1>4, SetUpInv DEF LinkOwner, SetUpBefore, Parts, Steps
<1>5. CASE CreateConfig(s)
  BY <1>5, SetUpInv DEF CreateConfig, SetUpBefore, Parts, Steps, Required
<1>6. CASE SetUp(s, "bucket", "activate")
  BY <1>6, SetUpInv DEF SetUpBefore, Parts, Steps
<1>7. CASE At(s, "bucket") /\ Goto(s, "activate") /\ UNCHANGED <<status, slug, parts>>
  BY <1>7 DEF At, Goto, ProvisioningInv, ProvisioningTypeOK, Steps, SetUpBefore,
              SlugsDistinct, ActiveIsComplete
<1>8. CASE Activate(s)
  <2>1. Required \subseteq parts[s]
    BY <1>8 DEF Activate, At, ProvisioningInv, SetUpBefore
  <2> QED BY <1>8, <2>1 DEF Activate, Goto, At, ProvisioningInv, ProvisioningTypeOK, Steps, Statuses,
                            SetUpBefore, SlugsDistinct, ActiveIsComplete
<1> QED BY <1>1, <1>2, <1>3, <1>4, <1>5, <1>6, <1>7, <1>8 DEF Provision, MakeBucket

LEMMA RejectInv ==
  ASSUME ProvisioningInv, NEW s \in Signups, Reject(s)
  PROVE  ProvisioningInv'
BY DEF Reject, Goto, ProvisioningInv, ProvisioningTypeOK, Steps, SetUpBefore, SlugsDistinct,
       ActiveIsComplete

LEMMA ProvisioningInvStep ==
  ASSUME ProvisioningInv, ProvisioningNext \/ UNCHANGED tenantVars
  PROVE  ProvisioningInv'
<1>1. CASE ProvisioningNext
  BY <1>1, ProvisionInv, RejectInv DEF ProvisioningNext
<1>2. CASE UNCHANGED tenantVars
  BY <1>2 DEF tenantVars, ProvisioningInv, ProvisioningTypeOK, SlugsDistinct, ActiveIsComplete
<1> QED BY <1>1, <1>2

-----------------------------------------------------------------------------
(* The gate.                                                               *)

GateTypeOK ==
  /\ copies \in [Signups \X Keys -> Copy \cup {NoCopy}]
  /\ visit \in [Visitors -> Visit \cup {Away}]
  /\ quiet \in [Signups -> 0..GateTTL]

\* While a request that has found an older status is under way, quiet stays 0;
\* the copy it then sets has less time left than quiet still needs to reach
\* GateTTL.
LateVisits ==
  \A v \in Visitors : visit[v] # Away /\ visit[v].status # status[visit[v].tenant] =>
    quiet[visit[v].tenant] = 0
LateCopies ==
  \A s \in Signups, k \in Keys :
    copies[<<s, k>>] # NoCopy /\ copies[<<s, k>>].status # status[s] =>
      copies[<<s, k>>].ttl + quiet[s] <= GateTTL

GateInv == GateTypeOK /\ LateVisits /\ LateCopies /\ GateFollows

LEMMA GateInvInit == Init => GateInv
<1> SUFFICES ASSUME Init PROVE GateInv
  OBVIOUS
<1> USE DEF Init
<1>1. GateTypeOK
  BY DEF GateTypeOK
<1>2. LateVisits
  BY DEF LateVisits
<1>3. LateCopies
  BY DEF LateCopies
<1> QED BY <1>1, <1>2, <1>3 DEF GateInv, GateFollows

\* Whoever is judged by an old status is judged while quiet is still short of
\* GateTTL.
LEMMA HitInv ==
  ASSUME GateInv, NEW s \in Signups, NEW k \in Keys, Hit(s, k)
  PROVE  GateInv'
<1> USE DEF GateInv
<1>1. /\ copies[<<s, k>>] \in Copy
      /\ UNCHANGED <<status, copies, visit, quiet>>
  BY DEF Hit, GateTypeOK, tenantVars
<1>2. copies[<<s, k>>].ttl \in 1..GateTTL /\ quiet[s] \in 0..GateTTL
  BY <1>1 DEF Copy, GateTypeOK
<1>3. copies[<<s, k>>].status # status[s] => quiet[s] # GateTTL
  BY <1>2 DEF Hit, LateCopies
<1>4. GateFollows'
  BY <1>3 DEF Hit, Judge, LetsIn, GateFollows
<1> QED BY <1>1, <1>4 DEF GateTypeOK, LateVisits, LateCopies

LEMMA FindInv ==
  ASSUME GateInv, NEW v \in Visitors, NEW s \in Signups, NEW k \in Keys, Find(v, s, k),
         ProvisioningTypeOK
  PROVE  GateInv'
<1> USE DEF GateInv
<1> DEFINE found == [tenant |-> s, key |-> k, status |-> status[s]]
<1>1. found \in Visit
  BY DEF Find, Visit, ProvisioningTypeOK
<1>2. /\ visit'[v] = found /\ \A w \in Visitors \ {v} : visit'[w] = visit[w]
      /\ visit' \in [Visitors -> Visit \cup {Away}]
      /\ UNCHANGED <<status, copies, quiet, misjudged>>
  BY <1>1 DEF Find, GateTypeOK, tenantVars
<1> QED BY <1>2 DEF GateTypeOK, LateVisits, LateCopies, GateFollows

LEMMA PassInv ==
  ASSUME GateInv, NEW v \in Visitors, Pass(v)
  PROVE  GateInv'
<1> USE DEF GateInv
<1> DEFINE s == visit[v].tenant
           k == visit[v].key
           copy == [status |-> visit[v].status, ttl |-> GateTTL]
<1>1. /\ s \in Signups /\ k \in Keys /\ copy \in Copy
      /\ visit[v] # Away
  BY DEF Pass, GateTypeOK, Visit, Copy
<1>2. visit[v].status # status[s] => quiet[s] = 0
  BY <1>1 DEF LateVisits
<1>3. /\ visit' \in [Visitors -> Visit \cup {Away}]
      /\ visit'[v] = Away /\ \A w \in Visitors \ {v} : visit'[w] = visit[w]
      /\ UNCHANGED <<status, quiet>>
  BY DEF Pass, GateTypeOK, tenantVars
<1>4. GateFollows'
  BY <1>2 DEF Pass, Judge, LetsIn, GateFollows
<1>5. /\ copies' \in [Signups \X Keys -> Copy \cup {NoCopy}]
      /\ \A c \in Signups \X Keys :
           copies'[c] = copies[c] \/ (c = <<s, k>> /\ copies'[c] = copy)
  BY <1>1 DEF Pass, GateTypeOK
<1>6. LateCopies'
  <2> SUFFICES ASSUME NEW t \in Signups, NEW l \in Keys,
                      copies'[<<t, l>>] # NoCopy, copies'[<<t, l>>].status # status[t]
               PROVE  copies'[<<t, l>>].ttl + quiet[t] <= GateTTL
    BY <1>3 DEF LateCopies
  <2>1. CASE copies'[<<t, l>>] = copies[<<t, l>>]
    BY <2>1 DEF LateCopies
  <2>2. CASE t = s /\ copies'[<<t, l>>] = copy
    BY <1>2, <2>2
  <2> QED BY <1>5, <2>1, <2>2
<1> QED BY <1>3, <1>4, <1>5, <1>6 DEF GateTypeOK, LateVisits

LEMMA ProvisionedInv ==
  ASSUME GateInv, Provisioned
  PROVE  GateInv'
<1> USE DEF GateInv
<1>1. /\ quiet' = [s \in Signups |-> IF status'[s] = status[s] THEN quiet[s] ELSE 0]
      /\ UNCHANGED <<copies, visit, misjudged>>
  BY DEF Provisioned
<1>2. GateTypeOK'
  BY <1>1 DEF GateTypeOK
<1>3. LateVisits'
  <2> SUFFICES ASSUME NEW v \in Visitors, visit[v] # Away,
                      visit[v].status # status'[visit[v].tenant]
               PROVE  quiet'[visit[v].tenant] = 0
    BY <1>1 DEF LateVisits
  <2>1. visit[v].tenant \in Signups
    BY DEF GateTypeOK, Visit
  <2> QED BY <1>1, <2>1 DEF LateVisits
<1>4. LateCopies'
  <2> SUFFICES ASSUME NEW s \in Signups, NEW k \in Keys,
                      copies[<<s, k>>] # NoCopy, copies[<<s, k>>].status # status'[s]
               PROVE  copies[<<s, k>>].ttl + quiet'[s] <= GateTTL
    BY <1>1 DEF LateCopies
  <2>1. copies[<<s, k>>].ttl \in 1..GateTTL
    BY DEF GateTypeOK, Copy
  <2> QED BY <1>1, <2>1 DEF LateCopies
<1> QED BY <1>1, <1>2, <1>3, <1>4 DEF GateFollows

LEMMA TickInv ==
  ASSUME GateInv, Tick
  PROVE  GateInv'
<1> USE DEF GateInv
<1>1. /\ copies' = [c \in Signups \X Keys |-> Aged(copies[c])]
      /\ quiet' = [s \in Signups |-> IF Outdated(s) \/ status[s] = "none" THEN 0
                                     ELSE IF quiet[s] = GateTTL THEN GateTTL ELSE quiet[s] + 1]
      /\ UNCHANGED <<status, visit, misjudged>>
  BY DEF Tick, tenantVars
<1>2. ASSUME NEW c \in Signups \X Keys
      PROVE  \/ Aged(copies[c]) = NoCopy
             \/ /\ Aged(copies[c]) \in Copy /\ copies[c] # NoCopy
                /\ Aged(copies[c]).status = copies[c].status
                /\ copies[c].ttl \in Nat /\ Aged(copies[c]).ttl = copies[c].ttl - 1
  BY DEF GateTypeOK, Aged, Copy, NoCopy
<1>3. copies' \in [Signups \X Keys -> Copy \cup {NoCopy}]
  BY <1>1, <1>2
<1>4. quiet' \in [Signups -> 0..GateTTL]
  <2> SUFFICES ASSUME NEW s \in Signups PROVE quiet'[s] \in 0..GateTTL
    BY <1>1
  <2>1. quiet[s] \in 0..GateTTL
    BY DEF GateTypeOK
  <2>2. quiet'[s] \in {0, GateTTL} \/ (quiet[s] # GateTTL /\ quiet'[s] = quiet[s] + 1)
    BY <1>1
  <2> QED BY <2>1, <2>2
<1>5. LateVisits'
  <2> SUFFICES ASSUME NEW v \in Visitors, visit[v] # Away,
                      visit[v].status # status[visit[v].tenant]
               PROVE  quiet'[visit[v].tenant] = 0
    BY <1>1 DEF LateVisits
  <2>1. visit[v].tenant \in Signups
    BY DEF GateTypeOK, Visit
  <2> QED BY <1>1, <2>1 DEF Outdated
<1>6. LateCopies'
  <2> SUFFICES ASSUME NEW s \in Signups, NEW k \in Keys,
                      copies'[<<s, k>>] # NoCopy, copies'[<<s, k>>].status # status[s]
               PROVE  copies'[<<s, k>>].ttl + quiet'[s] <= GateTTL
    BY <1>1 DEF LateCopies
  <2>1. /\ copies[<<s, k>>] # NoCopy /\ copies[<<s, k>>].status # status[s]
        /\ copies[<<s, k>>].ttl \in Nat /\ copies'[<<s, k>>].ttl = copies[<<s, k>>].ttl - 1
    BY <1>1, <1>2
  <2>2. copies[<<s, k>>].ttl + quiet[s] <= GateTTL
    BY <2>1 DEF LateCopies
  <2>3. quiet[s] \in 0..GateTTL /\ quiet'[s] \in 0..GateTTL /\ quiet'[s] <= quiet[s] + 1
    BY <1>1, SMTT(30) DEF GateTypeOK
  <2> QED BY <2>1, <2>2, <2>3
<1> QED BY <1>1, <1>3, <1>4, <1>5, <1>6 DEF GateTypeOK, GateFollows

-----------------------------------------------------------------------------
(* The inductive invariant.                                                *)

IInv == ProvisioningInv /\ GateInv

LEMMA Invariance == Spec => []IInv
<1>1. Init => IInv
  BY ProvisioningInvInit, GateInvInit DEF Init, IInv
<1>2. IInv /\ [Next]_vars => IInv'
  <2> SUFFICES ASSUME IInv, [Next]_vars PROVE IInv'
    OBVIOUS
  <2>1. ProvisioningInv'
    BY ProvisioningInvStep DEF IInv, Next, vars, Provisioned, Tick, Hit, Find, Pass
  <2>2. ProvisioningTypeOK
    BY DEF IInv, ProvisioningInv
  <2>3. GateInv
    BY DEF IInv
  <2>4. ASSUME UNCHANGED vars PROVE GateInv'
    <3>1. UNCHANGED <<status, copies, visit, quiet, misjudged>>
      BY <2>4 DEF vars, tenantVars, gateVars
    <3> QED BY <2>3, <3>1 DEF GateInv, GateTypeOK, LateVisits, LateCopies, GateFollows
  <2>5. ASSUME Next PROVE GateInv'
    <3>1. CASE Provisioned \/ Tick
      BY <2>3, <3>1, ProvisionedInv, TickInv
    <3>2. CASE \E s \in Signups, k \in Keys : Hit(s, k) \/ \E v \in Visitors : Find(v, s, k)
      BY <2>2, <2>3, <3>2, HitInv, FindInv
    <3>3. CASE \E v \in Visitors : Pass(v)
      BY <2>3, <3>3, PassInv
    <3> QED BY <2>5, <3>1, <3>2, <3>3 DEF Next
  <2> QED BY <2>1, <2>4, <2>5 DEF IInv
<1> QED BY <1>1, <1>2, PTL DEF Spec

\* Tenants, copies and requests keep their types.
THEOREM GateTypeCorrect == Spec => []TypeOK
<1>1. IInv => TypeOK
  BY DEF IInv, ProvisioningInv, GateInv, GateTypeOK, GateFollows, TypeOK
<1> QED BY <1>1, Invariance, PTL

\* However many signups ask for one name at once, no two tenants share a slug.
THEOREM SlugsStayDistinct == Spec => []SlugsDistinct
<1>1. IInv => SlugsDistinct BY DEF IInv, ProvisioningInv
<1> QED BY <1>1, Invariance, PTL

\* A tenant that is let in is complete, however many signups fail half-way.
THEOREM ActiveStaysComplete == Spec => []ActiveIsComplete
<1>1. IInv => ActiveIsComplete BY DEF IInv, ProvisioningInv
<1> QED BY <1>1, Invariance, PTL

\* The gate follows a change of status within the lifetime of a copy, however
\* many requests overlap with the change.
THEOREM GateKeepsUp == Spec => []GateFollows
<1>1. IInv => GateFollows BY DEF IInv, GateInv
<1> QED BY <1>1, Invariance, PTL
=============================================================================
