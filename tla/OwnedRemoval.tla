---------------------------- MODULE OwnedRemoval ----------------------------
(***************************************************************************)
(* What a deployment may remove (tools/deployment/ownership-contract.mjs): *)
(* records of a deployment are turned into a sealed manifest of what it    *)
(* created, readings of the cloud are compared with the manifest and with  *)
(* the record of what was deleted, and one phase of removal is authorized  *)
(* when an approval was given for exactly that evidence.  The tool changes *)
(* nothing in the cloud: whoever deletes, restores, redeploys, approves    *)
(* and records is external.  A digest stands for the document it seals, so *)
(* two documents have one digest when they say the same of the same time.  *)
(***************************************************************************)
EXTENDS Naturals, FiniteSets

CONSTANTS
    Ids,        \* exact identifiers the records and the cloud may name
    Kind,       \* Ids -> Kinds
    Inside,     \* Ids -> the identifiers that are a prefix of it, itself one
    Scope,      \* role assignments -> the resource they are granted on
    Owner,      \* role assignments -> the resource whose identity holds them
    Home,       \* the deployment's resource group
    Inputs,     \* what the records handed to the generation may say
    FreshFor,   \* how long a reading is good for
    ApprovalLife, MaxReadings, Disturbances,
    None

Kinds == {"resource", "account", "function", "gateway", "vault", "grant", "application", "principal", "assignment"}
Lives == {"present", "soft-deleted", "purgeable", "absent"}
Phases == {"resource-delete", "entra-cleanup", "entra-purge", "apim-purge", "key-vault-purge"}
Recoverable == {"gateway", "vault", "application"}

ASSUME ShapeAssumption ==
    /\ Kind \in [Ids -> Kinds] /\ Inside \in [Ids -> SUBSET Ids] /\ Home \in Ids
    /\ \A id \in Ids : id \in Inside[id]
    /\ LET grants == {id \in Ids : Kind[id] = "grant"}
       IN  Scope \in [grants -> Ids] /\ Owner \in [grants -> Ids]
ASSUME LimitAssumption ==
    {FreshFor, ApprovalLife, MaxReadings, Disturbances} \subseteq Nat
\* The records name known identifiers; a receipt is given for what was made only.
ASSUME InputAssumption ==
    \A in \in Inputs :
        /\ in.listed \cup in.protected \cup in.made \subseteq Ids
        /\ in.receipts \subseteq in.made /\ in.observed \in Nat
\* A manifest is something.
ASSUME NoneAssumption ==
    None \notin [created : SUBSET Ids, spared : SUBSET Ids, protected : SUBSET Ids]

VARIABLES
    input,         \* the records about the deployment, until they are sealed
    cloud,         \* what is there under each identifier, and whose it is
    manifest,      \* what was sealed as created and as left alone
    deleted,       \* the state document: what is recorded as deleted
    readings,      \* the sealed readings at hand, with their age
    approval,      \* the approval at hand
    authorization, \* the last one issued, not yet carried out in full
    since,         \* how long ago an identifier was last there as this deployment's own,
                   \* and how long ago last to be purged, whoever's it was
    unrecorded,    \* what this deployment made that went and was not recorded as deleted
    disturbed      \* how often others interfered

removalVars == <<input, cloud, manifest, deleted, readings, approval, authorization, since,
                 unrecorded, disturbed>>

Later(age, limit) == IF age > limit THEN age ELSE age + 1

Watched == {"present", "purgeable"}
Seen(now, before) ==
    [id \in Ids |-> [life \in Watched |->
        IF now[id].life = life /\ (life = "present" => now[id].ours) THEN 0 ELSE before[id][life]]]

RemovalInit ==
    /\ input \in Inputs
    /\ cloud = [id \in Ids |-> [life |-> IF id \in input.there THEN "present" ELSE "absent",
                                ours |-> id \in input.made, same |-> TRUE]]
    /\ since = Seen(cloud, [id \in Ids |-> [life \in Watched |-> FreshFor + 1]])
    /\ manifest = None /\ approval = None /\ authorization = None
    /\ deleted = {} /\ readings = {} /\ unrecorded = input.made \ input.there /\ disturbed = 0
-----------------------------------------------------------------------------
(* Generation: ownership out of claims, receipts and a reading. *)

Covered(id, targets) == Inside[id] \cap targets # {}

CoveredByParentOnly(id, in) == id \in in.protected

\* A reused resource group protects itself, not what was created in it.
CreatedCovered(id, in) ==
    Covered(id, in.protected \ (IF Home \in in.preexisting /\ id # Home THEN {Home} ELSE {}))

Created(in) == in.listed \ (in.preexisting \cup in.external)

(* A grant on a protected account or vault may be owned if named exactly,  *)
(* is on that resource itself, and its holder was created here too.        *)
ExceptionsHold(in) ==
    \A g \in in.exceptions :
        /\ Kind[g] = "grant" /\ g \in Created(in)
        /\ Scope[g] \in in.protected /\ Kind[Scope[g]] \in {"account", "vault"}
        /\ Kind[Owner[g]] \in (IF Kind[Scope[g]] = "vault" THEN {"function"} ELSE {"function", "gateway"})
        /\ Owner[g] \in Created(in) /\ Owner[g] # Home /\ Home \in Inside[Owner[g]]
        /\ ~CreatedCovered(Owner[g], in)

Declared(in) == \A id \in in.preexisting : Covered(id, in.protected)

Claimed(in) == in.claims \cap in.external = {}

Receipted(in) ==
    /\ in.receipts \subseteq in.claims
    /\ in.claims \ in.preexisting \subseteq in.receipts

Confirmed(in) == in.listed = in.claims \cup in.external \cup in.preexisting

Sealable(in) ==
    /\ Declared(in) /\ Claimed(in) /\ Receipted(in) /\ Confirmed(in)
    /\ \A id \in Created(in) : CreatedCovered(id, in) => id \in in.exceptions
    /\ ExceptionsHold(in)
    /\ Home \in Created(in) \/ (Home \in in.preexisting /\ Covered(Home, in.protected))
    /\ (\E id \in Created(in) : Kind[id] = "vault") => in.guarded

Snapshot(ids, age) ==
    [life |-> [id \in ids |-> cloud[id].life], drifted |-> {id \in ids : ~cloud[id].same}, age |-> age]

(* Refused records are gathered again.  The bundle carries the reading the *)
(* records came with; a preview of it must be possible at once, so a       *)
(* reading past its time fails the call.                                   *)
Gather ==
    /\ manifest = None
    /\ input' \in {in \in Inputs : in.there = input.there /\ in.made = input.made}
    /\ UNCHANGED <<cloud, manifest, deleted, readings, approval, authorization, since, unrecorded, disturbed>>

Generate ==
    /\ manifest = None
    /\ Sealable(input) /\ input.observed <= FreshFor
    /\ manifest' = [created |-> Created(input), spared |-> input.preexisting \cup input.external,
                    protected |-> input.protected]
    /\ input' = None
    /\ readings' = {Snapshot(input.listed, input.observed)}
    /\ UNCHANGED <<cloud, deleted, approval, authorization, since, unrecorded, disturbed>>
-----------------------------------------------------------------------------
(* Preview, approval, authorization. *)

Inventory == manifest.created \cup manifest.spared

AgreesOnLosses(reading) ==
    /\ DOMAIN reading.life = Inventory
    /\ reading.drifted = {}
    /\ \A id \in Inventory : reading.life[id] # "present" => id \in deleted

Agrees(reading) ==
    /\ DOMAIN reading.life = Inventory
    /\ reading.drifted = {}
    /\ \A id \in Inventory : id \in deleted <=> reading.life[id] # "present"

PhaseKinds(phase) ==
    CASE phase = "resource-delete" -> {"resource", "account", "function", "gateway", "vault", "grant"}
      [] phase = "entra-cleanup"   -> {"application", "principal", "assignment"}
      [] phase = "entra-purge"     -> {"application"}
      [] phase = "apim-purge"      -> {"gateway"}
      [] phase = "key-vault-purge" -> {"vault"}

Needed(phase) == IF phase \in {"resource-delete", "entra-cleanup"} THEN "present" ELSE "purgeable"

\* What the reading calls created: an identifier the manifest does not know too.
Targets(reading, phase) ==
    {id \in DOMAIN reading.life \ manifest.spared :
        Kind[id] \in PhaseKinds(phase) /\ reading.life[id] = Needed(phase)}

Fresh(reading) == reading.age <= FreshFor

Pending(reading) ==
    {id \in DOMAIN reading.life \ manifest.spared :
        Kind[id] = "vault" /\ reading.life[id] = "soft-deleted"}

Previewed(reading) == [deleted |-> deleted, reading |-> reading]

(* Someone reads a preview that does not block and approves one phase of   *)
(* it, perhaps leaving one target out.  To approve one that blocks is of   *)
(* no use: the digest is of that very preview.                             *)
Approve(reading, phase) ==
    \E targets \in LET all == Targets(reading, phase) IN {all} \cup {all \ {id} : id \in all} :
        /\ targets # {} /\ Fresh(reading) /\ Agrees(reading)
        /\ approval' = [phase |-> phase, targets |-> targets,
                        evidence |-> Previewed(reading), age |-> 0]
        /\ UNCHANGED <<input, cloud, manifest, deleted, readings, authorization, since, unrecorded, disturbed>>

Answers(reading) ==
    /\ approval.age <= ApprovalLife
    /\ approval.evidence = Previewed(reading)
    /\ approval.targets = Targets(reading, approval.phase)
    /\ approval.phase = "key-vault-purge" => Pending(reading) = {}

Authorize(reading) ==
    /\ approval # None
    /\ Fresh(reading) /\ Agrees(reading) /\ Answers(reading)
    /\ authorization' = [phase |-> approval.phase, targets |-> approval.targets]
    /\ UNCHANGED <<input, cloud, manifest, deleted, readings, approval, since, unrecorded, disturbed>>
-----------------------------------------------------------------------------
(* What the operators, the cloud and others do. *)

Own(there) == there.ours /\ there.life = "present"

(* What is under an identifier changes, and the record of deletions may.    *)
Becomes(id, there, record) ==
    /\ cloud' = [cloud EXCEPT ![id] = there]
    /\ since' = Seen(cloud', since)
    /\ deleted' = record
    /\ unrecorded' = {i \in Ids \ record : ~Own(cloud'[i]) /\ (Own(cloud[i]) \/ i \in unrecorded)}

Gone(id) == IF Kind[id] \in Recoverable THEN "soft-deleted" ELSE "absent"

Deleted(id) == Becomes(id, [cloud[id] EXCEPT !.life = Gone(id)], deleted \cup {id})

Purged(id) == Becomes(id, [cloud[id] EXCEPT !.life = "absent"], deleted)

(* The operator lists the cloud, what the manifest does not know included. *)
Read ==
    /\ Cardinality(readings) < MaxReadings
    /\ readings' = readings \cup {Snapshot(Inventory \cup {id \in Ids : cloud[id].life # "absent"}, 0)}
    /\ UNCHANGED <<input, cloud, manifest, deleted, approval, authorization, since, unrecorded, disturbed>>

Discard ==
    \E r \in readings :
        /\ readings' = readings \ {r}
        /\ UNCHANGED <<input, cloud, manifest, deleted, approval, authorization, since, unrecorded, disturbed>>

(* One target is deleted and recorded, or purged, whatever is under its     *)
(* identifier by then; where the phase no longer applies nothing happens.   *)
Perform ==
    /\ authorization # None
    /\ \E id \in authorization.targets :
        /\ CASE cloud[id].life # Needed(authorization.phase) -> UNCHANGED <<cloud, since, deleted, unrecorded>>
             [] cloud[id].life = "present" -> Deleted(id)
             [] OTHER -> Purged(id)
        /\ authorization' = IF authorization.targets = {id} THEN None
                            ELSE [phase |-> authorization.phase, targets |-> authorization.targets \ {id}]
    /\ UNCHANGED <<input, manifest, readings, approval, disturbed>>

Disturb ==
    /\ disturbed < Disturbances
    /\ disturbed' = disturbed + 1
    /\ UNCHANGED <<input, manifest, readings, approval, authorization>>

(* Deleted by hand, and noted in the record or not. *)
Remove(id) ==
    /\ Disturb
    /\ id \in manifest.created /\ cloud[id].life = "present"
    /\ Deleted(id) \/ Becomes(id, [cloud[id] EXCEPT !.life = Gone(id)], deleted)

(* Recovered by whoever owns it, and taken off the record if that is us. *)
Restore(id) ==
    /\ Disturb
    /\ cloud[id].life = "soft-deleted"
    /\ Becomes(id, [cloud[id] EXCEPT !.life = "present"],
               IF cloud[id].ours THEN deleted \ {id} ELSE deleted)

(* What is gone is created anew, by this deployment or another, to the     *)
(* letter or not, or another puts something beside what is here.           *)
Redeploy(id) ==
    /\ Disturb
    /\ cloud[id].life = "absent"
    /\ \E ours, same \in BOOLEAN :
          /\ ours => id \in manifest.created
          /\ Becomes(id, [life |-> "present", ours |-> ours, same |-> same], deleted)

(* The retention of something deleted runs out: it may be purged. *)
Ripen(id) ==
    /\ cloud[id].life = "soft-deleted"
    /\ Becomes(id, [cloud[id] EXCEPT !.life = "purgeable"], deleted)
    /\ UNCHANGED <<input, manifest, readings, approval, authorization, disturbed>>

Aged(reading) ==
    [life |-> reading.life, drifted |-> reading.drifted, age |-> Later(reading.age, FreshFor)]

Elapse ==
    /\ readings' = {Aged(r) : r \in readings}
    /\ approval' = IF approval = None THEN None
                   ELSE [approval EXCEPT !.age = Later(@, ApprovalLife),
                                         !.evidence = [@ EXCEPT !.reading = Aged(@)]]
    /\ since' = Seen(cloud, [id \in Ids |-> [life \in Watched |-> Later(since[id][life], FreshFor)]])
    /\ UNCHANGED <<input, cloud, manifest, deleted, authorization, unrecorded, disturbed>>

RemovalNext ==
    \/ Gather \/ Generate
    \/ /\ manifest # None
       /\ \/ Read \/ Discard \/ Perform \/ Elapse
          \/ \E r \in readings : Authorize(r) \/ \E phase \in Phases : Approve(r, phase)
          \/ \E id \in Ids : Remove(id) \/ Restore(id) \/ Redeploy(id) \/ Ripen(id)

RemovalSpec == RemovalInit /\ [][RemovalNext]_removalVars
-----------------------------------------------------------------------------
Reading(r) ==
    /\ DOMAIN r.life \subseteq Ids /\ \A id \in DOMAIN r.life : r.life[id] \in Lives
    /\ r.drifted \subseteq DOMAIN r.life /\ r.age \in 0..FreshFor + 1

(* Documents are well formed and name known identifiers; nothing is sealed *)
(* both as created and as spared, and only what is sealed as created is    *)
(* ever authorized or recorded as deleted.                                 *)
RemovalTypeOK ==
    /\ input \in IF manifest = None THEN Inputs ELSE {None}
    /\ cloud \in [Ids -> [life : Lives, ours : BOOLEAN, same : BOOLEAN]]
    /\ manifest = None \/ (Inventory \cup manifest.protected \subseteq Ids
                            /\ manifest.created \cap manifest.spared = {})
    /\ deleted \subseteq IF manifest = None THEN {} ELSE manifest.created
    /\ \A r \in readings : Reading(r)
    /\ Cardinality(readings) <= MaxReadings
    /\ approval = None \/ ( /\ approval.phase \in Phases /\ approval.targets \subseteq Ids
                            /\ Reading(approval.evidence.reading) /\ approval.age \in 0..ApprovalLife + 1 )
    /\ authorization = None \/ (authorization.phase \in Phases /\ authorization.targets \subseteq manifest.created)
    /\ since \in [Ids -> [Watched -> 0..FreshFor + 1]] /\ unrecorded \subseteq Ids
    /\ disturbed \in 0..Disturbances

(* An authorization names only what was, within the time a reading is good *)
(* for, there in the state its phase asks for; and to be deleted, only     *)
(* what was there then as this deployment's own, however readings,         *)
(* approvals, deletions and redeployments interleave (createRemovalPreview, *)
(* validateApproval), with one exception: something of this deployment     *)
(* that went and was never recorded as deleted.  What another deployment   *)
(* then creates under its identifier to the letter reads as ours, since    *)
(* entryIdentity (434-442) leaves out who created it.  Of what is to be    *)
(* purged the evidence cannot tell whose it was: under an identifier whose *)
(* deletion is on record another deployment may have deleted its own.      *)
OnlyOursIsAuthorized ==
    [][(\E r \in readings : Authorize(r)) =>
            \A id \in authorization'.targets :
                \/ since[id][Needed(authorization'.phase)] <= FreshFor
                \/ Needed(authorization'.phase) = "present" /\ id \in unrecorded]_removalVars

\* The protected resources something created lies in; a reused resource group
\* protects itself only.
Shields(id) == (Inside[id] \cap manifest.protected) \ {g \in {Home} : g \in manifest.spared}

(* What is authorized lies in no protected resource, unless it is a role   *)
(* assignment on one, held by something the deployment made itself and     *)
(* that lies in none (validateProtectedRoleAssignmentExceptions).          *)
ProtectedIsSpared ==
    authorization # None =>
        \A id \in authorization.targets : Shields(id) # {} =>
            /\ Kind[id] = "grant" /\ Scope[id] \in manifest.protected
            /\ Owner[id] \in manifest.created /\ Shields(Owner[id]) = {}
=============================================================================
