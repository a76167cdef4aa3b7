--------------------------- MODULE ComponentProofs ---------------------------
(***************************************************************************)
(* The properties of four components that stand on their own, for every    *)
(* value of their constants: what a removal may touch (OwnedRemoval), whom *)
(* the gateway admits and for how long (PrincipalAdmission), what one      *)
(* revision may become (RevisionLifecycle), and what a stored roster       *)
(* claims and the screen shows of it (DirectoryReading, RosterScreen).     *)
(***************************************************************************)
EXTENDS OwnedRemoval, PrincipalAdmission, RevisionLifecycle, LifecycleTheorems,
        RosterScreen, FiniteSetTheorems

(***************************************************************************)
(* OwnedRemoval: only ours, and nothing protected, is authorized.          *)
(***************************************************************************)
(* Until a manifest is sealed the cloud is as the records have it, what is *)
(* gone of it is unrecorded, and nothing was read or authorized.           *)
Unsealed ==
    manifest = None =>
        /\ input \in Inputs
        /\ \A id \in Ids : /\ cloud[id].ours <=> id \in input.made
                           /\ id \in input.made => Own(cloud[id]) \/ id \in unrecorded
        /\ readings = {} /\ authorization = None

(* What was sealed as created was made here, and is spared by what is      *)
(* protected but for a named grant.                                        *)
Sealed ==
    manifest # None =>
        /\ manifest.created \subseteq Ids /\ manifest.created \cap manifest.spared = {}
        /\ \A id \in manifest.created : Shields(id) # {} =>
              /\ Kind[id] = "grant" /\ Scope[id] \in manifest.protected
              /\ Owner[id] \in manifest.created /\ Shields(Owner[id]) = {}

(* What was created and does not stand there as ours is on record as       *)
(* deleted, or went unrecorded.                                            *)
LossesAreKnown ==
    manifest # None => \A id \in manifest.created : Own(cloud[id]) \/ id \in deleted \cup unrecorded

(* A reading is no younger than what it says: something it has as present  *)
(* was ours then, unless it is somebody else's and ours has been on record *)
(* or missing ever since.                                                  *)
Witnessed(r) ==
    /\ r.age \in Nat
    /\ \A id \in DOMAIN r.life \cap manifest.created :
          /\ r.life[id] = "purgeable" => since[id]["purgeable"] <= r.age
          /\ r.life[id] = "present" =>
                \/ since[id]["present"] <= r.age
                \/ id \in deleted \cup unrecorded /\ ~Own(cloud[id])

(* What stands there now was last there now. *)
SinceIsNow ==
    \A id \in Ids, life \in Watched :
        cloud[id].life = life /\ (life = "present" => cloud[id].ours) => since[id][life] = 0

AuthorizedIsCreated ==
    authorization # None => manifest # None /\ authorization.targets \subseteq manifest.created

There == [life : Lives, ours : BOOLEAN, same : BOOLEAN]
Clouds == [Ids -> There]
Histories == [Ids -> [Watched -> Nat]]

RemovalInv ==
    /\ cloud \in Clouds /\ since \in Histories /\ SinceIsNow
    /\ Unsealed /\ Sealed /\ LossesAreKnown /\ AuthorizedIsCreated
    /\ \A r \in readings : Witnessed(r)

\* Seeing what is there resets what it sees and nothing else.
LEMMA SeenKeeps ==
    ASSUME NEW seen \in Clouds, NEW before \in Histories
    PROVE  /\ Seen(seen, before) \in Histories
           /\ \A id \in Ids, life \in Watched :
                 /\ Seen(seen, before)[id][life] <= before[id][life]
                 /\ seen[id].life = life /\ (life = "present" => seen[id].ours)
                       => Seen(seen, before)[id][life] = 0
                 /\ Seen(seen, before)[id][life] \in {0, before[id][life]}
  <1>1. \A id \in Ids, life \in Watched : before[id][life] \in Nat
    BY DEF Histories
  <1>2. \A id \in Ids, life \in Watched :
          Seen(seen, before)[id][life] =
            IF seen[id].life = life /\ (life = "present" => seen[id].ours) THEN 0 ELSE before[id][life]
    BY DEF Seen
  <1>3. Seen(seen, before) \in Histories
    BY <1>1 DEF Seen, Histories
  <1>4. QED
    BY <1>1, <1>2, <1>3

LEMMA RemovalStarts == RemovalInit => RemovalInv
  <1> SUFFICES ASSUME RemovalInit PROVE RemovalInv
    OBVIOUS
  <1>1. cloud \in Clouds
    BY DEF RemovalInit, Clouds, There, Lives
  <1>2. [id \in Ids |-> [life \in Watched |-> FreshFor + 1]] \in Histories
    BY LimitAssumption DEF Histories
  <1>3. since \in Histories /\ SinceIsNow
    BY <1>1, <1>2, SeenKeeps DEF RemovalInit, SinceIsNow
  <1>4. Unsealed
    <2>1. \A id \in Ids : /\ cloud[id].ours <=> id \in input.made
                          /\ id \in input.made /\ id \in input.there => cloud[id].life = "present"
      BY DEF RemovalInit
    <2>2. QED
      BY <2>1 DEF RemovalInit, Unsealed, Own
  <1>5. manifest = None /\ authorization = None /\ readings = {}
    BY DEF RemovalInit
  <1>6. QED
    BY <1>1, <1>3, <1>4, <1>5 DEF RemovalInv, Sealed, LossesAreKnown, AuthorizedIsCreated

\* What is sealed as created has a receipt, and so was made.
LEMMA CreatedWasMade ==
    ASSUME NEW in \in Inputs, Sealable(in)
    PROVE  /\ Created(in) \subseteq in.made /\ Created(in) \subseteq Ids
           /\ in.listed \subseteq Ids
           /\ Created(in) \cap (in.preexisting \cup in.external) = {}
  BY InputAssumption DEF Sealable, Confirmed, Receipted, Created

LEMMA RemovalGather ==
    ASSUME RemovalInv, Gather
    PROVE  RemovalInv'
  <1>1. Unsealed'
    <2>1. /\ input \in Inputs
          /\ \A id \in Ids : /\ cloud[id].ours <=> id \in input.made
                             /\ id \in input.made => Own(cloud[id]) \/ id \in unrecorded
      BY DEF RemovalInv, Unsealed, Gather
    <2>2. QED
      BY <2>1 DEF RemovalInv, Unsealed, Gather
  <1>2. readings = {} /\ readings' = {} /\ manifest' = None /\ authorization' = None
    BY DEF RemovalInv, Unsealed, Gather
  <1>3. cloud' \in Clouds /\ since' \in Histories /\ SinceIsNow'
    BY DEF RemovalInv, Gather, SinceIsNow
  <1>4. QED
    BY <1>1, <1>2, <1>3 DEF RemovalInv, Sealed, LossesAreKnown, AuthorizedIsCreated

LEMMA RemovalGenerate ==
    ASSUME RemovalInv, Generate
    PROVE  RemovalInv'
  <1>1. input \in Inputs /\ Sealable(input)
    BY DEF RemovalInv, Unsealed, Generate
  <1>2. /\ \A id \in Created(input) : Own(cloud[id]) \/ id \in unrecorded
        /\ Created(input) \subseteq Ids /\ input.listed \subseteq Ids
        /\ Created(input) \cap (input.preexisting \cup input.external) = {}
    BY <1>1, CreatedWasMade DEF RemovalInv, Unsealed, Generate
  <1>3. /\ manifest' # None
        /\ manifest'.created = Created(input) /\ manifest'.protected = input.protected
        /\ manifest'.spared = input.preexisting \cup input.external
    <2>1. input.protected \subseteq Ids /\ input.preexisting \cup input.external \subseteq Ids
      BY <1>1, InputAssumption DEF Sealable, Confirmed
    <2>2. manifest' \in [created : SUBSET Ids, spared : SUBSET Ids, protected : SUBSET Ids]
      BY <1>2, <2>1 DEF Generate
    <2>3. manifest' # None
      BY <2>2, NoneAssumption
    <2>4. QED
      BY <2>3 DEF Generate
  <1>4. Sealed'
    <2>1. ASSUME NEW id \in Created(input), Shields(id)' # {}
          PROVE  CreatedCovered(id, input)
      BY <1>2, <1>3, <2>1 DEF Shields, CreatedCovered, Covered
    <2>2. ASSUME NEW id \in Created(input), Shields(id)' # {}
          PROVE  /\ Kind[id] = "grant" /\ Scope[id] \in input.protected
                 /\ Owner[id] \in Created(input) /\ ~CreatedCovered(Owner[id], input)
      BY <1>1, <2>1, <2>2 DEF Sealable, ExceptionsHold
    <2>3. QED
      BY <1>2, <1>3, <2>1, <2>2 DEF Sealed
  <1>5. LossesAreKnown'
    BY <1>2, <1>3 DEF LossesAreKnown, Generate
  <1>6. ASSUME NEW r \in readings'
        PROVE  Witnessed(r)'
    <2>1. /\ r.age = input.observed /\ DOMAIN r.life = input.listed
          /\ \A id \in input.listed : r.life[id] = cloud[id].life
      BY <1>6 DEF Generate, Snapshot
    <2>2. r.age \in Nat
      BY <1>1, <2>1, InputAssumption
    <2>3. cloud' = cloud /\ since' = since
      BY DEF Generate
    <2>4. \A id \in Created(input) :
            /\ cloud[id].life = "purgeable" => since[id]["purgeable"] = 0
            /\ cloud[id].life = "present" => since[id]["present"] = 0 \/ (id \in unrecorded /\ ~Own(cloud[id]))
      BY <1>2 DEF RemovalInv, SinceIsNow, Watched, Own
    <2>5. unrecorded' = unrecorded
      BY DEF Generate
    <2>6. QED
      BY <1>2, <1>3, <2>1, <2>2, <2>3, <2>4, <2>5 DEF Witnessed
  <1>7. cloud' \in Clouds /\ since' \in Histories /\ SinceIsNow'
    BY DEF RemovalInv, Generate, SinceIsNow
  <1>8. AuthorizedIsCreated' /\ Unsealed'
    BY <1>3 DEF AuthorizedIsCreated, Unsealed, RemovalInv, Generate
  <1>9. QED
    BY <1>4, <1>5, <1>6, <1>7, <1>8 DEF RemovalInv

(* What an approval, a reading or the discarding of one leaves alone. *)
LEMMA RemovalReading ==
    ASSUME RemovalInv, manifest # None,
           UNCHANGED <<input, cloud, since, unrecorded, manifest, deleted, authorization>>,
           \A r \in readings' : r \in readings \/ Witnessed(r)
    PROVE  RemovalInv'
  <1>1. \A r \in readings' : Witnessed(r)'
    BY DEF RemovalInv, Witnessed
  <1>2. QED
    BY <1>1 DEF RemovalInv, SinceIsNow, Unsealed, Sealed, LossesAreKnown, AuthorizedIsCreated, Shields

LEMMA RemovalRead ==
    ASSUME RemovalInv, manifest # None, Read
    PROVE  RemovalInv'
  <1> DEFINE ids == Inventory \cup {id \in Ids : cloud[id].life # "absent"}
  <1>1. ASSUME NEW r \in readings', r \notin readings
        PROVE  r = Snapshot(ids, 0)
    BY <1>1 DEF Read
  <1>2. ASSUME NEW r \in readings', r \notin readings
        PROVE  Witnessed(r)
    <2>1. r.age = 0 /\ \A id \in DOMAIN r.life : r.life[id] = cloud[id].life
      <3>1. r = [life |-> [id \in ids |-> cloud[id].life], drifted |-> {id \in ids : ~cloud[id].same}, age |-> 0]
        BY <1>1, <1>2 DEF Snapshot
      <3> HIDE DEF ids
      <3>2. r.age = 0 /\ r.life = [id \in ids |-> cloud[id].life]
        BY <3>1
      <3>3. QED
        BY <3>2
    <2>2. ASSUME NEW id \in manifest.created
          PROVE  /\ cloud[id].life = "purgeable" => since[id]["purgeable"] = 0
                 /\ cloud[id].life = "present" =>
                       \/ since[id]["present"] = 0
                       \/ id \in deleted \cup unrecorded /\ ~Own(cloud[id])
      BY DEF RemovalInv, Sealed, LossesAreKnown, SinceIsNow, Watched, Own
    <2>3. QED
      BY <2>1, <2>2 DEF Witnessed
  <1>3. QED
    BY <1>2, RemovalReading DEF Read

LEMMA RemovalAuthorize ==
    ASSUME RemovalInv, manifest # None, NEW reading \in readings, Authorize(reading)
    PROVE  /\ RemovalInv'
           /\ \A id \in authorization'.targets :
                 \/ since[id][Needed(authorization'.phase)] <= FreshFor
                 \/ Needed(authorization'.phase) = "present" /\ id \in unrecorded
  <1>1. /\ authorization' = [phase |-> approval.phase, targets |-> approval.targets]
        /\ approval.targets = Targets(reading, approval.phase)
        /\ DOMAIN reading.life = manifest.created \cup manifest.spared
        /\ \A id \in DOMAIN reading.life : id \in deleted <=> reading.life[id] # "present"
        /\ reading.age <= FreshFor
    BY DEF Authorize, Answers, Agrees, Inventory, Fresh
  <1>2. approval.targets \subseteq manifest.created
    BY <1>1 DEF Targets
  <1>3. ASSUME NEW id \in approval.targets
        PROVE  \/ since[id][Needed(approval.phase)] <= FreshFor
               \/ Needed(approval.phase) = "present" /\ id \in unrecorded
    <2>1. id \in manifest.created /\ id \in DOMAIN reading.life /\ id \in Ids
      BY <1>1, <1>2 DEF RemovalInv, Sealed
    <2>2. reading.life[id] = Needed(approval.phase)
      BY <1>1 DEF Targets
    <2>3. Witnessed(reading)
      BY DEF RemovalInv
    <2>4. /\ since[id]["present"] \in Nat /\ since[id]["purgeable"] \in Nat
          /\ FreshFor \in Nat /\ reading.age \in Nat
      BY <2>1, <2>3, LimitAssumption DEF RemovalInv, Histories, Watched, Witnessed
    <2>5. CASE Needed(approval.phase) = "present"
      BY <1>1, <2>1, <2>2, <2>3, <2>4, <2>5 DEF Witnessed
    <2>6. CASE Needed(approval.phase) = "purgeable"
      BY <1>1, <2>1, <2>2, <2>3, <2>4, <2>6 DEF Witnessed
    <2>7. QED
      BY <2>5, <2>6 DEF Needed
  <1>4. \A r \in readings' : Witnessed(r)'
    BY DEF RemovalInv, Witnessed, Authorize
  <1>5. UNCHANGED <<cloud, since, unrecorded, manifest, deleted, readings>>
    BY DEF Authorize
  <1>6. AuthorizedIsCreated'
    BY <1>1, <1>2, <1>5 DEF AuthorizedIsCreated
  <1>7. RemovalInv'
    BY <1>4, <1>5, <1>6 DEF RemovalInv, SinceIsNow, Unsealed, Sealed, LossesAreKnown, Shields
  <1>8. QED
    BY <1>1, <1>3, <1>7

(* Whatever happens to one identifier: what comes off the record stands    *)
(* there as ours again.                                                    *)
LEMMA RemovalBecomes ==
    ASSUME RemovalInv, manifest # None, NEW id \in Ids, NEW there \in There, NEW record,
           Becomes(id, there, record),
           UNCHANGED <<manifest, readings>>,
           \A other \in deleted : other \in record \/ (other = id /\ Own(there)),
           AuthorizedIsCreated'
    PROVE  RemovalInv'
  <1>1. /\ cloud' \in Clouds
        /\ cloud'[id] = there
        /\ \A other \in Ids : other # id => cloud'[other] = cloud[other]
        /\ deleted' = record
        /\ \A other \in Ids \ record :
              other \in unrecorded' <=> ~Own(cloud'[other]) /\ (Own(cloud[other]) \/ other \in unrecorded)
    BY DEF Becomes, RemovalInv, Clouds
  <1>2. /\ since' \in Histories
        /\ SinceIsNow'
        /\ \A other \in Ids, life \in Watched : since'[other][life] <= since[other][life]
    <2>1. since' = Seen(cloud', since) /\ since \in Histories
      BY DEF Becomes, RemovalInv
    <2>2. QED
      BY <1>1, <2>1, SeenKeeps DEF SinceIsNow
  <1>3. \A other \in Ids, life \in Watched : since'[other][life] \in Nat /\ since[other][life] \in Nat
    BY <1>2 DEF RemovalInv, Histories
  <1>4. Sealed' /\ Unsealed'
    BY DEF RemovalInv, Sealed, Unsealed, Shields
  <1>5. manifest.created \subseteq Ids
    BY DEF RemovalInv, Sealed
  <1>6. LossesAreKnown'
    <2> SUFFICES ASSUME NEW other \in manifest.created
                 PROVE  Own(cloud'[other]) \/ other \in deleted' \cup unrecorded'
      BY DEF LossesAreKnown
    <2>1. Own(cloud[other]) \/ other \in deleted \cup unrecorded
      BY DEF RemovalInv, LossesAreKnown
    <2>2. QED
      BY <2>1, <1>1, <1>5
  <1>7. ASSUME NEW r \in readings
        PROVE  Witnessed(r)'
    <2>1. Witnessed(r)
      BY DEF RemovalInv
    <2>2. ASSUME NEW other \in DOMAIN r.life \cap manifest.created, r.life[other] = "purgeable"
          PROVE  since'[other]["purgeable"] <= r.age
      <3>1. since[other]["purgeable"] <= r.age /\ r.age \in Nat
        BY <2>1, <2>2 DEF Witnessed
      <3>2. /\ since'[other]["purgeable"] \in Nat /\ since[other]["purgeable"] \in Nat
            /\ since'[other]["purgeable"] <= since[other]["purgeable"]
        BY <1>2, <1>3, <1>5 DEF Watched
      <3>3. QED
        BY <3>1, <3>2
    <2>3. ASSUME NEW other \in DOMAIN r.life \cap manifest.created, r.life[other] = "present"
          PROVE  \/ since'[other]["present"] <= r.age
                 \/ other \in deleted' \cup unrecorded' /\ ~Own(cloud'[other])
      <3>1. /\ \/ since[other]["present"] <= r.age
               \/ other \in deleted \cup unrecorded /\ ~Own(cloud[other])
            /\ r.age \in Nat
        BY <2>1, <2>3 DEF Witnessed
      <3>2. /\ since'[other]["present"] \in Nat /\ since[other]["present"] \in Nat
            /\ since'[other]["present"] <= since[other]["present"]
        BY <1>2, <1>3, <1>5 DEF Watched
      <3>3. CASE since[other]["present"] <= r.age
        BY <3>1, <3>2, <3>3
      <3>4. CASE other \in deleted \cup unrecorded /\ ~Own(cloud[other])
        <4>1. CASE Own(cloud'[other])
          <5>1. since'[other]["present"] = 0
            BY <1>2, <1>5, <4>1 DEF SinceIsNow, Watched, Own
          <5>2. QED
            BY <3>1, <5>1
        <4>2. CASE ~Own(cloud'[other])
          BY <3>4, <4>2, <1>1, <1>5
        <4>3. QED
          BY <4>1, <4>2
      <3>5. QED
        BY <3>1, <3>3, <3>4
    <2>4. QED
      BY <2>1, <2>2, <2>3 DEF Witnessed
  <1>8. QED
    BY <1>1, <1>2, <1>4, <1>6, <1>7 DEF RemovalInv

LEMMA RemovalActs ==
    ASSUME RemovalInv, manifest # None,
           Perform \/ \E id \in Ids : Remove(id) \/ Restore(id) \/ Redeploy(id) \/ Ripen(id)
    PROVE  RemovalInv'
  <1>1. manifest.created \subseteq Ids
    BY DEF RemovalInv, Sealed
  <1>2. \A id \in Ids : cloud[id] \in There
    BY DEF RemovalInv, Clouds
  <1>3. ASSUME NEW id \in Ids, NEW life \in Lives
        PROVE  /\ [cloud[id] EXCEPT !.life = life] \in There
               /\ [cloud[id] EXCEPT !.life = life].ours = cloud[id].ours
               /\ [cloud[id] EXCEPT !.life = life].life = life
    BY <1>2 DEF There
  <1>4. ASSUME NEW id \in Ids, NEW there \in There, NEW record, Becomes(id, there, record),
               deleted \subseteq record, UNCHANGED <<manifest, readings>>, AuthorizedIsCreated'
        PROVE  RemovalInv'
    BY <1>4, RemovalBecomes
  <1>5. \A id \in Ids : Gone(id) \in Lives /\ {"present", "absent", "purgeable"} \subseteq Lives
    BY DEF Gone, Lives
  <1>6. CASE Perform
    <2>1. /\ authorization # None
          /\ UNCHANGED <<manifest, readings, input>>
          /\ authorization.targets \subseteq manifest.created
      BY <1>6 DEF Perform, RemovalInv, AuthorizedIsCreated
    <2>2. PICK id \in authorization.targets :
            /\ CASE cloud[id].life # Needed(authorization.phase) -> UNCHANGED <<cloud, since, deleted, unrecorded>>
                 [] cloud[id].life = "present" -> Deleted(id)
                 [] OTHER -> Purged(id)
            /\ authorization' = IF authorization.targets = {id} THEN None
                   ELSE [phase |-> authorization.phase, targets |-> authorization.targets \ {id}]
      BY <1>6 DEF Perform
    <2>3. id \in Ids /\ AuthorizedIsCreated'
      BY <1>1, <2>1, <2>2 DEF AuthorizedIsCreated
    <2>4. CASE UNCHANGED <<cloud, since, deleted, unrecorded>>
      BY <2>1, <2>3, <2>4 DEF RemovalInv, Unsealed, Sealed, SinceIsNow, LossesAreKnown, Shields, Witnessed
    <2>5. CASE Deleted(id)
      <3>1. Becomes(id, [cloud[id] EXCEPT !.life = Gone(id)], deleted \cup {id})
        BY <2>5 DEF Deleted
      <3>2. QED
        BY <1>3, <1>4, <1>5, <2>1, <2>3, <3>1
    <2>6. CASE Purged(id)
      <3>1. Becomes(id, [cloud[id] EXCEPT !.life = "absent"], deleted)
        BY <2>6 DEF Purged
      <3>2. QED
        BY <1>3, <1>4, <1>5, <2>1, <2>3, <3>1
    <2>7. QED
      BY <2>2, <2>4, <2>5, <2>6
  <1>7. ASSUME NEW id \in Ids, Remove(id) \/ Restore(id) \/ Redeploy(id) \/ Ripen(id)
        PROVE  RemovalInv'
    <2>1. UNCHANGED <<input, manifest, readings, authorization>> /\ AuthorizedIsCreated'
      BY <1>7 DEF Remove, Restore, Redeploy, Ripen, Disturb, RemovalInv, AuthorizedIsCreated
    <2>2. CASE Remove(id)
      <3>1. PICK record \in {deleted, deleted \cup {id}} :
              Becomes(id, [cloud[id] EXCEPT !.life = Gone(id)], record)
        BY <2>2 DEF Remove, Deleted
      <3>2. QED
        BY <1>3, <1>4, <1>5, <2>1, <3>1
    <2>3. CASE Restore(id)
      <3> DEFINE there == [cloud[id] EXCEPT !.life = "present"]
                 record == IF cloud[id].ours THEN deleted \ {id} ELSE deleted
      <3>1. Becomes(id, there, record)
        BY <2>3 DEF Restore
      <3>2. there \in There /\ there.ours = cloud[id].ours /\ there.life = "present"
        BY <1>3, <1>5
      <3>3. cloud[id].ours => Own(there)
        BY <3>2 DEF Own
      <3>4. \A other \in deleted : other \in record \/ (other = id /\ Own(there))
        BY <3>3
      <3> HIDE DEF there, record
      <3>5. QED
        BY <2>1, <3>1, <3>2, <3>4, RemovalBecomes
    <2>4. CASE Redeploy(id)
      <3>1. PICK ours \in BOOLEAN, same \in BOOLEAN :
              Becomes(id, [life |-> "present", ours |-> ours, same |-> same], deleted)
        BY <2>4 DEF Redeploy
      <3>2. [life |-> "present", ours |-> ours, same |-> same] \in There
        BY DEF There, Lives
      <3>3. QED
        BY <1>4, <2>1, <3>1, <3>2
    <2>5. CASE Ripen(id)
      <3>1. Becomes(id, [cloud[id] EXCEPT !.life = "purgeable"], deleted)
        BY <2>5 DEF Ripen
      <3>2. QED
        BY <1>3, <1>4, <1>5, <2>1, <3>1
    <2>6. QED
      BY <1>7, <2>2, <2>3, <2>4, <2>5
  <1>8. QED
    BY <1>6, <1>7

\* Readings and the history grow old together, up to the same age.
LEMMA LaterKeeps ==
    ASSUME NEW n \in Nat, NEW age \in Nat, n <= age
    PROVE  Later(n, FreshFor) <= Later(age, FreshFor) /\ Later(age, FreshFor) \in Nat
  BY LimitAssumption DEF Later

LEMMA RemovalElapse ==
    ASSUME RemovalInv, manifest # None, Elapse
    PROVE  RemovalInv'
  <1> DEFINE before == [id \in Ids |-> [life \in Watched |-> Later(since[id][life], FreshFor)]]
  <1>1. /\ UNCHANGED <<input, cloud, manifest, deleted, unrecorded, authorization>>
        /\ since' = Seen(cloud, before)
        /\ readings' = {Aged(r) : r \in readings}
    BY DEF Elapse
  <1>2. \A id \in Ids, life \in Watched :
          since[id][life] \in Nat /\ before[id][life] = Later(since[id][life], FreshFor)
    BY DEF RemovalInv, Histories
  <1>3. before \in Histories
    BY <1>2, LaterKeeps DEF Histories
  <1> HIDE DEF before
  <1>4. /\ since' \in Histories /\ SinceIsNow'
        /\ \A id \in Ids, life \in Watched : since'[id][life] <= before[id][life] /\ since'[id][life] \in Nat
    BY <1>1, <1>3, SeenKeeps DEF RemovalInv, SinceIsNow, Histories
  <1>5. ASSUME NEW id \in Ids, NEW life \in Watched, NEW age \in Nat, since[id][life] <= age
        PROVE  since'[id][life] <= Later(age, FreshFor)
    <2>1. /\ before[id][life] \in Nat /\ before[id][life] <= Later(age, FreshFor)
          /\ Later(age, FreshFor) \in Nat
      BY <1>2, <1>5, <1>3, LaterKeeps DEF Histories
    <2>2. QED
      BY <1>4, <2>1
  <1>6. manifest.created \subseteq Ids
    BY DEF RemovalInv, Sealed
  <1>7. ASSUME NEW r \in readings
        PROVE  Witnessed(Aged(r))'
    <2>1. /\ r.age \in Nat
          /\ \A id \in DOMAIN r.life \cap manifest.created :
                /\ r.life[id] = "purgeable" => since[id]["purgeable"] <= r.age
                /\ r.life[id] = "present" =>
                      \/ since[id]["present"] <= r.age
                      \/ id \in deleted \cup unrecorded /\ ~Own(cloud[id])
      BY DEF RemovalInv, Witnessed
    <2>2. Aged(r).life = r.life /\ Aged(r).age = Later(r.age, FreshFor) /\ Later(r.age, FreshFor) \in Nat
      BY <2>1, LaterKeeps DEF Aged
    <2>3. \A id \in DOMAIN r.life \cap manifest.created :
            /\ r.life[id] = "purgeable" => since'[id]["purgeable"] <= Later(r.age, FreshFor)
            /\ r.life[id] = "present" =>
                  \/ since'[id]["present"] <= Later(r.age, FreshFor)
                  \/ id \in deleted \cup unrecorded /\ ~Own(cloud[id])
      BY <1>5, <1>6, <2>1 DEF Watched
    <2>4. Aged(r)' = Aged(r)
      OBVIOUS
    <2>5. QED
      BY <1>1, <2>2, <2>3 DEF Witnessed
  <1>8. QED
    BY <1>1, <1>4, <1>7 DEF RemovalInv, Unsealed, Sealed, LossesAreKnown, AuthorizedIsCreated, Shields

LEMMA RemovalStep == RemovalInv /\ [RemovalNext]_removalVars => RemovalInv'
  <1> SUFFICES ASSUME RemovalInv, [RemovalNext]_removalVars
               PROVE  RemovalInv'
    OBVIOUS
  <1>1. CASE Gather \/ Generate
    BY <1>1, RemovalGather, RemovalGenerate
  <1>2. CASE UNCHANGED removalVars
    BY <1>2 DEF removalVars, RemovalInv, Unsealed, Sealed, SinceIsNow, LossesAreKnown,
                AuthorizedIsCreated, Shields, Witnessed
  <1>3. ASSUME manifest # None, Read \/ Discard \/ \E r \in readings, phase \in Phases : Approve(r, phase)
        PROVE  RemovalInv'
    <2>1. CASE Read
      BY <1>3, <2>1, RemovalRead
    <2>2. CASE Discard
      BY <1>3, <2>2, RemovalReading DEF Discard
    <2>3. CASE \E r \in readings, phase \in Phases : Approve(r, phase)
      BY <1>3, <2>3, RemovalReading DEF Approve
    <2>4. QED
      BY <1>3, <2>1, <2>2, <2>3
  <1>4. ASSUME manifest # None, NEW r \in readings, Authorize(r)
        PROVE  RemovalInv'
    BY <1>4, RemovalAuthorize
  <1>5. QED
    BY <1>1, <1>2, <1>3, <1>4, RemovalActs, RemovalElapse DEF RemovalNext

THEOREM RemovalInvariant == RemovalSpec => []RemovalInv
  BY RemovalStarts, RemovalStep, PTL DEF RemovalSpec

(* What is authorized lies in no protected resource, but for a grant on    *)
(* one that something the deployment made holds (ProtectedIsSpared), in    *)
(* every deployment whose receipts are honest.                             *)
THEOREM RemovalSpares == RemovalSpec => []ProtectedIsSpared
  <1>1. RemovalInv => ProtectedIsSpared
    BY DEF RemovalInv, AuthorizedIsCreated, Sealed, ProtectedIsSpared
  <1>2. QED
    BY <1>1, RemovalInvariant, PTL

(* Only what was there in time, and as this deployment's own or in the     *)
(* place of something of its own that went unrecorded if it is to be       *)
(* deleted, is authorized (OnlyOursIsAuthorized).                          *)
THEOREM RemovalIsOurs == RemovalSpec => OnlyOursIsAuthorized
  <1>1. RemovalInv /\ [RemovalNext]_removalVars =>
          [(\E r \in readings : Authorize(r)) =>
             \A id \in authorization'.targets :
                \/ since[id][Needed(authorization'.phase)] <= FreshFor
                \/ Needed(authorization'.phase) = "present" /\ id \in unrecorded]_removalVars
    <2> SUFFICES ASSUME RemovalInv, NEW r \in readings, Authorize(r)
                 PROVE  \A id \in authorization'.targets :
                          \/ since[id][Needed(authorization'.phase)] <= FreshFor
                          \/ Needed(authorization'.phase) = "present" /\ id \in unrecorded
      OBVIOUS
    <2>1. manifest # None
      BY DEF RemovalInv, Unsealed
    <2>2. QED
      BY <2>1, RemovalAuthorize
  <1>2. QED
    BY <1>1, RemovalInvariant, PTL DEF RemovalSpec, OnlyOursIsAuthorized

-----------------------------------------------------------------------------
(***************************************************************************)
(* PrincipalAdmission: a document and a refusal rest on what the source said. *)
(***************************************************************************)
\* Where the groups are those of the caller's token, they are as old as it.
FromToken == source = "directory-claim" /\ kind = "user"
Back == IF FromToken THEN TokenLife - 1 ELSE 0

\* A lookup in which no group is entitled looks alike whether the caller is in none or
\* a token listed none of too many: what it rests on is the later of the two.
sinceNone == IF sinceOut <= sinceUnlisted THEN sinceOut ELSE sinceUnlisted

\* What was taken for groups that are entitled, or for groups none of which is, the
\* source said so long ago at most, or listed none of too many.
SaidWithin(groups, time) ==
    /\ groups \intersect Entitled # {} => sinceIn <= time
    /\ groups \intersect Entitled = {} => sinceNone <= time

\* What a lookup carries was said no longer before it was asked than Back.
Grounded(l) ==
    /\ l.stage = "sent" /\ FromToken => SaidWithin(l.claims, Back + l.age)
    /\ l.stage = "enquiring" => ~FromToken
    /\ l.stage \in {"evidenced", "established"} /\ l.evidence.status # "source-unavailable" =>
          SaidWithin(l.evidence.groups, Back + l.age)
    /\ l.stage = "answered" =>
          /\ l.verdict = "document" => sinceIn <= Back + l.age
          /\ l.verdict = "refused" => sinceNone <= Back + l.age

HistoryIsNow ==
    /\ PutsIn(standing, roster) => sinceIn = 0
    /\ PutsOut(standing, roster) \/ Unlisted(standing) => sinceNone = 0

AdmissionInv ==
    /\ TypeOK
    /\ ~exists => standing = {}
    /\ ~roster.published => roster.groups = {}
    /\ HistoryIsNow
    /\ FromToken => \A t \in tokens : SaidWithin(t.groups, t.age)
    /\ \A s \in Slot : Grounded(lookup[s])
    /\ cached < Ttl => sinceIn <= Behind + cached

\* The kinds of lookup, one per stage.
SentLookup == [stage : {"sent"}, age : 0..Timeout, claims : SUBSET Group]
EnquiringLookup == [stage : {"enquiring"}, age : 0..Timeout, credential : Nat, left : Nat]
GatheredLookup == [stage : {"evidenced", "established"}, age : 0..Timeout, credential : Nat, evidence : Evidence]
AnsweredLookup == [stage : {"answered"}, age : 0..Timeout, verdict : {"document", "refused", "unavailable"}]

\* A lookup is of the kind its stage says.
LEMMA LookupKinds ==
    ASSUME NEW l \in Lookup
    PROVE  /\ l = Idle => l.stage = "idle"
           /\ l.stage = "idle" => l = Idle
           /\ l.stage = "sent" => l \in SentLookup
           /\ l.stage = "enquiring" => l \in EnquiringLookup
           /\ l.stage \in {"evidenced", "established"} => l \in GatheredLookup
           /\ l.stage = "answered" => l \in AnsweredLookup
           /\ l # Idle => l.age \in 0..Timeout
           /\ l.stage \in {"idle", "sent", "enquiring", "evidenced", "established", "answered"}
  <1>1. l \in {Idle} \union SentLookup \union EnquiringLookup \union GatheredLookup \union AnsweredLookup
    BY DEF Lookup, SentLookup, EnquiringLookup, GatheredLookup, AnsweredLookup
  <1>2. CASE l = Idle
    BY <1>2 DEF Idle
  <1>3. CASE l \in SentLookup
    BY <1>3 DEF SentLookup, Idle
  <1>4. CASE l \in EnquiringLookup
    BY <1>4 DEF EnquiringLookup, Idle
  <1>5. CASE l \in GatheredLookup
    BY <1>5 DEF GatheredLookup, Idle
  <1>6. CASE l \in AnsweredLookup
    BY <1>6 DEF AnsweredLookup, Idle
  <1>7. QED
    BY <1>1, <1>2, <1>3, <1>4, <1>5, <1>6

LEMMA KindsAreLookups ==
    /\ Idle \in Lookup /\ SentLookup \subseteq Lookup /\ EnquiringLookup \subseteq Lookup
    /\ GatheredLookup \subseteq Lookup /\ AnsweredLookup \subseteq Lookup
  BY DEF Lookup, SentLookup, EnquiringLookup, GatheredLookup, AnsweredLookup

\* Evidence of one status or another.
LEMMA EvidenceType ==
    /\ \A groups \in SUBSET Group, left \in Nat :
          /\ Mapped(groups, left) \in Evidence
          /\ Mapped(groups, left).groups = groups
          /\ Mapped(groups, left).left = left
          /\ Mapped(groups, left).status \in Strict
    /\ \A status \in {"unmapped", "source-unavailable"} :
          /\ Degraded(status) \in Evidence
          /\ Degraded(status).status = status /\ Degraded(status).groups = {}
          /\ status \notin Strict
    /\ \A e \in Evidence :
          /\ e.groups \in SUBSET Group /\ e.left \in Nat
          /\ e.status \in Strict \union {"unmapped", "source-unavailable"}
          /\ \A left \in Nat : /\ [e EXCEPT !.left = left] \in Evidence
                              /\ [e EXCEPT !.left = left].groups = e.groups
                              /\ [e EXCEPT !.left = left].status = e.status
  <1>1. ASSUME NEW groups \in SUBSET Group, NEW left \in Nat
        PROVE  /\ Mapped(groups, left) \in Evidence
               /\ Mapped(groups, left).groups = groups
               /\ Mapped(groups, left).left = left
               /\ Mapped(groups, left).status \in Strict
    <2>1. CASE groups = {}
      BY <2>1 DEF Mapped, Evidence, Strict
    <2>2. CASE groups # {}
      <3>1. Mapped(groups, left) = [status |-> "complete", groups |-> groups, left |-> left]
        BY <2>2, Zenon DEF Mapped
      <3>2. groups \in (SUBSET Group) \ {{}}
        BY <2>2, Zenon
      <3>3. [status |-> "complete", groups |-> groups, left |-> left]
              \in [status : {"complete"}, groups : (SUBSET Group) \ {{}}, left : Nat]
        BY <3>2
      <3>4. QED
        BY <3>1, <3>3 DEF Evidence, Strict
    <2>3. QED
      BY <2>1, <2>2
  <1>2. ASSUME NEW status \in {"unmapped", "source-unavailable"}
        PROVE  /\ Degraded(status) \in Evidence
               /\ Degraded(status).status = status /\ Degraded(status).groups = {}
               /\ status \notin Strict
    BY DEF Degraded, Evidence, Strict
  <1>3. ASSUME NEW e \in Evidence
        PROVE  /\ e.groups \in SUBSET Group /\ e.left \in Nat
               /\ e.status \in Strict \union {"unmapped", "source-unavailable"}
               /\ \A left \in Nat : /\ [e EXCEPT !.left = left] \in Evidence
                                   /\ [e EXCEPT !.left = left].groups = e.groups
                                   /\ [e EXCEPT !.left = left].status = e.status
    <2>1. CASE e \in [status : {"complete"}, groups : (SUBSET Group) \ {{}}, left : Nat]
      BY <2>1 DEF Evidence, Strict
    <2>2. CASE e \in [status : {"empty-complete", "unmapped", "source-unavailable"}, groups : {{}}, left : Nat]
      BY <2>2 DEF Evidence, Strict
    <2>3. QED
      BY <2>1, <2>2 DEF Evidence
  <1>4. QED
    BY <1>1, <1>2, <1>3

\* What a moment's history says of the moment, and by how much it ages.
LEMMA RememberSays ==
    ASSUME NEW elapsed \in BOOLEAN, Remember(elapsed), UNCHANGED deployment,
           sinceIn \in 0..Long, sinceOut \in 0..Long, sinceUnlisted \in 0..Long
    PROVE  /\ sinceIn' \in 0..Long /\ sinceOut' \in 0..Long /\ sinceUnlisted' \in 0..Long
           /\ sinceNone' \in 0..Long /\ HistoryIsNow'
           /\ elapsed => sinceIn' <= sinceIn + 1 /\ sinceNone' <= sinceNone + 1
           /\ ~elapsed => sinceIn' <= sinceIn /\ sinceNone' <= sinceNone
  <1>1. Long \in Nat
    BY LifeAssumption DEF Long
  <1>2. /\ sinceIn' = IF PutsIn(standing', roster') THEN 0 ELSE IF elapsed THEN More(sinceIn) ELSE sinceIn
        /\ sinceOut' = IF PutsOut(standing', roster') THEN 0 ELSE IF elapsed THEN More(sinceOut) ELSE sinceOut
        /\ sinceUnlisted' = IF Unlisted(standing') THEN 0
                            ELSE IF elapsed THEN More(sinceUnlisted) ELSE sinceUnlisted
    BY DEF Remember
  <1>3. \A n \in 0..Long : More(n) \in 0..Long /\ More(n) <= n + 1
    BY <1>1 DEF More
  <1>4. /\ PutsIn(standing, roster)' <=> PutsIn(standing', roster')
        /\ PutsOut(standing, roster)' <=> PutsOut(standing', roster')
        /\ Unlisted(standing)' <=> Unlisted(standing')
    BY DEF PutsIn, PutsOut, Unlisted, deployment
  <1>5. /\ sinceIn' \in 0..Long /\ sinceOut' \in 0..Long /\ sinceUnlisted' \in 0..Long
        /\ elapsed => sinceIn' <= sinceIn + 1 /\ sinceOut' <= sinceOut + 1 /\ sinceUnlisted' <= sinceUnlisted + 1
        /\ ~elapsed => sinceIn' <= sinceIn /\ sinceOut' <= sinceOut /\ sinceUnlisted' <= sinceUnlisted
    BY <1>1, <1>2, <1>3
  <1>6. /\ sinceNone' \in 0..Long
        /\ elapsed => sinceNone' <= sinceNone + 1
        /\ ~elapsed => sinceNone' <= sinceNone
    BY <1>1, <1>5 DEF sinceNone
  <1>7. HistoryIsNow'
    BY <1>1, <1>2, <1>4, <1>5 DEF HistoryIsNow, sinceNone
  <1>8. QED
    BY <1>5, <1>6, <1>7

LEMMA BackType == Back \in Nat /\ Behind = Back + Timeout /\ Ttl \in Nat /\ Timeout \in Nat
  BY LifeAssumption DEF Back, Behind, FromToken

LEMMA HistoryType == TypeOK => sinceIn \in Nat /\ sinceNone \in Nat /\ Long \in Nat
  BY LifeAssumption DEF TypeOK, Long, sinceNone

LEMMA AdmissionStarts == Init => AdmissionInv
  <1> SUFFICES ASSUME Init PROVE AdmissionInv
    OBVIOUS
  <1>1. Long \in Nat /\ 0 \in 0..RosterAge /\ Ttl \in 0..Ttl
    BY LifeAssumption DEF Long
  <1>2. TypeOK
    <2>1. lookup \in [Slot -> Lookup]
      BY KindsAreLookups DEF Init
    <2>2. sinceIn \in 0..Long /\ sinceOut \in 0..Long /\ sinceUnlisted \in 0..Long
      BY <1>1 DEF Init
    <2>3. roster \in [published : BOOLEAN, groups : SUBSET Group, left : 0..RosterAge]
      BY <1>1 DEF Init
    <2>4. QED
      BY <1>1, <2>1, <2>2, <2>3 DEF Init, TypeOK, Token
  <1>3. HistoryIsNow
    BY <1>1 DEF Init, HistoryIsNow, sinceNone
  <1>4. \A s \in Slot : Grounded(lookup[s])
    BY DEF Init, Grounded, Idle
  <1>5. /\ ~exists => standing = {}
        /\ roster.groups = {} /\ tokens = {} /\ cached = Ttl
    BY DEF Init
  <1>6. QED
    BY <1>1, <1>2, <1>3, <1>4, <1>5 DEF AdmissionInv

(* A step that only takes one lookup somewhere. *)
LEMMA LookupMoves ==
    ASSUME AdmissionInv, NEW s \in Slot, NEW l \in Lookup, Grounded(l),
           lookup' = [lookup EXCEPT ![s] = l],
           UNCHANGED <<deployment, directory, tokens, roster, cached, history>>
    PROVE  AdmissionInv'
  <1>1. TypeOK'
    BY DEF AdmissionInv, TypeOK, deployment, directory, history
  <1>2. \A other \in Slot : Grounded(lookup'[other])
    BY DEF AdmissionInv, TypeOK
  <1>3. UNCHANGED <<kind, source, exists, standing, sinceIn, sinceOut, sinceUnlisted, sinceNone, tokens, roster, cached>>
    BY DEF deployment, directory, history, sinceNone
  <1>4. \A other \in Slot : Grounded(lookup[other])'
    BY <1>2, <1>3 DEF Grounded, SaidWithin, Back, FromToken
  <1>5. QED
    BY <1>1, <1>3, <1>4 DEF AdmissionInv, HistoryIsNow, PutsIn, PutsOut, Unlisted, sinceNone, SaidWithin, FromToken, Behind

(* What lookups and tokens are founded on stays said as time passes, or    *)
(* does not: the history ages by no more than they do.                     *)
LEMMA GroundsStay ==
    ASSUME AdmissionInv, UNCHANGED <<kind, source>>, NEW d \in {0, 1},
           sinceIn' \in Nat, sinceNone' \in Nat, sinceIn' <= sinceIn + d, sinceNone' <= sinceNone + d,
           NEW l \in Lookup, Grounded(l), NEW m,
           l = Idle => m = Idle,
           l # Idle => /\ m.stage = l.stage /\ m.age = l.age + d
                       /\ l.stage = "sent" => m.claims = l.claims
                       /\ l.stage = "answered" => m.verdict = l.verdict
                       /\ l.stage \in {"evidenced", "established"} =>
                            m.evidence.groups = l.evidence.groups /\ m.evidence.status = l.evidence.status
    PROVE  Grounded(m)'
  <1>1. Back' = Back /\ (FromToken' <=> FromToken)
    BY DEF Back, FromToken
  <1>2. sinceIn \in Nat /\ sinceNone \in Nat /\ Back \in Nat
    BY HistoryType, BackType DEF AdmissionInv
  <1>3. CASE l = Idle
    BY <1>3 DEF Idle, Grounded
  <1>4. CASE l # Idle
    <2>1. l.age \in Nat
      BY <1>4, LookupKinds, BackType
    <2> DEFINE time == Back + l.age
               later == Back + m.age
    <2>2. time \in Nat /\ later = time + d
      BY <1>2, <1>4, <2>1
    <2> HIDE DEF time, later
    <2>3. ASSUME NEW groups, SaidWithin(groups, time)
          PROVE  /\ groups \intersect Entitled # {} => sinceIn' <= later
                 /\ groups \intersect Entitled = {} => sinceNone' <= later
      BY <1>2, <2>2, <2>3 DEF SaidWithin
    <2>4. sinceIn <= time => sinceIn' <= later
      BY <1>2, <2>2
    <2>5. sinceNone <= time => sinceNone' <= later
      BY <1>2, <2>2
    <2>6. /\ m.stage = "sent" /\ FromToken => SaidWithin(m.claims, time)
          /\ m.stage \in {"evidenced", "established"} /\ m.evidence.status # "source-unavailable" =>
                SaidWithin(m.evidence.groups, time)
          /\ m.stage = "answered" => /\ m.verdict = "document" => sinceIn <= time
                                     /\ m.verdict = "refused" => sinceNone <= time
      <3>1. /\ l.stage = "sent" /\ FromToken => SaidWithin(l.claims, time)
            /\ l.stage \in {"evidenced", "established"} /\ l.evidence.status # "source-unavailable" =>
                  SaidWithin(l.evidence.groups, time)
            /\ l.stage = "answered" => /\ l.verdict = "document" => sinceIn <= time
                                       /\ l.verdict = "refused" => sinceNone <= time
        BY DEF Grounded, time
      <3>2. QED
        BY <1>4, <3>1
    <2>7. /\ m.stage = "sent" /\ FromToken =>
               /\ m.claims \intersect Entitled # {} => sinceIn' <= later
               /\ m.claims \intersect Entitled = {} => sinceNone' <= later
          /\ m.stage \in {"evidenced", "established"} /\ m.evidence.status # "source-unavailable" =>
               /\ m.evidence.groups \intersect Entitled # {} => sinceIn' <= later
               /\ m.evidence.groups \intersect Entitled = {} => sinceNone' <= later
          /\ m.stage = "answered" => /\ m.verdict = "document" => sinceIn' <= later
                                     /\ m.verdict = "refused" => sinceNone' <= later
      BY <2>3, <2>4, <2>5, <2>6
    <2>8. later = Back' + m.age
      BY <1>1 DEF later
    <2>9. QED
      BY <1>1, <2>7, <2>8 DEF Grounded, SaidWithin
  <1>5. QED
    BY <1>3, <1>4

(* Somebody moves the caller, or publishes a membership. *)
LEMMA AdmissionChanges ==
    ASSUME AdmissionInv, Change \/ PublishMembership
    PROVE  AdmissionInv'
  <1>1. /\ UNCHANGED <<kind, source, tokens, lookup, cached>> /\ Remember(FALSE)
        /\ exists' \in BOOLEAN /\ standing' \in SUBSET Group /\ (~exists' => standing' = {})
        /\ roster' \in [published : BOOLEAN, groups : SUBSET Group, left : 0..RosterAge]
        /\ ~roster'.published => roster'.groups = {}
    <2>1. CASE Change
      <3>1. PICK there \in BOOLEAN, S \in SUBSET Group :
              /\ ~there => S = {}
              /\ exists' = there /\ standing' = S
              /\ UNCHANGED <<deployment, tokens, roster, lookup, cached>> /\ Remember(FALSE)
        BY <2>1, Zenon DEF Change
      <3>2. QED
        BY <3>1 DEF deployment, AdmissionInv, TypeOK
    <2>2. CASE PublishMembership
      <3>1. PICK S \in SUBSET Group, left \in 1..RosterAge :
              roster' = [published |-> TRUE, groups |-> S, left |-> left]
        BY <2>2 DEF PublishMembership
      <3>2. UNCHANGED <<kind, source, tokens, lookup, cached, exists, standing>> /\ Remember(FALSE)
        BY <2>2 DEF PublishMembership, deployment, directory
      <3>3. left \in 0..RosterAge
        OBVIOUS
      <3>4. QED
        BY <3>1, <3>2, <3>3 DEF AdmissionInv, TypeOK
    <2>3. QED
      BY <2>1, <2>2
  <1>2. /\ sinceIn' \in 0..Long /\ sinceOut' \in 0..Long /\ sinceUnlisted' \in 0..Long
        /\ sinceNone' \in 0..Long /\ HistoryIsNow'
        /\ sinceIn' <= sinceIn /\ sinceNone' <= sinceNone
    <2>1. sinceIn \in 0..Long /\ sinceOut \in 0..Long /\ sinceUnlisted \in 0..Long /\ UNCHANGED deployment
      BY <1>1 DEF AdmissionInv, TypeOK, deployment
    <2>2. QED
      BY <1>1, <2>1, RememberSays
  <1>3. TypeOK'
    BY <1>1, <1>2 DEF AdmissionInv, TypeOK
  <1>4. sinceIn \in Nat /\ sinceNone \in Nat /\ sinceIn' \in Nat /\ sinceNone' \in Nat
    BY <1>2, HistoryType DEF AdmissionInv
  <1>5. ASSUME NEW s \in Slot
        PROVE  Grounded(lookup[s])'
    <2>1. lookup[s] \in Lookup /\ Grounded(lookup[s]) /\ lookup'[s] = lookup[s]
      BY <1>1 DEF AdmissionInv, TypeOK
    <2>2. lookup[s] # Idle => lookup[s].age \in Nat
      BY <2>1, LookupKinds, BackType
    <2>3. lookup[s] # Idle => lookup[s].age = lookup[s].age + 0
      BY <2>2
    <2>4. UNCHANGED <<kind, source>> /\ sinceIn' <= sinceIn + 0 /\ sinceNone' <= sinceNone + 0
      BY <1>1, <1>2, <1>4
    <2>5. QED
      BY <2>1, <2>3, <2>4, <1>4, GroundsStay
  <1>6. ASSUME FromToken', NEW t \in tokens'
        PROVE  SaidWithin(t.groups, t.age)'
    <2>1. t \in tokens /\ FromToken
      BY <1>1, <1>6 DEF FromToken
    <2>2. SaidWithin(t.groups, t.age) /\ t.age \in Nat
      BY <2>1 DEF AdmissionInv, TypeOK, Token
    <2>3. QED
      BY <1>2, <1>4, <2>2 DEF SaidWithin
  <1>7. (cached < Ttl => sinceIn <= Behind + cached)'
    <2>1. Behind' = Behind /\ cached' = cached /\ cached \in Nat /\ Behind \in Nat
      BY <1>1, BackType DEF Behind, AdmissionInv, TypeOK
    <2>2. QED
      BY <1>2, <1>4, <2>1 DEF AdmissionInv
  <1>8. QED
    BY <1>1, <1>2, <1>3, <1>5, <1>6, <1>7 DEF AdmissionInv

\* A token says what the directory says as it is issued.
LEMMA AdmissionIssues ==
    ASSUME AdmissionInv, Issue
    PROVE  AdmissionInv'
  <1>1. /\ tokens' = tokens \union {[groups |-> Claims(standing), age |-> 0]}
        /\ UNCHANGED <<kind, source, exists, standing, roster, lookup, cached, sinceIn, sinceOut, sinceUnlisted>>
    BY DEF Issue, deployment, directory, history
  <1>2. Claims(standing) \in SUBSET Group
    BY DEF AdmissionInv, TypeOK, Claims
  <1>3. 0 \in 0..(TokenLife - 1)
    BY LifeAssumption
  <1>4. TypeOK'
    BY <1>1, <1>2, <1>3 DEF AdmissionInv, TypeOK, Token
  <1>5. FromToken => SaidWithin(Claims(standing), 0)
    BY HistoryType DEF FromToken, SaidWithin, AdmissionInv, HistoryIsNow, PutsIn, PutsOut, Unlisted, sinceNone
  <1>6. ASSUME FromToken, NEW t \in tokens'
        PROVE  SaidWithin(t.groups, t.age)
    BY <1>1, <1>5, <1>6 DEF AdmissionInv
  <1>7. QED
    BY <1>1, <1>4, <1>6 DEF AdmissionInv, HistoryIsNow, PutsIn, PutsOut, Unlisted, sinceNone, FromToken, SaidWithin,
                            Grounded, Back, Behind

(* Evidence is gathered: what was read is what the source says now. *)
LEMMA AdmissionReads ==
    ASSUME AdmissionInv, NEW s \in Slot, ReadDirectory(s) \/ ReadRoster(s) \/ ReadClaims(s)
    PROVE  AdmissionInv'
  <1> DEFINE l(credential, e) ==
        [stage |-> "evidenced", age |-> lookup[s].age, credential |-> credential, evidence |-> e]
  <1>1. lookup[s] \in Lookup /\ Grounded(lookup[s])
    BY DEF AdmissionInv, TypeOK
  <1>2. sinceIn \in Nat /\ sinceNone \in Nat /\ Back \in Nat /\ CredentialLife \in Nat
    BY HistoryType, BackType, LifeAssumption DEF AdmissionInv
  <1>3. ASSUME NEW credential \in Nat, NEW e \in Evidence, Evidenced(s, credential, e),
               lookup[s].stage \in {"sent", "enquiring"},
               e.status # "source-unavailable" => SaidWithin(e.groups, Back + lookup[s].age),
               UNCHANGED <<deployment, directory, tokens, roster, cached, history>>
        PROVE  AdmissionInv'
    <2>1. lookup[s].age \in 0..Timeout
      BY <1>1, <1>3, LookupKinds DEF SentLookup, EnquiringLookup
    <2>2. l(credential, e) \in Lookup
      BY <2>1, KindsAreLookups DEF GatheredLookup
    <2>3. Grounded(l(credential, e))
      BY <1>3 DEF Grounded
    <2>4. lookup' = [lookup EXCEPT ![s] = l(credential, e)]
      BY <1>3 DEF Evidenced
    <2> HIDE DEF l
    <2>5. QED
      BY <1>3, <2>2, <2>3, <2>4, LookupMoves
  <1> HIDE DEF l
  <1>4. CASE ReadClaims(s)
    <2>1. /\ lookup[s].stage = "sent" /\ FromToken
          /\ Evidenced(s, CredentialLife, Mapped(lookup[s].claims, CredentialLife))
          /\ UNCHANGED <<deployment, directory, tokens, roster, cached, history>>
      BY <1>4 DEF ReadClaims, FromToken
    <2>2. lookup[s].claims \in SUBSET Group
      BY <1>1, <2>1, LookupKinds DEF SentLookup
    <2>3. SaidWithin(lookup[s].claims, Back + lookup[s].age)
      BY <1>1, <2>1 DEF Grounded
    <2>4. Mapped(lookup[s].claims, CredentialLife) \in Evidence
          /\ Mapped(lookup[s].claims, CredentialLife).groups = lookup[s].claims
      BY <1>2, <2>2, EvidenceType
    <2>5. QED
      BY <1>2, <1>3, <2>1, <2>3, <2>4
  <1>5. ASSUME lookup[s].stage = "enquiring"
        PROVE  /\ ~FromToken /\ Back = 0 /\ lookup[s].age \in Nat
               /\ lookup[s].credential \in Nat /\ lookup[s].left \in Nat
               /\ \A groups : /\ groups \intersect Entitled # {} => sinceIn = 0
                              /\ groups \intersect Entitled = {} => sinceNone = 0
                              => SaidWithin(groups, Back + lookup[s].age)
    <2>1. lookup[s] \in EnquiringLookup
      BY <1>1, <1>5, LookupKinds
    <2>2. lookup[s].age \in Nat /\ lookup[s].credential \in Nat /\ lookup[s].left \in Nat
      BY <2>1, BackType DEF EnquiringLookup
    <2>3. ~FromToken /\ Back = 0
      BY <1>1, <1>5 DEF Grounded, Back
    <2>4. QED
      BY <1>2, <2>2, <2>3 DEF SaidWithin
  <1>6. CASE ReadDirectory(s)
    <2>1. /\ lookup[s].stage = "enquiring" /\ source = "directory-claim"
          /\ UNCHANGED <<deployment, directory, tokens, roster, cached, history>>
      BY <1>6 DEF ReadDirectory
    <2>2. PICK e \in Listed \union {Degraded("source-unavailable")} :
            Evidenced(s, lookup[s].credential, IF e.status \in Strict THEN [e EXCEPT !.left = lookup[s].left] ELSE e)
      BY <1>6 DEF ReadDirectory
    <2>3. kind = "workload"
      BY <1>5, <2>1 DEF FromToken, AdmissionInv, TypeOK
    <2>4. /\ standing \intersect Entitled # {} => sinceIn = 0
          /\ standing \intersect Entitled = {} => sinceNone = 0
          /\ ~exists => standing = {}
          /\ standing \in SUBSET Group
      BY <2>1, <2>3 DEF AdmissionInv, HistoryIsNow, PutsIn, PutsOut, Unlisted, sinceNone, TypeOK
    <2>5. ReadingAge \in Nat
      BY LifeAssumption
    <2>6. /\ e \in Evidence
          /\ e.status # "source-unavailable" => e.groups = standing
      <3>1. \/ e = Degraded("source-unavailable")
            \/ e = Degraded("unmapped") /\ ~exists
            \/ e = Mapped(standing, ReadingAge)
        <4>1. /\ ~exists => Listed = {Degraded("unmapped")}
              /\ exists /\ Cardinality(standing) > MaxGroups => Listed = {Degraded("source-unavailable")}
              /\ exists /\ ~(Cardinality(standing) > MaxGroups) => Listed = {Mapped(standing, ReadingAge)}
          BY Zenon DEF Listed
        <4>2. CASE e \in Listed
          <5>1. CASE exists /\ Cardinality(standing) > MaxGroups
            BY <4>1, <4>2, <5>1, Zenon
          <5>2. CASE exists /\ ~(Cardinality(standing) > MaxGroups)
            BY <4>1, <4>2, <5>2, Zenon
          <5>3. CASE ~exists
            BY <4>1, <4>2, <5>3, Zenon
          <5>4. QED
            BY <5>1, <5>2, <5>3, Zenon
        <4>3. QED
          BY <4>2, Zenon
      <3>2. CASE e = Degraded("source-unavailable")
        BY <3>2, EvidenceType
      <3>3. CASE e = Degraded("unmapped") /\ ~exists
        BY <2>4, <3>3, EvidenceType
      <3>4. CASE e = Mapped(standing, ReadingAge)
        BY <2>4, <2>5, <3>4, EvidenceType
      <3>5. QED
        BY <3>1, <3>2, <3>3, <3>4
    <2> DEFINE f == IF e.status \in Strict THEN [e EXCEPT !.left = lookup[s].left] ELSE e
    <2>7. /\ f \in Evidence
          /\ f.status # "source-unavailable" => f.groups = standing
      BY <1>5, <2>1, <2>6, EvidenceType
    <2>8. Evidenced(s, lookup[s].credential, f)
      BY <2>2
    <2> HIDE DEF f
    <2>9. QED
      BY <1>3, <1>5, <2>1, <2>4, <2>7, <2>8
  <1>7. CASE ReadRoster(s)
    <2>1. /\ lookup[s].stage = "enquiring" /\ source = "store"
          /\ UNCHANGED <<deployment, directory, tokens, roster, cached, history>>
      BY <1>7 DEF ReadRoster
    <2>2. PICK e \in {Degraded("source-unavailable")} \union
                (IF ~roster.published THEN {Degraded("unmapped")}
                 ELSE {m \in {Mapped(roster.groups, roster.left)} : Current(m)}) :
            Evidenced(s, lookup[s].credential, e)
      BY <1>7 DEF ReadRoster
    <2>3. roster.groups \in SUBSET Group /\ roster.left \in Nat
      BY LifeAssumption DEF AdmissionInv, TypeOK
    <2>4. CASE e = Degraded("source-unavailable")
      BY <1>3, <1>5, <2>1, <2>2, <2>4, EvidenceType
    <2>5. CASE e = Degraded("unmapped") /\ ~roster.published
      <3>1. roster.groups = {} /\ sinceNone = 0
        BY <2>1, <2>5 DEF AdmissionInv, HistoryIsNow, PutsIn, PutsOut, Unlisted, sinceNone
      <3>2. e \in Evidence /\ e.groups = {}
        BY <2>5, EvidenceType
      <3>3. SaidWithin({}, Back + lookup[s].age)
        BY <1>5, <2>1, <3>1
      <3>4. QED
        BY <1>3, <1>5, <2>1, <2>2, <3>2, <3>3
    <2>6. CASE e = Mapped(roster.groups, roster.left) /\ Current(e)
      <3>1. /\ e \in Evidence /\ e.groups = roster.groups /\ e.left = roster.left
            /\ e.status \in Strict
        BY <2>3, <2>6, EvidenceType
      <3>2. roster.left > 0
        BY <2>6, <3>1 DEF Current
      <3>3. /\ roster.groups \intersect Entitled # {} => sinceIn = 0
            /\ roster.groups \intersect Entitled = {} => sinceNone = 0
        BY <2>1, <2>3, <3>2 DEF AdmissionInv, HistoryIsNow, PutsIn, PutsOut, Unlisted, sinceNone
      <3>4. QED
        BY <1>3, <1>5, <2>1, <2>2, <3>1, <3>3
    <2>7. QED
      BY <2>2, <2>4, <2>5, <2>6
  <1>8. QED
    BY <1>4, <1>6, <1>7

(* Every other step of a lookup carries what it was founded on further. *)
LEMMA AdmissionMoves ==
    ASSUME AdmissionInv, NEW s \in Slot,
           Ask(s) \/ Enquire(s) \/ Establish(s) \/ Decide(s) \/ Refuse(s) \/ Unresolved(s)
    PROVE  AdmissionInv'
  <1>1. lookup[s] \in Lookup /\ Grounded(lookup[s])
    BY DEF AdmissionInv, TypeOK
  <1>2. sinceIn \in Nat /\ sinceNone \in Nat /\ Back \in Nat /\ 0 \in 0..Timeout
    BY HistoryType, BackType DEF AdmissionInv
  <1>3. CASE Ask(s)
    <2>1. PICK claims \in Presented :
            lookup' = [lookup EXCEPT ![s] = [stage |-> "sent", age |-> 0, claims |-> claims]]
      BY <1>3 DEF Ask
    <2> DEFINE l == [stage |-> "sent", age |-> 0, claims |-> claims]
    <2>2. CASE kind = "user"
      <3>1. PICK t \in tokens : claims = t.groups
        BY <2>2 DEF Presented
      <3>2. claims \in SUBSET Group /\ t.age \in 0..(TokenLife - 1)
        BY <3>1 DEF AdmissionInv, TypeOK, Token
      <3>3. l \in Lookup
        BY <1>2, <3>2, KindsAreLookups DEF SentLookup
      <3>4. FromToken => SaidWithin(claims, Back + 0)
        BY <1>2, <3>1, <3>2, LifeAssumption DEF AdmissionInv, SaidWithin, Back
      <3>5. Grounded(l)
        BY <3>4 DEF Grounded
      <3> HIDE DEF l
      <3>6. QED
        BY <1>3, <2>1, <3>3, <3>5, LookupMoves DEF Ask, l
    <2>3. CASE kind # "user"
      <3>1. claims = {} /\ ~FromToken
        BY <2>3 DEF Presented, FromToken
      <3>2. l \in Lookup
        BY <1>2, <3>1, KindsAreLookups DEF SentLookup
      <3>3. Grounded(l)
        BY <3>1 DEF Grounded
      <3>4. QED
        BY <1>3, <2>1, <3>2, <3>3, LookupMoves DEF Ask
    <2>4. QED
      BY <2>2, <2>3
  <1>4. CASE Enquire(s)
    <2> DEFINE l == [stage |-> "enquiring", age |-> lookup[s].age, credential |-> CredentialLife, left |-> ReadingAge]
    <2>1. lookup' = [lookup EXCEPT ![s] = l]
      BY <1>4 DEF Enquire
    <2>2. lookup[s] \in SentLookup /\ ~FromToken
      BY <1>1, <1>4, LookupKinds DEF Enquire, FromToken
    <2>3. l \in Lookup /\ Grounded(l)
      BY <2>2, KindsAreLookups, LifeAssumption DEF SentLookup, EnquiringLookup, Grounded
    <2>4. QED
      BY <1>4, <2>1, <2>3, LookupMoves DEF Enquire
  <1>5. ASSUME NEW verdict \in {"document", "refused", "unavailable"},
               lookup[s].stage \in {"evidenced", "established"},
               verdict = "document" => /\ lookup[s].evidence.status # "source-unavailable"
                                       /\ lookup[s].evidence.groups \intersect Entitled # {},
               verdict = "refused" => /\ lookup[s].evidence.status # "source-unavailable"
                                      /\ lookup[s].evidence.groups \intersect Entitled = {},
               lookup' = [lookup EXCEPT ![s] = Answered(lookup[s], verdict)],
               UNCHANGED <<deployment, directory, tokens, roster, cached, history>>
        PROVE  AdmissionInv'
    <2>1. lookup[s] \in GatheredLookup
      BY <1>1, <1>5, LookupKinds
    <2>2. /\ Answered(lookup[s], verdict) \in Lookup
          /\ Answered(lookup[s], verdict) = [stage |-> "answered", age |-> lookup[s].age, verdict |-> verdict]
      BY <2>1, KindsAreLookups DEF Answered, GatheredLookup, AnsweredLookup
    <2>3. Grounded(Answered(lookup[s], verdict))
      BY <1>1, <1>5, <2>2 DEF Grounded, SaidWithin
    <2>4. QED
      BY <1>5, <2>2, <2>3, LookupMoves
  <1>6. CASE Establish(s)
    <2>1. CASE Sound(lookup[s])
      <3> DEFINE l == [lookup[s] EXCEPT !.stage = "established"]
      <3>1. lookup' = [lookup EXCEPT ![s] = l]
        BY <1>6, <2>1 DEF Establish
      <3>2. lookup[s] \in GatheredLookup
        BY <1>1, <1>6, LookupKinds DEF Establish
      <3>3. /\ l \in GatheredLookup
            /\ l.age = lookup[s].age /\ l.evidence = lookup[s].evidence /\ l.stage = "established"
        BY <3>2 DEF GatheredLookup
      <3>4. l \in Lookup
        BY <3>3, KindsAreLookups
      <3> HIDE DEF l
      <3>5. Grounded(l)
        BY <1>1, <1>6, <3>3 DEF Grounded, Establish
      <3>6. QED
        BY <1>6, <3>1, <3>4, <3>5, LookupMoves DEF Establish
    <2>2. CASE ~Sound(lookup[s])
      BY <1>5, <1>6, <2>2 DEF Establish
    <2>3. QED
      BY <2>1, <2>2
  <1>7. CASE Decide(s)
    <2>1. PICK verdict \in {Verdict(lookup[s]), "unavailable"} :
            lookup' = [lookup EXCEPT ![s] = Answered(lookup[s], verdict)]
      BY <1>7 DEF Decide
    <2>2. lookup[s].stage = "established" /\ lookup[s] \in GatheredLookup
      BY <1>1, <1>7, LookupKinds DEF Decide
    <2>3. lookup[s].evidence.status = "unmapped" => lookup[s].evidence.groups = {}
      BY <2>2 DEF GatheredLookup, Evidence
    <2>4. /\ verdict \in {"document", "refused", "unavailable"}
          /\ verdict = "document" => /\ lookup[s].evidence.status # "source-unavailable"
                                      /\ lookup[s].evidence.groups \intersect Entitled # {}
          /\ verdict = "refused" => /\ lookup[s].evidence.status # "source-unavailable"
                                     /\ lookup[s].evidence.groups \intersect Entitled = {}
      BY <2>3 DEF Verdict, Strict
    <2>5. QED
      BY <1>5, <1>7, <2>1, <2>2, <2>4 DEF Decide
  <1>8. CASE Refuse(s) \/ Unresolved(s)
    <2>1. Grounded(Idle)
      BY DEF Idle, Grounded
    <2>2. lookup' = [lookup EXCEPT ![s] = Idle]
          /\ UNCHANGED <<deployment, directory, tokens, roster, cached, history>>
      BY <1>8 DEF Refuse, Unresolved
    <2>3. QED
      BY <2>1, <2>2, KindsAreLookups, LookupMoves
  <1>9. QED
    BY <1>3, <1>4, <1>6, <1>7, <1>8

\* The document admits from now on: what it rests on is no older than the wait allows.
LEMMA AdmissionAdmits ==
    ASSUME AdmissionInv, NEW s \in Slot, Admit(s)
    PROVE  AdmissionInv'
  <1>1. /\ lookup[s].stage = "answered" /\ lookup[s].verdict = "document"
        /\ lookup' = [lookup EXCEPT ![s] = Idle] /\ cached' = 0
        /\ UNCHANGED <<kind, source, exists, standing, tokens, roster, sinceIn, sinceOut, sinceUnlisted>>
    BY DEF Admit, deployment, directory, history
  <1>2. lookup[s] \in AnsweredLookup /\ sinceIn <= Back + lookup[s].age
    BY <1>1, LookupKinds DEF AdmissionInv, TypeOK, Grounded
  <1>3. sinceIn <= Behind + 0
    BY <1>2, BackType, HistoryType DEF AnsweredLookup, AdmissionInv
  <1>4. \A other \in Slot : lookup'[other] \in Lookup /\ Grounded(lookup'[other])
    BY <1>1, KindsAreLookups DEF AdmissionInv, TypeOK, Grounded, Idle
  <1>5. TypeOK'
    BY <1>1, KindsAreLookups, BackType DEF AdmissionInv, TypeOK
  <1>6. QED
    BY <1>1, <1>3, <1>4, <1>5 DEF AdmissionInv, HistoryIsNow, PutsIn, PutsOut, Unlisted, sinceNone, FromToken, SaidWithin,
                                  Grounded, Back, Behind

\* Time takes from what is left and adds to what has passed.
LEMMA LessType == \A n \in Nat : Less(n) \in Nat /\ Less(n) <= n
  BY DEF Less

LEMMA OlderSays ==
    ASSUME NEW l \in Lookup, l # Idle => l.age < Timeout
    PROVE  /\ Older(l) \in Lookup
           /\ l = Idle => Older(l) = Idle
           /\ l # Idle => /\ Older(l).stage = l.stage /\ Older(l).age = l.age + 1
                          /\ l.stage = "sent" => Older(l).claims = l.claims
                          /\ l.stage = "answered" => Older(l).verdict = l.verdict
                          /\ l.stage \in {"evidenced", "established"} =>
                               /\ Older(l).evidence.groups = l.evidence.groups
                               /\ Older(l).evidence.status = l.evidence.status
  <1>1. l # Idle => l.age + 1 \in 0..Timeout
    BY LookupKinds, BackType
  <1>2. CASE l = Idle
    BY <1>2, KindsAreLookups DEF Older, Idle
  <1>3. CASE l.stage = "sent"
    <2>1. l \in SentLookup /\ l # Idle
      BY <1>3, LookupKinds DEF Idle
    <2>2. Older(l) = [l EXCEPT !.age = @ + 1]
      BY <1>3 DEF Older
    <2>3. Older(l) \in SentLookup
      BY <1>1, <2>1, <2>2 DEF SentLookup
    <2>4. Older(l).stage = l.stage /\ Older(l).age = l.age + 1 /\ Older(l).claims = l.claims
      BY <2>1, <2>2 DEF SentLookup
    <2>5. QED
      BY <1>3, <2>1, <2>3, <2>4, KindsAreLookups
  <1>4. CASE l.stage = "enquiring"
    <2>1. l \in EnquiringLookup /\ l # Idle
      BY <1>4, LookupKinds DEF Idle
    <2>2. Older(l) = [l EXCEPT !.age = @ + 1, !.credential = Less(@), !.left = Less(@)]
      BY <1>4 DEF Older
    <2>3. Less(l.credential) \in Nat /\ Less(l.left) \in Nat
      BY <2>1, LessType DEF EnquiringLookup
    <2>4. Older(l) \in EnquiringLookup
      BY <1>1, <2>1, <2>2, <2>3 DEF EnquiringLookup
    <2>5. Older(l).stage = l.stage /\ Older(l).age = l.age + 1
      BY <2>1, <2>2 DEF EnquiringLookup
    <2>6. QED
      BY <1>4, <2>1, <2>4, <2>5, KindsAreLookups
  <1>5. CASE l.stage \in {"evidenced", "established"}
    <2>1. l \in GatheredLookup /\ l # Idle
      BY <1>5, LookupKinds DEF Idle
    <2> DEFINE e == Waning(l.evidence)
    <2>2. Older(l) = [l EXCEPT !.age = @ + 1, !.credential = Less(@), !.evidence = Waning(@)]
      <3>1. l.stage # "idle" /\ l.stage # "enquiring"
        BY <1>5
      <3>2. QED
        BY <1>5, <3>1 DEF Older
    <2>3. Less(l.credential) \in Nat /\ l.evidence \in Evidence /\ Less(l.evidence.left) \in Nat
      BY <2>1, LessType, EvidenceType DEF GatheredLookup
    <2>4. /\ e \in Evidence /\ e.groups = l.evidence.groups /\ e.status = l.evidence.status
      BY <2>3, EvidenceType DEF Waning
    <2>5. Older(l) \in GatheredLookup
      BY <1>1, <2>1, <2>2, <2>3, <2>4 DEF GatheredLookup
    <2>6. Older(l).stage = l.stage /\ Older(l).age = l.age + 1 /\ Older(l).evidence = e
      BY <2>1, <2>2 DEF GatheredLookup
    <2>7. QED
      BY <1>5, <2>1, <2>4, <2>5, <2>6, KindsAreLookups
  <1>6. CASE l.stage = "answered"
    <2>1. l \in AnsweredLookup /\ l # Idle
      BY <1>6, LookupKinds DEF Idle
    <2>2. Older(l) = [l EXCEPT !.age = @ + 1]
      BY <1>6 DEF Older
    <2>3. Older(l) \in AnsweredLookup
      BY <1>1, <2>1, <2>2 DEF AnsweredLookup
    <2>4. Older(l).stage = l.stage /\ Older(l).age = l.age + 1 /\ Older(l).verdict = l.verdict
      BY <2>1, <2>2 DEF AnsweredLookup
    <2>5. QED
      BY <1>6, <2>1, <2>3, <2>4, KindsAreLookups
  <1>7. QED
    BY <1>2, <1>3, <1>4, <1>5, <1>6, LookupKinds

LEMMA AdmissionTicks ==
    ASSUME AdmissionInv, Tick
    PROVE  AdmissionInv'
  <1>1. /\ \A s \in Slot : lookup[s] # Idle => lookup[s].age < Timeout
        /\ tokens' = {[t EXCEPT !.age = @ + 1] : t \in {u \in tokens : u.age + 1 < TokenLife}}
        /\ roster' = [roster EXCEPT !.left = Less(@)]
        /\ lookup' = [s \in Slot |-> Older(lookup[s])]
        /\ cached' = IF cached = Ttl THEN Ttl ELSE cached + 1
        /\ UNCHANGED <<kind, source, exists, standing>> /\ Remember(TRUE)
    BY DEF Tick, deployment, directory
  <1>2. /\ sinceIn' \in 0..Long /\ sinceOut' \in 0..Long /\ sinceUnlisted' \in 0..Long
        /\ sinceNone' \in 0..Long /\ HistoryIsNow'
        /\ sinceIn' <= sinceIn + 1 /\ sinceNone' <= sinceNone + 1
    <2>1. sinceIn \in 0..Long /\ sinceOut \in 0..Long /\ sinceUnlisted \in 0..Long /\ UNCHANGED deployment
      BY <1>1 DEF AdmissionInv, TypeOK, deployment
    <2>2. QED
      BY <1>1, <2>1, RememberSays
  <1>3. sinceIn \in Nat /\ sinceNone \in Nat /\ sinceIn' \in Nat /\ sinceNone' \in Nat
    BY <1>2, HistoryType DEF AdmissionInv
  <1>4. ASSUME NEW s \in Slot
        PROVE  lookup'[s] \in Lookup /\ Grounded(lookup[s])'
    <2>1. lookup[s] \in Lookup /\ Grounded(lookup[s]) /\ lookup'[s] = Older(lookup[s])
      BY <1>1 DEF AdmissionInv, TypeOK
    <2>2. lookup[s] # Idle => lookup[s].age < Timeout
      BY <1>1
    <2>3. UNCHANGED <<kind, source>>
      BY <1>1
    <2> HIDE <1>1
    <2>4. QED
      BY <1>2, <1>3, <2>1, <2>2, <2>3, OlderSays, GroundsStay
  <1>5. ASSUME NEW t \in tokens'
        PROVE  /\ t \in Token
               /\ FromToken => SaidWithin(t.groups, t.age)'
    <2>1. PICK u \in tokens : u.age + 1 < TokenLife /\ t = [u EXCEPT !.age = @ + 1]
      BY <1>1
    <2>2. u \in Token /\ (FromToken => SaidWithin(u.groups, u.age))
      BY DEF AdmissionInv, TypeOK
    <2>3. t \in Token /\ t.groups = u.groups /\ t.age = u.age + 1 /\ u.age \in Nat
      BY <2>1, <2>2, LifeAssumption DEF Token
    <2>4. FromToken => /\ u.groups \intersect Entitled # {} => sinceIn <= u.age
                       /\ u.groups \intersect Entitled = {} => sinceNone <= u.age
      BY <2>2 DEF SaidWithin
    <2>5. QED
      BY <1>2, <1>3, <2>3, <2>4 DEF SaidWithin
  <1>6. /\ roster' \in [published : BOOLEAN, groups : SUBSET Group, left : 0..RosterAge]
        /\ roster'.published = roster.published /\ roster'.groups = roster.groups
    <2>1. /\ roster \in [published : BOOLEAN, groups : SUBSET Group, left : 0..RosterAge]
          /\ Less(roster.left) \in 0..RosterAge
      <3>1. roster.left \in 0..RosterAge /\ RosterAge \in Nat
        BY LifeAssumption DEF AdmissionInv, TypeOK
      <3>2. QED
        BY <3>1, LessType DEF AdmissionInv, TypeOK
    <2>2. QED
      BY <1>1, <2>1
  <1>7. cached' \in 0..Ttl /\ (cached' < Ttl => cached < Ttl /\ cached' = cached + 1) /\ cached \in Nat
    BY <1>1, BackType DEF AdmissionInv, TypeOK
  <1>8. (cached < Ttl => sinceIn <= Behind + cached)'
    <2>1. Behind' = Behind /\ Behind \in Nat
      BY <1>1, BackType DEF Behind
    <2>2. QED
      BY <1>2, <1>3, <1>7, <2>1 DEF AdmissionInv
  <1>9. TypeOK'
    <2>1. lookup' \in [Slot -> Lookup]
      BY <1>1, <1>4
    <2>2. tokens' \subseteq Token
      BY <1>5
    <2>3. kind' = kind /\ source' = source /\ exists' = exists /\ standing' = standing
      BY <1>1
    <2>4. QED
      BY <1>2, <1>6, <1>7, <2>1, <2>2, <2>3 DEF AdmissionInv, TypeOK
  <1>10. (FromToken => \A t \in tokens : SaidWithin(t.groups, t.age))'
    BY <1>1, <1>5 DEF FromToken
  <1>11. QED
    BY <1>1, <1>2, <1>4, <1>6, <1>8, <1>9, <1>10 DEF AdmissionInv

LEMMA AdmissionStep == AdmissionInv /\ [Next]_vars => AdmissionInv'
  <1> SUFFICES ASSUME AdmissionInv, [Next]_vars
               PROVE  AdmissionInv'
    OBVIOUS
  <1>1. CASE UNCHANGED vars
    BY <1>1 DEF vars, AdmissionInv, TypeOK, HistoryIsNow, PutsIn, PutsOut, Unlisted, sinceNone, FromToken, SaidWithin,
                Grounded, Back, Behind
  <1>2. ASSUME NEW s \in Slot,
               \/ Ask(s) \/ ReadClaims(s) \/ Enquire(s) \/ ReadDirectory(s) \/ ReadRoster(s)
               \/ Establish(s) \/ Decide(s) \/ Admit(s) \/ Refuse(s) \/ Unresolved(s)
        PROVE  AdmissionInv'
    BY <1>2, AdmissionReads, AdmissionMoves, AdmissionAdmits
  <1>3. QED
    BY <1>1, <1>2, AdmissionChanges, AdmissionIssues, AdmissionTicks DEF Next

THEOREM AdmissionInvariant == Spec => []AdmissionInv
  BY AdmissionStarts, AdmissionStep, PTL DEF Spec

(* While a document is held its holder was entitled no longer ago than     *)
(* token, wait and cache allow (LeavingTakesEffect), for every lifetime of *)
(* each, every size of an answer and any number of lookups in flight.      *)
THEOREM AdmissionLapses == Spec => []LeavingTakesEffect
  <1>1. AdmissionInv => LeavingTakesEffect
    <2> SUFFICES ASSUME AdmissionInv, cached < Ttl
                 PROVE  sinceIn < Behind + Ttl
      BY DEF LeavingTakesEffect
    <2>1. sinceIn <= Behind + cached /\ cached \in Nat /\ sinceIn \in Nat
      BY HistoryType, BackType DEF AdmissionInv, TypeOK
    <2>2. QED
      BY <2>1, BackType
  <1>2. QED
    BY <1>1, AdmissionInvariant, PTL

(* Whoever is refused was said to be in no entitled group within the same  *)
(* time, or their token listed no groups because there were too many       *)
(* (RefusalIsAnAnswer).                                                    *)
THEOREM AdmissionRefuses == Spec => RefusalIsAnAnswer
  <1>1. AdmissionInv /\ [Next]_vars =>
          [\A s \in Slot : Refuse(s) => sinceOut <= Behind \/ sinceUnlisted <= Behind]_vars
    <2> SUFFICES ASSUME AdmissionInv, NEW s \in Slot, Refuse(s)
                 PROVE  sinceOut <= Behind \/ sinceUnlisted <= Behind
      OBVIOUS
    <2>1. lookup[s].stage = "answered" /\ lookup[s].verdict = "refused"
      BY DEF Refuse
    <2>2. lookup[s] \in AnsweredLookup /\ sinceNone <= Back + lookup[s].age
      BY <2>1, LookupKinds DEF AdmissionInv, TypeOK, Grounded
    <2>3. sinceNone <= Behind
      BY <2>2, BackType, HistoryType DEF AnsweredLookup, AdmissionInv
    <2>4. QED
      BY <2>3 DEF sinceNone
  <1>2. QED
    BY <1>1, AdmissionInvariant, PTL DEF Spec, RefusalIsAnAnswer

-----------------------------------------------------------------------------
(***************************************************************************)
(* RevisionLifecycle: one revision under every sequence of commands.       *)
(***************************************************************************)
USE NoActorAssumption, TargetAssumption, SelfApproverAssumption, NumberAssumption

Reserved == {"publishing", "failed", "active", "superseded"}

(***************************************************************************)
(* The invariant the properties need: the publisher is recorded exactly    *)
(* from the moment the revision is reserved, and until then no target was  *)
(* attempted.                                                              *)
(***************************************************************************)
LifeInv ==
  /\ RevisionTypeOK
  /\ revision.number = Number
  /\ revision.publisher # NoActor <=> revision.state \in Reserved
  /\ revision.state \notin Reserved => \A t \in Target : revision.outcome[t] = "pending"
  /\ ActiveIsConfirmed
  /\ SecondPairOfEyes
  /\ StampsAgree

LEMMA LifeInit == RevisionInit => LifeInv
  <1> SUFFICES ASSUME NEW a \in Actor, revision = CreateRevision(Number, a)
               PROVE  LifeInv
    BY DEF RevisionInit
  <1>1. RevisionTypeOK
    BY CreateRevisionType DEF RevisionTypeOK
  <1>2. QED
    BY <1>1 DEF CreateRevision, LifeInv, Reserved, ActiveIsConfirmed, SecondPairOfEyes, StampsAgree

LEMMA LifeApply ==
  ASSUME LifeInv, NEW c \in Command, NEW a \in Actor, NEW ctx \in Contexts(a), Apply(c, a, ctx)
  PROVE  LifeInv'
  <1> USE DEF Reserved
  <1>1. revision \in Revision
    BY DEF LifeInv, RevisionTypeOK
  <1>2. RevisionTypeOK'
    <2>1. ctx.previous \in Nat
      BY DEF Contexts, NoRevision
    <2>2. QED
      BY <1>1, <2>1, AppliedType DEF Apply, RevisionTypeOK
  <1>3. /\ Accepts(revision, c, a, ctx)
        /\ revision.state \in AllowedFrom[c]
        /\ c = "complete" => \A t \in Target : revision.outcome[t] = "verified"
        /\ c = "approve" /\ a = revision.author => a \in SelfApprover
    BY DEF Apply, Accepts, FullyVerified, Contexts
  <1>4. /\ revision'.number = revision.number
        /\ revision'.author = revision.author
        /\ revision'.state = IF c = "withdraw" /\ revision.state = "draft"
                               THEN "withdrawn" ELSE NextState[c]
        /\ revision'.approver = IF c = "approve" THEN a
                                ELSE IF c = "withdraw" THEN NoActor ELSE revision.approver
        /\ revision'.publisher = IF c \in {"publish", "retry"} THEN a ELSE revision.publisher
        /\ revision'.completed <=> \/ c = "complete"
                                   \/ c \notin {"publish", "retry"} /\ revision.completed
        /\ revision'.failure <=> \/ c = "fail"
                                 \/ /\ c \notin {"publish", "retry", "complete"}
                                    /\ revision.failure
        /\ revision'.outcome = IF c = "retry" THEN ResetTargetsForRetry(revision.outcome)
                                              ELSE revision.outcome
    BY <1>1, AppliedFields DEF Apply
  <1>5. c = "abandon" => revision.publisher = NoActor
    BY <1>3 DEF Accepts, PublicationActivity
  <1>6. /\ revision'.number = Number
        /\ revision'.publisher # NoActor <=> revision'.state \in Reserved
        /\ revision'.state \notin Reserved => \A t \in Target : revision'.outcome[t] = "pending"
    BY <1>3, <1>4, <1>5 DEF LifeInv, Command, AllowedFrom, NextState
  <1>7. SecondPairOfEyes'
    BY <1>3, <1>4, <1>5 DEF LifeInv, SecondPairOfEyes, Command, AllowedFrom, NextState
  <1>8. StampsAgree'
    BY <1>3, <1>4, <1>5 DEF LifeInv, StampsAgree, Command, AllowedFrom, NextState
  <1>9. ActiveIsConfirmed'
    BY <1>3, <1>4, <1>5, <1>7
    DEF LifeInv, ActiveIsConfirmed, SecondPairOfEyes, StampsAgree, Command, AllowedFrom, NextState
  <1>10. QED
    BY <1>2, <1>6, <1>7, <1>8, <1>9 DEF LifeInv

LEMMA LifeReport ==
  ASSUME LifeInv, NEW t \in Target, NEW outcome \in Outcome, NEW reason \in BOOLEAN,
         Report(t, outcome, reason)
  PROVE  LifeInv'
  <1>1. revision \in Revision /\ revision.state = "publishing"
    BY DEF LifeInv, RevisionTypeOK, Report, Recordable
  <1>2. /\ revision' \in Revision
        /\ revision' = [revision EXCEPT !.outcome = revision'.outcome]
    BY <1>1, RecordedFields DEF Report
  <1>3. QED
    BY <1>1, <1>2 DEF LifeInv, RevisionTypeOK, Reserved, Revision, ActiveIsConfirmed, SecondPairOfEyes,
                      StampsAgree

LEMMA LifeStep == LifeInv /\ [RevisionNext]_revision => LifeInv'
  <1> SUFFICES ASSUME LifeInv, [RevisionNext]_revision
               PROVE  LifeInv'
    OBVIOUS
  <1>1. CASE RevisionNext
    BY <1>1, LifeApply, LifeReport DEF RevisionNext
  <1>2. CASE UNCHANGED revision
    BY <1>2 DEF LifeInv, RevisionTypeOK, ActiveIsConfirmed, SecondPairOfEyes, StampsAgree
  <1>3. QED
    BY <1>1, <1>2

THEOREM LifeInvariant == RevisionSpec => []LifeInv
  BY LifeInit, LifeStep, PTL DEF RevisionSpec

-----------------------------------------------------------------------------
(***************************************************************************)
(* The type invariant, the confirmation an active revision rests on, the   *)
(* separation of duties and the agreement of the stamps with the state     *)
(* hold on every path through the commands and reports.                    *)
(***************************************************************************)
THEOREM LifeSafety ==
  RevisionSpec => [](RevisionTypeOK /\ ActiveIsConfirmed /\ SecondPairOfEyes /\ StampsAgree)
  <1>1. LifeInv => RevisionTypeOK /\ ActiveIsConfirmed /\ SecondPairOfEyes /\ StampsAgree
    BY DEF LifeInv
  <1>2. QED
    BY <1>1, LifeInvariant, PTL

\* Separation of duties, by itself: beyond a draft a revision carries an
\* approval, its author's only where the author may approve, and a draft carries
\* none from an earlier cycle.
THEOREM LifeSecondPair == RevisionSpec => []SecondPairOfEyes
  BY LifeSafety, PTL

\* No withdrawn revision was ever reserved or reached a target.
THEOREM LifeWithdrawn == RevisionSpec => []WithdrawnIsUntouched
  <1>1. LifeInv => WithdrawnIsUntouched
    BY DEF LifeInv, WithdrawnIsUntouched, Reserved
  <1>2. QED
    BY <1>1, LifeInvariant, PTL

\* The reducer accepts every command the screen offers.
THEOREM LifeOffered == RevisionSpec => []OfferedIsAccepted
  <1>1. ASSUME LifeInv, NEW a \in Actor,
               NEW c \in AvailableCommands(revision, a, a \in SelfApprover)
        PROVE  Accepts(revision, c, a, Honest(a))
    <2>1. /\ c \in Command
          /\ revision.state \in AllowedFrom[c]
          /\ c = "approve" /\ a # NoActor /\ a = revision.author => a \in SelfApprover
          /\ c = "complete" => FullyVerified(revision)
          /\ c = "abandon"  => ~PublicationActivity(revision)
      BY <1>1 DEF AvailableCommands
    <2>2. revision.number = Number
      BY <1>1 DEF LifeInv
    <2>3. QED
      BY <2>1, <2>2 DEF Accepts, Honest, NoRevision
  <1>2. LifeInv => OfferedIsAccepted
    BY <1>1 DEF OfferedIsAccepted
  <1>3. QED
    BY <1>2, LifeInvariant, PTL

\* No step takes a confirmation back.
THEOREM LifeVerifiedIsKept == RevisionSpec => VerifiedIsKept
  <1> DEFINE Kept == \A t \in Target :
               revision.outcome[t] = "verified" => revision'.outcome[t] = "verified"
  <1>1. ASSUME LifeInv, NEW c \in Command, NEW a \in Actor, NEW ctx, Apply(c, a, ctx)
        PROVE  Kept
    <2>1. revision \in Revision /\ revision.outcome \in [Target -> Outcome]
      BY <1>1 DEF LifeInv, RevisionTypeOK, Revision
    <2>2. revision'.outcome = IF c = "retry" THEN ResetTargetsForRetry(revision.outcome)
                                             ELSE revision.outcome
      BY <1>1, <2>1, AppliedFields DEF Apply
    <2>3. QED
      BY <2>1, <2>2, ResetKeepsVerified
  <1>2. ASSUME LifeInv, NEW t \in Target, NEW outcome \in Outcome, NEW reason \in BOOLEAN,
               Report(t, outcome, reason)
        PROVE  Kept
    <2>1. revision \in Revision
      BY <1>2 DEF LifeInv, RevisionTypeOK
    <2>2. \A u \in Target : revision'.outcome[u] = IF u = t THEN outcome ELSE revision.outcome[u]
      BY <1>2, <2>1, RecordedFields DEF Report
    <2>3. revision.outcome[t] = "verified" => outcome = "verified"
      BY <1>2, <2>1, VerifiedIsTerminal DEF Report
    <2>4. QED
      BY <2>2, <2>3
  <1>3. LifeInv /\ [RevisionNext]_revision => [Kept]_revision
    BY <1>1, <1>2 DEF RevisionNext
  <1>4. QED
    BY <1>3, LifeInvariant, PTL DEF RevisionSpec, VerifiedIsKept

\* Once reserved for publication, a revision is only driven forward.
THEOREM LifeCommitted == RevisionSpec => PublicationIsCommitted
  <1> DEFINE Forward == revision.publisher # NoActor =>
               /\ revision'.publisher # NoActor
               /\ revision'.state \notin {"draft", "approved", "withdrawn"}
               /\ revision'.approver = revision.approver
  <1>1. ASSUME LifeInv, NEW c \in Command, NEW a \in Actor, NEW ctx, Apply(c, a, ctx)
        PROVE  Forward
    <2>1. revision \in Revision
      BY <1>1 DEF LifeInv, RevisionTypeOK
    <2>2. revision.state \in AllowedFrom[c] /\ (c = "abandon" => revision.publisher = NoActor)
      BY <1>1 DEF Apply, Accepts, PublicationActivity
    <2>3. /\ revision'.state = IF c = "withdraw" /\ revision.state = "draft"
                                 THEN "withdrawn" ELSE NextState[c]
          /\ revision'.approver = IF c = "approve" THEN a
                                  ELSE IF c = "withdraw" THEN NoActor ELSE revision.approver
          /\ revision'.publisher = IF c \in {"publish", "retry"} THEN a ELSE revision.publisher
      BY <1>1, <2>1, AppliedFields DEF Apply
    <2>4. QED
      BY <1>1, <2>2, <2>3 DEF LifeInv, Reserved, Command, AllowedFrom, NextState
  <1>2. ASSUME LifeInv, NEW t \in Target, NEW outcome \in Outcome, NEW reason \in BOOLEAN,
               Report(t, outcome, reason)
        PROVE  Forward
    <2>1. revision \in Revision /\ revision.state = "publishing"
      BY <1>2 DEF LifeInv, RevisionTypeOK, Report, Recordable
    <2>2. revision' = [revision EXCEPT !.outcome = revision'.outcome]
      BY <1>2, <2>1, RecordedFields DEF Report
    <2>3. QED
      BY <2>1, <2>2 DEF Revision
  <1>3. LifeInv /\ [RevisionNext]_revision => [Forward]_revision
    BY <1>1, <1>2 DEF RevisionNext
  <1>4. QED
    BY <1>3, LifeInvariant, PTL DEF RevisionSpec, PublicationIsCommitted

(***************************************************************************)
(* DirectoryReading and RosterScreen: what a stored roster claims, and     *)
(* what the screen shows of it.                                            *)
(***************************************************************************)
(* The answer kept for a group is put together from two moments of the run. *)
ToldOf(answer, w, g) ==
    \E m \in w, n \in w :
        answer = [p \in {q \in Person : n[g][q] \in {"direct", "inherited"}} |->
                     IF m[g][p] = "direct" THEN "direct" ELSE "inherited"]

(* What a run holds of what was true while it went on.                      *)
Told(r, w) ==
    /\ r.refusals = {} => DOMAIN r.got \union r.todo = Catalogue[r.version]
    /\ r.stage = "asked" => r.group \in r.todo
    /\ ~r.cut =>
         /\ \A g \in DOMAIN r.got : ToldOf(r.got[g], w, g)
         /\ r.stage = "asked" => \E m \in w : r.direct = {p \in Person : m[r.group][p] = "direct"}

RosterInv ==
    /\ RosterTypeOK /\ DOMAIN run = Host /\ witnessed \in [Host -> SUBSET Membership]
    /\ \A h \in Host : run[h] # AtRest => member \in witnessed[h] /\ Told(run[h], witnessed[h])

LEMMA GroupsAre ==
  ASSUME NEW f
  PROVE  f \in Groups <=> /\ f = [g \in DOMAIN f |-> f[g]] /\ DOMAIN f \subseteq GovernedGroup
                          /\ \A g \in DOMAIN f : f[g] \in Members
  <1>1. ASSUME f \in Groups
        PROVE  /\ f = [g \in DOMAIN f |-> f[g]] /\ DOMAIN f \subseteq GovernedGroup
               /\ \A g \in DOMAIN f : f[g] \in Members
    <2>1. PICK S \in SUBSET GovernedGroup : f \in [S -> Members]
      BY <1>1 DEF Groups
    <2>2. QED
      BY <2>1
  <1>2. ASSUME f = [g \in DOMAIN f |-> f[g]], DOMAIN f \subseteq GovernedGroup,
               \A g \in DOMAIN f : f[g] \in Members
        PROVE  f \in Groups
    <2>1. f \in [DOMAIN f -> Members] /\ DOMAIN f \in SUBSET GovernedGroup
      BY <1>2
    <2>2. QED
      BY <2>1 DEF Groups
  <1>3. QED
    BY <1>1, <1>2

LEMMA RestIsIdle == \A r \in RosterRun : r # AtRest /\ r.stage \in {"asking", "asked"}
  BY DEF RosterRun, AtRest

\* What was true stays among what was true.
LEMMA WitnessGrows ==
  ASSUME NEW r, NEW w, NEW x, w \subseteq x, Told(r, w)
  PROVE  Told(r, x)
  <1>1. ASSUME NEW answer, NEW g, ToldOf(answer, w, g) PROVE ToldOf(answer, x, g)
    <2>1. PICK m \in w, n \in w :
            answer = [p \in {q \in Person : n[g][q] \in {"direct", "inherited"}} |->
                         IF m[g][p] = "direct" THEN "direct" ELSE "inherited"]
      BY <1>1 DEF ToldOf
    <2>2. m \in x /\ n \in x
      BY <2>1
    <2>3. QED
      BY <2>1, <2>2 DEF ToldOf
  <1>2. (\E m \in w : r.direct = {p \in Person : m[r.group][p] = "direct"})
          => \E m \in x : r.direct = {p \in Person : m[r.group][p] = "direct"}
    OBVIOUS
  <1>3. QED
    BY <1>1, <1>2 DEF Told

LEMMA RosterStart == RosterInit => RosterInv
  <1> SUFFICES ASSUME RosterInit PROVE RosterInv
    OBVIOUS
  <1>1. /\ now = 0 /\ member \in Start0 /\ changes = 0 /\ down = FALSE /\ granted \in BOOLEAN
        /\ issuing \in {FALSE, granted} /\ published \in {0} \union Versions
        /\ token = [h \in Host |-> "none"] /\ run = [h \in Host |-> AtRest]
        /\ snapshot = NoSnapshot /\ witnessed = [h \in Host |-> {}]
    BY DEF RosterInit
  <1>2. now \in 0..MaxTime /\ changes \in 0..MaxChanges
    BY <1>1, BoundsAssumption
  <1>3. \A h \in Host : run[h] = AtRest
    BY <1>1
  <1>4. RosterTypeOK
    BY <1>1, <1>2, <1>3, StartAssumption DEF RosterTypeOK
  <1>5. QED
    BY <1>1, <1>3, <1>4 DEF RosterInv

\* What the surroundings of the runs do.
LEMMA SurroundingsKeep ==
  ASSUME RosterInv, MemberChange \/ Advance \/ Fault \/ Grant \/ TurnOver \/ Publish
  PROVE  RosterInv'
  <1>1. /\ RosterTypeOK /\ DOMAIN run = Host /\ DOMAIN witnessed = Host
        /\ \A h \in Host : run[h] # AtRest => member \in witnessed[h] /\ Told(run[h], witnessed[h])
    BY DEF RosterInv
  <1>2. CASE MemberChange
    <2>1. PICK g \in GovernedGroup, p \in Person, s \in Standing :
            /\ changes < MaxChanges /\ member' = [member EXCEPT ![g][p] = s]
            /\ changes' = changes + 1
      BY <1>2 DEF MemberChange
    <2>2. /\ UNCHANGED <<now, down, granted, issuing, published, token, run, snapshot>>
          /\ witnessed' = [h \in Host |-> IF run[h] = AtRest THEN witnessed[h]
                                          ELSE witnessed[h] \union {member'}]
      BY <1>2 DEF MemberChange, Witness, platform
    <2>3. member' \in Membership
      BY <1>1, <2>1 DEF RosterTypeOK, Membership
    <2>4. changes' \in 0..MaxChanges
      BY <1>1, <2>1, BoundsAssumption DEF RosterTypeOK
    <2>5. \A h \in Host : witnessed'[h] \subseteq Membership
      BY <1>1, <2>2, <2>3 DEF RosterTypeOK
    <2>6. RosterTypeOK'
      BY <1>1, <2>2, <2>3, <2>4, <2>5 DEF RosterTypeOK
    <2>7. ASSUME NEW h \in Host, run[h] # AtRest
          PROVE  member' \in witnessed'[h] /\ Told(run[h], witnessed'[h])
      <3>1. witnessed'[h] = witnessed[h] \union {member'}
        BY <2>2, <2>7
      <3>2. QED
        BY <1>1, <2>7, <3>1, WitnessGrows
    <2>8. witnessed' \in [Host -> SUBSET Membership]
      BY <2>2, <2>5
    <2>9. QED
      BY <1>1, <2>2, <2>6, <2>7, <2>8 DEF RosterInv
  <1>3. CASE Advance \/ Fault \/ Grant \/ TurnOver \/ Publish
    <2>1. UNCHANGED <<member, changes, token, run, snapshot, witnessed>>
      BY <1>3 DEF Advance, Fault, Grant, TurnOver, Publish, entra, platform
    <2>2. now' \in 0..MaxTime
      BY <1>1, <1>3, BoundsAssumption
         DEF RosterTypeOK, Advance, Fault, Grant, TurnOver, Publish
    <2>3. down' \in BOOLEAN /\ granted' \in BOOLEAN /\ issuing' \in BOOLEAN
      BY <1>1, <1>3 DEF RosterTypeOK, Advance, Fault, Grant, TurnOver, Publish, platform, entra
    <2>4. published' \in {0} \union Versions
      BY <1>1, <1>3 DEF RosterTypeOK, Advance, Fault, Grant, TurnOver, Publish
    <2>5. RosterTypeOK'
      BY <1>1, <2>1, <2>2, <2>3, <2>4 DEF RosterTypeOK
    <2>6. QED
      BY <1>1, <2>1, <2>5 DEF RosterInv
  <1>4. QED
    BY <1>2, <1>3

\* A step of one host's run.
LEMMA HostKeeps ==
  ASSUME RosterInv, NEW h \in Host, NEW r, run' = [run EXCEPT ![h] = r],
         r # AtRest => r \in RosterRun /\ member \in witnessed'[h] /\ Told(r, witnessed'[h]),
         NEW w \in SUBSET Membership, witnessed' = [witnessed EXCEPT ![h] = w],
         UNCHANGED <<now, member, changes, down, granted, issuing, published>>,
         token' \in [Host -> {"none", "with", "without"}],
         snapshot' = NoSnapshot \/ snapshot' \in Document
  PROVE  RosterInv'
  <1>1. /\ RosterTypeOK /\ DOMAIN run = Host /\ DOMAIN witnessed = Host
        /\ \A k \in Host : run[k] # AtRest => member \in witnessed[k] /\ Told(run[k], witnessed[k])
    BY DEF RosterInv
  <1>2. /\ DOMAIN run' = Host /\ DOMAIN witnessed' = Host /\ run'[h] = r /\ witnessed'[h] = w
        /\ \A k \in Host \ {h} : run'[k] = run[k] /\ witnessed'[k] = witnessed[k]
    BY <1>1
  <1>3. \A k \in Host : (run'[k] # AtRest => run'[k] \in RosterRun) /\ witnessed'[k] \subseteq Membership
    BY <1>1, <1>2 DEF RosterTypeOK
  <1>4. RosterTypeOK'
    BY <1>1, <1>3 DEF RosterTypeOK
  <1>5. QED
    BY <1>1, <1>2, <1>4 DEF RosterInv

LEMMA AttemptIs ==
  ASSUME NEW at \in Nat, NEW v \in Versions, NEW again \in BOOLEAN, NEW w
  PROVE  Attempt(at, v, again) \in RosterRun /\ Told(Attempt(at, v, again), w)
  <1> DEFINE r == Attempt(at, v, again)
             none == [g \in {} |-> {}]
  <1>1. Catalogue[v] \subseteq GovernedGroup
    BY CatalogueAssumption
  <1>2. DOMAIN none = {} /\ none \in Groups
    <2>1. none \in [{} -> Members] /\ {} \in SUBSET GovernedGroup
      OBVIOUS
    <2>2. QED
      BY <2>1 DEF Groups
  <1>3. /\ r.stage = "asking" /\ r.version = v /\ r.todo = Catalogue[v] /\ r.got = none
        /\ r.refusals = {} /\ r.cut = FALSE
    BY DEF Attempt
  <1>4. r \in RosterRun
    BY <1>1, <1>2 DEF Attempt, RosterRun, Refusal
  <1> HIDE DEF r, none
  <1>5. Told(r, w)
    BY <1>2, <1>3 DEF Told
  <1>6. QED
    BY <1>4, <1>5 DEF r

LEMMA CredentialIs ==
  ASSUME RosterTypeOK, NEW h \in Host
  PROVE  Held(h) \in {"with", "without"}
  BY DEF RosterTypeOK, Held

LEMMA StartKeeps ==
  ASSUME RosterInv, NEW h \in Host, Start(h)
  PROVE  RosterInv'
  <1>1. /\ published # 0 /\ run' = [run EXCEPT ![h] = Attempt(now, published, FALSE)]
        /\ witnessed' = [witnessed EXCEPT ![h] = {member}]
        /\ UNCHANGED <<now, member, changes, down, granted, issuing, published, token, snapshot>>
    BY DEF Start, entra, platform
  <1>2. RosterTypeOK /\ DOMAIN witnessed = Host
    BY DEF RosterInv
  <1>3. now \in Nat /\ published \in Versions /\ {member} \in SUBSET Membership
    BY <1>1, <1>2, BoundsAssumption DEF RosterTypeOK
  <1>4. /\ Attempt(now, published, FALSE) \in RosterRun /\ member \in witnessed'[h]
        /\ Told(Attempt(now, published, FALSE), witnessed'[h])
    BY <1>1, <1>2, <1>3, AttemptIs
  <1>5. token' \in [Host -> {"none", "with", "without"}] /\ (snapshot' = NoSnapshot \/ snapshot' \in Document)
    BY <1>1, <1>2 DEF RosterTypeOK
  <1>6. QED
    BY <1>1, <1>3, <1>4, <1>5, HostKeeps

\* What a running host has, and keeps while it asks.
LEMMA RunningHas ==
  ASSUME RosterInv, NEW h \in Host, run[h].stage \in {"asking", "asked"}
  PROVE  /\ run[h] # AtRest /\ run[h] \in RosterRun /\ member \in witnessed[h]
         /\ Told(run[h], witnessed[h]) /\ witnessed[h] \in SUBSET Membership
         /\ witnessed = [witnessed EXCEPT ![h] = witnessed[h]]
         /\ DOMAIN token = Host /\ token \in [Host -> {"none", "with", "without"}]
         /\ snapshot = NoSnapshot \/ snapshot \in Document
  <1>1. run[h] # AtRest
    BY DEF AtRest
  <1>2. QED
    BY <1>1 DEF RosterInv, RosterTypeOK

LEMMA AskDirectKeeps ==
  ASSUME RosterInv, NEW h \in Host, AskDirect(h)
  PROVE  RosterInv'
  <1> DEFINE r == run[h]
  <1>a. PICK g \in r.todo : \E S \in Answer(h, g, {"direct"}) :
          run' = [run EXCEPT ![h] = [run[h] EXCEPT !.stage = "asked", !.group = g, !.direct = S,
                                        !.cut = run[h].cut \/ Cut(g, {"direct"})]]
    BY DEF AskDirect
  <1>1. PICK S \in Answer(h, g, {"direct"}) :
          run' = [run EXCEPT ![h] = [run[h] EXCEPT !.stage = "asked", !.group = g, !.direct = S,
                                        !.cut = run[h].cut \/ Cut(g, {"direct"})]]
    BY <1>a
  <1>2. /\ r.stage = "asking" /\ token' = [token EXCEPT ![h] = Held(h)]
        /\ UNCHANGED <<now, member, changes, down, granted, issuing, published, snapshot, witnessed>>
    BY DEF AskDirect, entra, platform
  <1>3. /\ r \in RosterRun /\ member \in witnessed[h] /\ Told(r, witnessed[h])
        /\ witnessed[h] \in SUBSET Membership /\ witnessed' = [witnessed EXCEPT ![h] = witnessed[h]]
        /\ witnessed'[h] = witnessed[h]
        /\ token \in [Host -> {"none", "with", "without"}]
        /\ snapshot = NoSnapshot \/ snapshot \in Document
    BY <1>2, RunningHas
  <1>4. RosterTypeOK /\ DOMAIN run = Host
    BY DEF RosterInv
  <1>5. S \subseteq Person /\ (~Cut(g, {"direct"}) => S = {p \in Person : member[g][p] = "direct"})
    BY DEF Answer, Cut, Among
  <1>6. PICK b \in BOOLEAN : b = (r.cut \/ Cut(g, {"direct"}))
    OBVIOUS
  <1> DEFINE x == [r EXCEPT !.stage = "asked", !.group = g, !.direct = S, !.cut = b]
  <1>7. run' = [run EXCEPT ![h] = x]
    BY <1>1, <1>4, <1>6
  <1>8. g \in GovernedGroup
    BY <1>3 DEF RosterRun
  <1>9. x \in RosterRun
    BY <1>3, <1>5, <1>8 DEF RosterRun
  <1>10. /\ x.stage = "asked" /\ x.group = g /\ x.direct = S /\ x.cut = b /\ x.todo = r.todo
         /\ x.got = r.got /\ x.refusals = r.refusals /\ x.version = r.version
    BY <1>3 DEF RosterRun
  <1> HIDE DEF x, r
  <1>11. ~b => ~r.cut /\ ~Cut(g, {"direct"})
    BY <1>6
  <1>12. Told(x, witnessed[h])
    <2>1. x.refusals = {} => DOMAIN x.got \union x.todo = Catalogue[x.version]
      BY <1>3, <1>10 DEF Told
    <2>2. x.group \in x.todo
      BY <1>10
    <2>3. ~x.cut => \A k \in DOMAIN x.got : ToldOf(x.got[k], witnessed[h], k)
      BY <1>3, <1>10, <1>11 DEF Told
    <2>4. ~x.cut => \E m \in witnessed[h] : x.direct = {p \in Person : m[x.group][p] = "direct"}
      BY <1>3, <1>5, <1>10, <1>11
    <2>5. QED
      BY <2>1, <2>2, <2>3, <2>4 DEF Told
  <1>13. token' \in [Host -> {"none", "with", "without"}]
    <2>1. Held(h) \in {"with", "without"}
      BY <1>4, CredentialIs
    <2>2. QED
      BY <1>2, <1>3, <2>1
  <1>14. QED
    BY <1>2, <1>3, <1>7, <1>9, <1>12, <1>13, HostKeeps

LEMMA AskTransitiveKeeps ==
  ASSUME RosterInv, NEW h \in Host, AskTransitive(h)
  PROVE  RosterInv'
  <1> DEFINE r == run[h]
             g == r.group
  <1>1. PICK S \in Answer(h, r.group, {"direct", "inherited"}) :
          run' = [run EXCEPT ![h] = [r EXCEPT
              !.stage = "asking", !.group = NoSnapshot, !.direct = {}, !.todo = r.todo \ {r.group},
              !.cut = r.cut \/ Cut(r.group, {"direct", "inherited"}),
              !.got = [k \in DOMAIN r.got \union {r.group} |->
                          IF k = r.group THEN Labelled(h, S) ELSE r.got[k]]]]
    BY DEF AskTransitive
  <1>2. /\ r.stage = "asked"
        /\ UNCHANGED <<now, member, changes, down, granted, issuing, published, token, snapshot, witnessed>>
    BY DEF AskTransitive, entra, platform
  <1>3. /\ r \in RosterRun /\ member \in witnessed[h] /\ Told(r, witnessed[h])
        /\ witnessed[h] \in SUBSET Membership /\ witnessed' = [witnessed EXCEPT ![h] = witnessed[h]]
        /\ witnessed'[h] = witnessed[h]
        /\ token \in [Host -> {"none", "with", "without"}]
        /\ snapshot = NoSnapshot \/ snapshot \in Document
    BY <1>2, RunningHas
  <1>4. DOMAIN run = Host
    BY DEF RosterInv
  <1>5. S \subseteq Person
        /\ (~Cut(g, {"direct", "inherited"}) =>
               S = {p \in Person : member[g][p] \in {"direct", "inherited"}})
    BY DEF Answer, Cut, Among
  <1>6. PICK b \in BOOLEAN : b = (r.cut \/ Cut(g, {"direct", "inherited"}))
    OBVIOUS
  <1>7. PICK a : a = [p \in S |-> IF p \in r.direct THEN "direct" ELSE "inherited"]
    OBVIOUS
  <1>8. PICK got : got = [k \in DOMAIN r.got \union {g} |-> IF k = g THEN a ELSE r.got[k]]
    OBVIOUS
  <1> DEFINE x == [r EXCEPT !.stage = "asking", !.group = NoSnapshot, !.direct = {}, !.todo = r.todo \ {g},
                            !.cut = b, !.got = got]
  <1>9. run' = [run EXCEPT ![h] = x]
    BY <1>1, <1>4, <1>6, <1>7, <1>8 DEF Labelled
  <1>10. g \in r.todo /\ r.todo \subseteq GovernedGroup /\ r.got \in Groups
    BY <1>2, <1>3 DEF RosterRun, Told
  <1>11. a \in Members
    <2>1. a \in [S -> {"direct", "inherited"}] /\ S \in SUBSET Person
      BY <1>5, <1>7
    <2>2. QED
      BY <2>1 DEF Members
  <1>12. got \in Groups
    <2>1. DOMAIN r.got \subseteq GovernedGroup /\ \A k \in DOMAIN r.got : r.got[k] \in Members
      BY <1>10, GroupsAre
    <2>2. DOMAIN got = DOMAIN r.got \union {g} /\ got = [k \in DOMAIN got |-> got[k]]
          /\ \A k \in DOMAIN got : got[k] = IF k = g THEN a ELSE r.got[k]
      BY <1>8
    <2> HIDE DEF r, g
    <2>3. QED
      BY <1>10, <1>11, <2>1, <2>2, GroupsAre
  <1>13. x \in RosterRun
    BY <1>3, <1>12 DEF RosterRun
  <1>14. /\ x.stage = "asking" /\ x.cut = b /\ x.todo = r.todo \ {g} /\ x.got = got
         /\ x.refusals = r.refusals /\ x.version = r.version
    BY <1>3 DEF RosterRun
  <1> HIDE DEF x, r, g
  <1>15. DOMAIN got = DOMAIN r.got \union {g} /\ got[g] = a
         /\ \A k \in DOMAIN r.got \ {g} : got[k] = r.got[k]
    BY <1>8
  <1>16. Told(x, witnessed[h])
    <2>1. x.refusals = {} => DOMAIN x.got \union x.todo = Catalogue[x.version]
      BY <1>3, <1>10, <1>14, <1>15 DEF Told
    <2>2. ASSUME ~x.cut PROVE \A k \in DOMAIN x.got : ToldOf(x.got[k], witnessed[h], k)
      <3>1. ~r.cut /\ ~Cut(g, {"direct", "inherited"})
        BY <1>6, <1>14, <2>2
      <3>2. PICK m \in witnessed[h] : r.direct = {p \in Person : m[g][p] = "direct"}
        BY <1>2, <1>3, <3>1 DEF Told, g
      <3>3. a = [p \in {q \in Person : member[g][q] \in {"direct", "inherited"}} |->
                    IF m[g][p] = "direct" THEN "direct" ELSE "inherited"]
        <4>1. S = {q \in Person : member[g][q] \in {"direct", "inherited"}}
          BY <1>5, <3>1
        <4>2. \A p \in S : p \in r.direct <=> m[g][p] = "direct"
          BY <1>5, <3>2
        <4>3. QED
          BY <1>7, <4>1, <4>2
      <3>4. ToldOf(a, witnessed[h], g)
        BY <1>3, <3>3 DEF ToldOf
      <3>5. \A k \in DOMAIN r.got : ToldOf(r.got[k], witnessed[h], k)
        BY <1>3, <3>1 DEF Told
      <3>6. QED
        BY <1>14, <1>15, <3>4, <3>5
    <2>3. QED
      BY <1>14, <2>1, <2>2 DEF Told
  <1>17. QED
    BY <1>2, <1>3, <1>9, <1>13, <1>16, HostKeeps

LEMMA RefusedKeeps ==
  ASSUME RosterInv, NEW h \in Host, Refused(h)
  PROVE  RosterInv'
  <1> DEFINE r == run[h]
  <1>1. PICK g \in (IF r.stage = "asked" THEN {r.group} ELSE r.todo), why \in Refusal :
          run' = [run EXCEPT ![h] = [run[h] EXCEPT !.stage = "asking", !.group = NoSnapshot, !.direct = {},
                              !.todo = run[h].todo \ {g}, !.refusals = run[h].refusals \union {why}]]
    BY DEF Refused, Refusal
  <1>2. /\ r.stage \in {"asking", "asked"} /\ token' = [token EXCEPT ![h] = Held(h)]
        /\ UNCHANGED <<now, member, changes, down, granted, issuing, published, snapshot, witnessed>>
    BY DEF Refused, entra, platform
  <1>3. /\ r \in RosterRun /\ member \in witnessed[h] /\ Told(r, witnessed[h])
        /\ witnessed[h] \in SUBSET Membership /\ witnessed' = [witnessed EXCEPT ![h] = witnessed[h]]
        /\ witnessed'[h] = witnessed[h]
        /\ token \in [Host -> {"none", "with", "without"}]
        /\ snapshot = NoSnapshot \/ snapshot \in Document
    BY <1>2, RunningHas
  <1>4. RosterTypeOK /\ DOMAIN run = Host
    BY DEF RosterInv
  <1> DEFINE x == [r EXCEPT !.stage = "asking", !.group = NoSnapshot, !.direct = {}, !.todo = r.todo \ {g},
                            !.refusals = r.refusals \union {why}]
  <1>5. run' = [run EXCEPT ![h] = x]
    BY <1>1, <1>4
  <1>6. x \in RosterRun
    BY <1>3 DEF RosterRun
  <1>7. /\ x.stage = "asking" /\ x.cut = r.cut /\ x.got = r.got /\ x.refusals = r.refusals \union {why}
    BY <1>3 DEF RosterRun
  <1> HIDE DEF x, r
  <1>8. Told(x, witnessed[h])
    BY <1>3, <1>7 DEF Told
  <1>9. token' \in [Host -> {"none", "with", "without"}]
    <2>1. Held(h) \in {"with", "without"}
      BY <1>4, CredentialIs
    <2>2. QED
      BY <1>2, <1>3, <2>1
  <1>10. QED
    BY <1>2, <1>3, <1>5, <1>6, <1>8, <1>9, HostKeeps

LEMMA ThrownKeeps ==
  ASSUME RosterInv, NEW h \in Host, Thrown(h)
  PROVE  RosterInv'
  <1>1. /\ run[h].stage \in {"asking", "asked"}
        /\ run' = [run EXCEPT ![h] = AtRest] /\ witnessed' = [witnessed EXCEPT ![h] = {}]
        /\ UNCHANGED <<now, member, changes, down, granted, issuing, published, snapshot>>
    BY DEF Thrown, entra, platform
  <1>2. PICK held \in {token[h], Held(h)} : token' = [token EXCEPT ![h] = held]
    BY DEF Thrown
  <1>3. /\ DOMAIN token = Host /\ token \in [Host -> {"none", "with", "without"}]
        /\ snapshot = NoSnapshot \/ snapshot \in Document
    BY <1>1, RunningHas
  <1>4. Held(h) \in {"with", "without"}
    BY CredentialIs DEF RosterInv
  <1>5. token' \in [Host -> {"none", "with", "without"}]
    BY <1>2, <1>3, <1>4
  <1>6. {} \in SUBSET Membership
    OBVIOUS
  <1>7. QED
    BY <1>1, <1>3, <1>5, <1>6, HostKeeps

LEMMA RunEndsKeep ==
  ASSUME RosterInv, NEW h \in Host, Retry(h) \/ GiveUp(h) \/ Put(h)
  PROVE  RosterInv'
  <1> DEFINE r == run[h]
  <1>1. r.stage = "asking" /\ UNCHANGED <<now, member, changes, down, granted, issuing, published>>
    BY DEF Retry, GiveUp, Put, Done, entra, platform
  <1>2. /\ r \in RosterRun /\ member \in witnessed[h]
        /\ witnessed[h] \in SUBSET Membership /\ witnessed = [witnessed EXCEPT ![h] = witnessed[h]]
        /\ DOMAIN token = Host /\ token \in [Host -> {"none", "with", "without"}]
        /\ snapshot = NoSnapshot \/ snapshot \in Document
    BY <1>1, RunningHas
  <1>3. r.at \in Nat /\ r.version \in Versions /\ r.got \in Groups
    BY <1>2 DEF RosterRun
  <1>4. CASE Retry(h)
    <2>1. /\ token' = [token EXCEPT ![h] = "none"]
          /\ run' = [run EXCEPT ![h] = Attempt(run[h].at, run[h].version, TRUE)]
          /\ snapshot' = snapshot /\ witnessed' = witnessed
      BY <1>4 DEF Retry
    <2>2. token' \in [Host -> {"none", "with", "without"}]
      BY <1>2, <2>1
    <2>3. /\ Attempt(run[h].at, run[h].version, TRUE) \in RosterRun
          /\ Told(Attempt(run[h].at, run[h].version, TRUE), witnessed'[h])
      BY <1>3, AttemptIs
    <2>4. QED
      BY <1>1, <1>2, <2>1, <2>2, <2>3, HostKeeps
  <1>5. CASE GiveUp(h) \/ Put(h)
    <2>1. /\ run' = [run EXCEPT ![h] = AtRest] /\ witnessed' = [witnessed EXCEPT ![h] = {}]
          /\ token' = token
      BY <1>5 DEF GiveUp, Put
    <2>2. snapshot' = NoSnapshot \/ snapshot' \in Document
      <3>1. CASE GiveUp(h)
        BY <1>2, <3>1 DEF GiveUp
      <3>2. CASE Put(h)
        <4>1. Completeness(run[h].at, run[h].at, run[h]) \in {"complete", "partial"}
          BY DEF Completeness
        <4>2. QED
          BY <1>3, <3>2, <4>1 DEF Put, Document
      <3>3. QED
        BY <1>5, <3>1, <3>2
    <2>3. {} \in SUBSET Membership
      OBVIOUS
    <2>4. QED
      BY <1>1, <1>2, <2>1, <2>2, <2>3, HostKeeps
  <1>6. QED
    BY <1>4, <1>5

LEMMA RosterSteps ==
  ASSUME RosterInv, [RosterNext]_rosterVars
  PROVE  RosterInv'
  <1>1. CASE UNCHANGED rosterVars
    BY <1>1 DEF rosterVars, RosterInv, RosterTypeOK
  <1>2. CASE MemberChange \/ Advance \/ Fault \/ Grant \/ TurnOver \/ Publish
    BY <1>2, SurroundingsKeep
  <1>3. CASE \E h \in Host : Start(h) \/ Step(h)
    BY <1>3, StartKeeps, AskDirectKeeps, AskTransitiveKeeps, RefusedKeeps, ThrownKeeps, RunEndsKeep DEF Step
  <1>4. QED
    BY <1>1, <1>2, <1>3 DEF RosterNext

\* Types, and that what a run holds was true while it went on: each answer of a
\* reading that was not cut off is put together from two moments of it, and what was
\* not refused covers the catalogue (entra-directory-query.mjs).
THEOREM RosterInvariant == RosterSpec => [](RosterInv /\ RosterTypeOK)
  <1>1. RosterInv => RosterTypeOK
    BY DEF RosterInv
  <1>2. QED
    BY <1>1, RosterStart, RosterSteps, PTL DEF RosterSpec

-----------------------------------------------------------------------------
(* What is stored, and what the screen shows of it.                          *)

LEMMA PutSays ==
  ASSUME RosterInv, NEW h \in Host, Put(h)
  PROVE  /\ snapshot'.version \in Versions /\ member \in witnessed[h] /\ witnessed[h] \subseteq Membership
         /\ DOMAIN snapshot'.groups \subseteq GovernedGroup
         /\ snapshot'.state = "complete" =>
              /\ DOMAIN snapshot'.groups = Catalogue[snapshot'.version]
              /\ \A g \in DOMAIN snapshot'.groups : ToldOf(snapshot'.groups[g], witnessed[h], g)
  <1> DEFINE r == run[h]
  <1>1. /\ r.stage = "asking" /\ r.todo = {}
        /\ snapshot' = [observedAt |-> r.at, version |-> r.version,
                        state |-> Completeness(r.at, r.at, r), groups |-> r.got]
    BY DEF Put, Done
  <1>2. r \in RosterRun /\ member \in witnessed[h] /\ Told(r, witnessed[h]) /\ witnessed[h] \subseteq Membership
    BY <1>1, RunningHas
  <1>3. r.version \in Versions /\ DOMAIN r.got \subseteq GovernedGroup
    BY <1>2, GroupsAre DEF RosterRun
  <1>4. Completeness(r.at, r.at, r) = "complete" => ~r.cut /\ r.refusals = {}
    BY DEF Completeness
  <1> HIDE DEF r
  <1>5. QED
    BY <1>1, <1>2, <1>3, <1>4 DEF Told

\* A snapshot that calls itself complete answers for every governed group, and lists
\* and labels everybody as they were at some moment of the run.
THEOREM RosterWhole == RosterSpec => CompleteIsWhole
  <1>1. ASSUME RosterInv, NEW h \in Host, Put(h), snapshot'.state = "complete",
               NEW g \in DOMAIN snapshot'.groups, NEW p \in Person
        PROVE  LET listed == p \in DOMAIN snapshot'.groups[g]
                   called(s) == listed /\ snapshot'.groups[g][p] = s
                   always(S) == \A m \in witnessed[h] : m[g][p] \in S
               IN  /\ always({"direct", "inherited"}) => listed
                   /\ always({"none"}) => ~listed
                   /\ always({"direct"}) => called("direct")
                   /\ always({"none", "inherited"}) => ~called("direct")
    <2>1. PICK a : a = snapshot'.groups[g]
      OBVIOUS
    <2>2. ToldOf(a, witnessed[h], g)
      BY <1>1, <2>1, PutSays
    <2>3. PICK m \in witnessed[h], n \in witnessed[h] :
            a = [q \in {x \in Person : n[g][x] \in {"direct", "inherited"}} |->
                    IF m[g][q] = "direct" THEN "direct" ELSE "inherited"]
      BY <2>2 DEF ToldOf
    <2>4. p \in DOMAIN a <=> n[g][p] \in {"direct", "inherited"}
      BY <2>3
    <2>5. p \in DOMAIN a => a[p] = IF m[g][p] = "direct" THEN "direct" ELSE "inherited"
      BY <2>3
    <2>6. QED
      BY <2>1, <2>4, <2>5
  <1>2. ASSUME RosterInv, NEW h \in Host, Put(h), snapshot'.state = "complete"
        PROVE  DOMAIN snapshot'.groups = Catalogue[snapshot'.version]
    BY <1>2, PutSays
  <1>3. RosterInv /\ [RosterNext]_rosterVars =>
          [\A h \in Host : Put(h) /\ snapshot'.state = "complete" =>
             /\ DOMAIN snapshot'.groups = Catalogue[snapshot'.version]
             /\ \A g \in DOMAIN snapshot'.groups, p \in Person :
                   LET listed == p \in DOMAIN snapshot'.groups[g]
                       called(s) == listed /\ snapshot'.groups[g][p] = s
                       always(S) == \A m \in witnessed[h] : m[g][p] \in S
                   IN  /\ always({"direct", "inherited"}) => listed
                       /\ always({"none"}) => ~listed
                       /\ always({"direct"}) => called("direct")
                       /\ always({"none", "inherited"}) => ~called("direct")]_rosterVars
    BY <1>1, <1>2
  <1>4. QED
    BY <1>3, RosterInvariant, PTL DEF RosterSpec, CompleteIsWhole

\* What names a caller at some moment.
NamedBy(v, m, caller) ==
    {TeamOf[v][g] : g \in {x \in Catalogue[v] : m[x][caller.person] # "none"}}
        \union {SubjectKey(caller.person), caller.application}

\* More grants under the same ceilings allow more.
LEMMA AllowGrows ==
  ASSUME NEW B, NEW C, B \subseteq C, Specific(B),
         \A b \in C : b.target = Everyone => b \in B
  PROVE  Allowlist(B) \subseteq Allowlist(C)
  <1> DEFINE ceilings(X) == {b \in X : b.target = Everyone}
             grants(X) == X \ ceilings(X)
  <1>1. ceilings(B) = ceilings(C) /\ grants(B) \subseteq grants(C) /\ grants(B) # {}
    BY DEF Specific
  <1>2. \A X : Allowlist(X) =
          {m \in Model : /\ ceilings(X) # {} /\ \A b \in ceilings(X) : m \in b.models
                         /\ (grants(X) = {} \/ \E b \in grants(X) : m \in b.models)}
    BY DEF Allowlist
  <1> HIDE DEF ceilings, grants
  <1>3. QED
    BY <1>1, <1>2

LEMMA Promised ==
  ASSUME NEW v, NEW d, NEW record, NEW m, NEW caller,
         caller.known,
         \A b \in BindingsOf(v, record) : b.target = Everyone \/ b.target \in NamedBy(v, m, caller)
  PROVE  Shown(v, d, record).models \subseteq GatewayModels(v, m, caller)
  <1> DEFINE B == BindingsOf(v, record)
             C == {b \in Binding[v] : b.target \in NamedBy(v, m, caller) \union {Everyone}}
  <1>1. GatewayModels(v, m, caller) = IF \E b \in C : b.target # Everyone THEN Allowlist(C) ELSE {}
    <2>1. PICK teams : teams = {TeamOf[v][g] : g \in {x \in Catalogue[v] : m[x][caller.person] # "none"}}
      OBVIOUS
    <2>2. C = {b \in Binding[v] :
                 b.target \in teams \union {Everyone, SubjectKey(caller.person), caller.application}}
      BY <2>1 DEF NamedBy
    <2> HIDE DEF C
    <2>3. QED
      BY <2>1, <2>2 DEF GatewayModels
  <1>2. B \subseteq C /\ \A b \in C : b.target = Everyone => b \in B
    BY DEF BindingsOf
  <1>3. Shown(v, d, record).models = {} \/ (Specific(B) /\ Shown(v, d, record).models = Allowlist(B))
    BY DEF Shown
  <1> HIDE DEF B, C
  <1>4. CASE Specific(B)
    <2>1. \E b \in C : b.target # Everyone
      BY <1>2, <1>4 DEF Specific
    <2>2. Allowlist(B) \subseteq Allowlist(C)
      BY <1>2, <1>4, AllowGrows
    <2>3. QED
      BY <1>1, <1>3, <2>1, <2>2
  <1>5. QED
    BY <1>3, <1>4

\* A document whose answers are put together from moments of w.
Grounds(d, w) ==
    /\ d.version \in Versions /\ w \subseteq Membership /\ w # {} /\ DOMAIN d.groups \subseteq GovernedGroup
    /\ d.state = "complete" =>
         /\ DOMAIN d.groups = Catalogue[d.version]
         /\ \A g \in DOMAIN d.groups : ToldOf(d.groups[g], w, g)

LEMMA SeenThen ==
  ASSUME NEW d, NEW w, Grounds(d, w), d.state = "complete", NEW g \in DOMAIN d.groups
  PROVE  \E n \in w : \A p \in Person : p \in DOMAIN d.groups[g] <=> n[g][p] # "none"
  <1>1. PICK m \in w, n \in w :
          d.groups[g] = [p \in {q \in Person : n[g][q] \in {"direct", "inherited"}} |->
                            IF m[g][p] = "direct" THEN "direct" ELSE "inherited"]
    BY DEF Grounds, ToldOf
  <1>2. \A p \in Person : n[g][p] \in {"none", "direct", "inherited"}
    BY DEF Grounds, Membership, Standing
  <1>3. QED
    BY <1>1, <1>2

LEMMA TargetsAre ==
  ASSUME NEW v \in Versions, NEW b \in Binding[v]
  PROVE  b.target \in BindingTarget
  BY PolicyAssumption

\* Of a member of a group, a row says no more than the gateway would have.
LEMMA TeamRowPromised ==
  ASSUME NEW d, NEW w, Grounds(d, w), NEW g \in DOMAIN d.groups, NEW record, NEW caller,
         caller.known, caller.person \in Person, caller.person \in DOMAIN d.groups[g],
         record.team = TeamOf[d.version][g], record.application = NoApplication,
         record.key \in GovernedGroup \union {DirectoryCode(p) : p \in Person}
  PROVE  \E m \in w : Shown(d.version, d, record).models \subseteq GatewayModels(d.version, m, caller)
  <1>1. CASE d.state # "complete"
    <2>1. Shown(d.version, d, record).models = {}
      BY <1>1 DEF Shown, Quality
    <2>2. QED
      BY <2>1 DEF Grounds
  <1>2. CASE d.state = "complete"
    <2>1. PICK n \in w : n[g][caller.person] # "none"
      BY <1>2, SeenThen
    <2>2. g \in Catalogue[d.version] /\ d.version \in Versions
      BY <1>2 DEF Grounds
    <2>3. TeamOf[d.version][g] \in NamedBy(d.version, n, caller)
      BY <2>1, <2>2 DEF NamedBy
    <2>4. ASSUME NEW b \in BindingsOf(d.version, record)
          PROVE  b.target = Everyone \/ b.target \in NamedBy(d.version, n, caller)
      <3>1. b \in Binding[d.version] /\ b.target \in {Everyone, record.team, record.key, record.application}
        BY DEF BindingsOf
      <3>2. b.target \in BindingTarget
        BY <2>2, <3>1, TargetsAre
      <3>3. QED
        BY <2>3, <3>1, <3>2, CodesAssumption
    <2>5. QED
      BY <2>4, Promised
  <1>3. QED
    BY <1>1, <1>2

LEMMA UserRowPromised ==
  ASSUME NEW d, NEW w, Grounds(d, w), NEW record \in Users(d), NEW caller \in Callers(record),
         caller.known
  PROVE  \E m \in w : Shown(d.version, d, record).models \subseteq GatewayModels(d.version, m, caller)
  <1>1. PICK p \in Person :
          /\ SeenIn(d, p) # {}
          /\ record = [view |-> "users", key |-> DirectoryCode(p), team |-> TeamCode(d, p),
                       application |-> NoApplication, members |-> {p}]
    BY DEF Users
  <1>2. caller.person = p
    BY <1>1 DEF Callers
  <1>3. TeamCode(d, p) = NoTeam \/ \E g \in SeenIn(d, p) : TeamCode(d, p) = TeamOf[d.version][g]
    <2>1. PICK teams : teams = {TeamOf[d.version][g] : g \in SeenIn(d, p)}
      OBVIOUS
    <2>2. teams # {}
      BY <1>1, <2>1
    <2>3. TeamCode(d, p) = IF Cardinality(teams) = 1 THEN CHOOSE t \in teams : TRUE ELSE NoTeam
      BY <2>1 DEF TeamCode
    <2>4. PICK t \in teams : t = CHOOSE x \in teams : TRUE
      BY <2>2
    <2>5. \E g \in SeenIn(d, p) : t = TeamOf[d.version][g]
      BY <2>1
    <2>6. TeamCode(d, p) \in {t, NoTeam}
      BY <2>3, <2>4
    <2>7. QED
      BY <2>5, <2>6
  <1>4. CASE \E g \in SeenIn(d, p) : TeamCode(d, p) = TeamOf[d.version][g]
    <2>1. PICK g \in DOMAIN d.groups : p \in DOMAIN d.groups[g] /\ TeamCode(d, p) = TeamOf[d.version][g]
      BY <1>4 DEF SeenIn
    <2>2. /\ record.team = TeamOf[d.version][g] /\ record.application = NoApplication
          /\ record.key \in {DirectoryCode(q) : q \in Person}
      BY <1>1, <2>1
    <2>3. QED
      BY <1>2, <2>1, <2>2, TeamRowPromised
  <1>5. CASE TeamCode(d, p) = NoTeam
    <2>1. d.version \in Versions /\ w # {}
      BY DEF Grounds
    <2>2. ASSUME NEW b \in BindingsOf(d.version, record) PROVE b.target = Everyone
      <3>1. b \in Binding[d.version] /\ b.target \in {Everyone, NoTeam, DirectoryCode(p), NoApplication}
        BY <1>1, <1>5 DEF BindingsOf
      <3>2. b.target \in BindingTarget
        BY <2>1, <3>1, TargetsAre
      <3>3. QED
        BY <3>1, <3>2, CodesAssumption
    <2>3. PICK m \in w : TRUE
      BY <2>1
    <2>4. QED
      BY <2>2, <2>3, Promised
  <1>6. QED
    BY <1>3, <1>4, <1>5

LEMMA ScreenRowPromised ==
  ASSUME NEW d, NEW w, Grounds(d, w), NEW record \in Users(d) \union GroupRecords(d) \union ApplicationRecords,
         NEW caller \in Callers(record), caller.known
  PROVE  \E m \in w : Shown(d.version, d, record).models \subseteq GatewayModels(d.version, m, caller)
  <1>1. CASE record \in Users(d)
    BY <1>1, UserRowPromised
  <1>2. CASE record \in GroupRecords(d)
    <2>1. PICK g \in DOMAIN d.groups :
            record = [view |-> "groups", key |-> g, team |-> TeamOf[d.version][g],
                      application |-> NoApplication, members |-> DOMAIN d.groups[g]]
      BY <1>2 DEF GroupRecords
    <2>2. caller.person \in DOMAIN d.groups[g]
      BY <2>1 DEF Callers
    <2>3. CASE d.state = "complete"
      <3>1. ToldOf(d.groups[g], w, g)
        BY <2>3 DEF Grounds
      <3>2. caller.person \in Person
        BY <2>2, <3>1 DEF ToldOf
      <3>3. g \in GovernedGroup
        BY DEF Grounds
      <3>4. QED
        BY <2>1, <2>2, <3>2, <3>3, TeamRowPromised
    <2>4. CASE d.state # "complete"
      <3>1. Shown(d.version, d, record).models = {}
        BY <2>4 DEF Shown, Quality
      <3>2. QED
        BY <3>1 DEF Grounds
    <2>5. QED
      BY <2>3, <2>4
  <1>3. CASE record \in ApplicationRecords
    <2>1. PICK a \in Application :
            record = [view |-> "applications", key |-> a, team |-> NoTeam, application |-> a, members |-> Person]
      BY <1>3 DEF ApplicationRecords
    <2>2. a # NoApplication
      BY CodesAssumption DEF BindingTarget
    <2>3. caller.application = a
      BY <2>1, <2>2 DEF Callers
    <2>4. PICK m \in w : TRUE
      BY DEF Grounds
    <2>5. ASSUME NEW b \in BindingsOf(d.version, record)
          PROVE  b.target = Everyone \/ b.target \in NamedBy(d.version, m, caller)
      <3>1. b \in Binding[d.version] /\ b.target \in {Everyone, NoTeam, a}
        BY <2>1 DEF BindingsOf
      <3>2. d.version \in Versions
        BY DEF Grounds
      <3>3. b.target \in BindingTarget
        BY <3>1, <3>2, TargetsAre
      <3>4. QED
        BY <2>3, <3>1, <3>3, CodesAssumption DEF NamedBy
    <2>6. QED
      BY <2>4, <2>5, Promised
  <1>4. QED
    BY <1>1, <1>2, <1>3

\* Who was in one team all along is shown just what the gateway would serve.
LEMMA PlainIsExact ==
  ASSUME NEW d, NEW w, Grounds(d, w), d.state = "complete", NEW p \in Person, Plain(d.version, p, w)
  PROVE  \E record \in Users(d) :
            /\ record.key = DirectoryCode(p)
            /\ \A m \in w : Shown(d.version, d, record).models
                              = GatewayModels(d.version, m, [person |-> p, application |-> NoApplication, known |-> TRUE])
  <1> DEFINE v == d.version
             caller == [person |-> p, application |-> NoApplication, known |-> TRUE]
             record == [view |-> "users", key |-> DirectoryCode(p), team |-> TeamCode(d, p),
                        application |-> NoApplication, members |-> {p}]
  <1>1. PICK g \in Catalogue[v] : \A m \in w : \A x \in Catalogue[v] : m[x][p] # "none" <=> x = g
    BY DEF Plain
  <1>2. SeenIn(d, p) = {g}
    <2>1. DOMAIN d.groups = Catalogue[v]
      BY DEF Grounds
    <2>2. ASSUME NEW x \in Catalogue[v] PROVE p \in DOMAIN d.groups[x] <=> x = g
      <3>1. PICK n \in w : p \in DOMAIN d.groups[x] <=> n[x][p] # "none"
        BY <2>1, SeenThen
      <3>2. QED
        BY <1>1, <3>1
    <2>3. QED
      BY <2>1, <2>2 DEF SeenIn
  <1>3. PICK t : t = TeamOf[v][g]
    OBVIOUS
  <1>4. TeamCode(d, p) = t
    <2>1. {TeamOf[d.version][x] : x \in SeenIn(d, p)} = {t}
      BY <1>2, <1>3
    <2>2. Cardinality({t}) = 1 /\ (CHOOSE y \in {t} : TRUE) = t
      BY FS_Singleton
    <2>3. QED
      BY <2>1, <2>2 DEF TeamCode
  <1>5. record \in Users(d)
    BY <1>2 DEF Users
  <1>6. v \in Versions /\ \A b \in Binding[v] : b.target # SubjectKey(p)
    BY DEF Plain, Grounds
  <1> DEFINE B == {b \in Binding[v] : b.target \in {Everyone, t}}
  <1>7. BindingsOf(v, record) = B
    <2>1. \A b \in Binding[v] : b.target \notin {DirectoryCode(p), NoApplication}
      BY <1>6, TargetsAre, CodesAssumption
    <2>2. record.team = t /\ record.key = DirectoryCode(p) /\ record.application = NoApplication
      BY <1>4
    <2> HIDE DEF record
    <2>3. QED
      BY <2>1, <2>2 DEF BindingsOf
  <1>8. Shown(v, d, record).models = IF \E b \in B : b.target # Everyone THEN Allowlist(B) ELSE {}
    <2> HIDE DEF record, B
    <2>1. QED
      BY <1>7 DEF Shown, Quality, Specific
  <1>9. ASSUME NEW m \in w
        PROVE  GatewayModels(v, m, caller) = IF \E b \in B : b.target # Everyone THEN Allowlist(B) ELSE {}
    <2>1. {x \in Catalogue[v] : m[x][p] # "none"} = {g}
      BY <1>1
    <2>2. PICK teams : teams = {TeamOf[v][y] : y \in {x \in Catalogue[v] : m[x][p] # "none"}}
      OBVIOUS
    <2>3. teams = {t}
      BY <1>3, <2>1, <2>2
    <2>4. \A b \in Binding[v] : b.target # NoApplication
      BY <1>6, TargetsAre, CodesAssumption
    <2>5. B = {b \in Binding[v] : b.target \in teams \union {Everyone, SubjectKey(p), NoApplication}}
      BY <1>6, <2>3, <2>4
    <2>6. caller.person = p /\ caller.application = NoApplication /\ caller.known
      OBVIOUS
    <2> HIDE DEF B, caller
    <2>7. QED
      BY <2>2, <2>5, <2>6 DEF GatewayModels
  <1>10. record.key = DirectoryCode(p)
    OBVIOUS
  <1> HIDE DEF B, record
  <1>11. QED
    BY <1>5, <1>8, <1>9, <1>10

\* The users-and-groups screen promises nobody what the gateway would have refused
\* all the while the roster was read, and shows who was in one team all along exactly
\* what the gateway would serve.
THEOREM RosterPromises == RosterSpec => RosterShowsPolicy
  <1>1. ASSUME RosterInv, NEW h \in Host, Put(h) PROVE Grounds(snapshot', witnessed[h])
    BY <1>1, PutSays DEF Grounds
  <1>2. ASSUME RosterInv, NEW h \in Host, Put(h), NEW reader \in Reader,
               NEW row \in Rows(snapshot'.version, snapshot', reader), NEW caller \in Callers(row.record),
               caller.known
        PROVE  \E m \in witnessed[h] : row.policy.models \subseteq GatewayModels(snapshot'.version, m, caller)
    <2>1. PICK d : d = snapshot'
      OBVIOUS
    <2>2. Grounds(d, witnessed[h])
      BY <1>1, <1>2, <2>1
    <2>3. row \in Projected(d.version, d, reader)
      BY <2>1 DEF Rows
    <2>4. PICK x \in Visible(d, reader) \union ApplicationRecords :
            row = [record |-> x, policy |-> Shown(d.version, d, x)]
      BY <2>3 DEF Projected
    <2>5. x \in Users(d) \union GroupRecords(d) \union ApplicationRecords
      BY <2>4 DEF Visible
    <2>6. row.record = x /\ row.policy = Shown(d.version, d, x)
      BY <2>4
    <2>7. QED
      BY <1>2, <2>1, <2>2, <2>5, <2>6, ScreenRowPromised
  <1>3. ASSUME RosterInv, NEW h \in Host, Put(h), NEW p \in Person, snapshot'.state = "complete",
               Plain(snapshot'.version, p, witnessed[h])
        PROVE  \E record \in Users(snapshot') :
                  /\ record.key = DirectoryCode(p)
                  /\ \A m \in witnessed[h] :
                        Shown(snapshot'.version, snapshot', record).models
                          = GatewayModels(snapshot'.version, m, [person |-> p, application |-> NoApplication, known |-> TRUE])
    <2>1. PICK d : d = snapshot'
      OBVIOUS
    <2>2. Grounds(d, witnessed[h])
      BY <1>1, <1>3, <2>1
    <2>3. QED
      BY <1>3, <2>1, <2>2, PlainIsExact
  <1>4. RosterInv /\ [RosterNext]_rosterVars =>
          [\A h \in Host : Put(h) =>
             LET v == snapshot'.version IN
             /\ \A row \in UNION {Rows(v, snapshot', reader) : reader \in Reader} :
                   \A caller \in Callers(row.record) : caller.known => \E m \in witnessed[h] :
                       row.policy.models \subseteq GatewayModels(v, m, caller)
             /\ \A p \in Person :
                   snapshot'.state = "complete" /\ Plain(v, p, witnessed[h]) =>
                       \E record \in Users(snapshot') :
                           /\ record.key = DirectoryCode(p)
                           /\ \A m \in witnessed[h] :
                                 Shown(v, snapshot', record).models
                                     = GatewayModels(v, m, [person |-> p, application |-> NoApplication, known |-> TRUE])]_rosterVars
    BY <1>2, <1>3
  <1>5. QED
    BY <1>4, RosterInvariant, PTL DEF RosterSpec, RosterShowsPolicy

=============================================================================
