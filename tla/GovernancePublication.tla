------------------------ MODULE GovernancePublication ------------------------
(***************************************************************************)
(* Proposing, approving and publishing governance content while several    *)
(* administrators' requests interleave at every store call.                *)
(*                                                                         *)
(* The governance container holds one document per revision, one draft per *)
(* revision and one snapshot per target.  A document is replaced under the *)
(* entity tag it was read with (ifMatch) or created only when absent; the  *)
(* tag is modelled as a version that counts the document's writes, 0 while *)
(* it does not exist.  Between two store calls a request holds only what   *)
(* it read; any other request may run, and the host may lose the request   *)
(* at any point.  `at' stamps, response bodies and the validation of the   *)
(* request body are left out.  The drafts are written once, so the read of *)
(* a draft is taken together with the read of its revision.                *)
(***************************************************************************)
EXTENDS Lifecycle, FiniteSets

CONSTANTS
  Admin,         \* administrators whose requests the service runs
  Bootstrap,     \* the author an initial import is recorded under
  SelfApprover,  \* administrators granted approve-own-configuration
  Owner,         \* administrators granted abandon-legacy-configuration
  Content,       \* governance sets that can be proposed
  NoContent,     \* a snapshot document that does not exist
  NoDoc,         \* a revision or draft document that does not exist
  Operation,     \* the routes that are called
  MaxRevision,   \* bound: revision numbers in use
  MaxRequest,    \* bound: requests ever issued
  MaxOverlap     \* bound: requests running at once

ASSUME ActorAssumption == /\ Bootstrap \notin Admin
                          /\ Actor = Admin \cup {Bootstrap}
                          /\ SelfApprover \subseteq Admin
                          /\ Owner \subseteq Admin
ASSUME ContentAssumption == NoContent \notin Content
ASSUME BoundAssumption == /\ MaxRevision \in Nat \ {0}
                          /\ MaxRequest \in Nat
                          /\ MaxOverlap \in Nat

Operations == {"propose", "import", "remove", "resume", "resumeImport", "withdraw", "abandon"}
ASSUME OperationAssumption == Operation \subseteq Operations

Number == 1 .. MaxRevision

Draft == [content : Content, author : Actor]

ASSUME NoDocAssumption == NoDoc \notin Revision /\ NoDoc \notin Draft

VARIABLES
  revision,   \* revision[n]: the stored configuration revision n, or NoDoc
  version,    \* version[n]: its entity tag
  draft,      \* draft[n]: content and author of the stored draft n, or NoDoc
  snapshot,   \* snapshot[t]: entity tag and content of the live document of target t
  request,    \* request[a]: what administrator a's running request knows
  issued,     \* how many requests have been issued
  landed      \* landed[n]: targets that some publisher of revision n has written (history)

store == <<revision, version, draft, snapshot, landed>>
vars  == <<revision, version, draft, snapshot, request, issued, landed>>

-----------------------------------------------------------------------------
(* Reading the revisions *)

Stored == { n \in Number : revision[n] # NoDoc }

InFlightStates == {"draft", "approved", "publishing", "failed"}

Unfinished == { n \in Stored : revision[n].state \in InFlightStates }

\* The query is ordered by revision id and the last one in flight wins.
InFlight(n) == n \in Unfinished /\ \A m \in Unfinished : m <= n

\* One more than the highest number stored.
NextNumber(n) == (\A m \in Stored : m < n) /\ (n = 1 \/ n - 1 \in Stored)

\* The revision the console names as the one being served.
ActiveRevision(n) ==
  /\ n \in Stored /\ revision[n].state = "active"
  /\ \A m \in Stored : revision[m].state = "active" => m <= n

-----------------------------------------------------------------------------
(* Requests *)

Phases == {"idle", "query", "number", "putDraft", "putRevision",
           "read", "approve", "begin", "fail", "retry", "start",
           "version", "write", "readBack", "outcomes", "finish",
           "readOwn", "putOwn"}

Idle == [phase |-> "idle", op |-> "none", number |-> 0, content |-> NoContent,
         held |-> NoDoc, tag |-> 0, targetTag |-> 0]

Initial(r) == r.op \in {"import", "resumeImport"}

End(a) == request' = [request EXCEPT ![a] = Idle]

Init ==
  /\ revision = [n \in Number |-> NoDoc]
  /\ version  = [n \in Number |-> 0]
  /\ draft    = [n \in Number |-> NoDoc]
  /\ snapshot = [t \in Target |-> [tag |-> 0, content |-> NoContent]]
  /\ request  = [a \in Admin |-> Idle]
  /\ issued   = 0
  /\ landed   = [n \in Number |-> {}]

Issue(a, op, n, c) ==
  /\ request[a] = Idle
  /\ issued < MaxRequest
  /\ Cardinality({ b \in Admin : request[b] # Idle }) < MaxOverlap
  /\ issued' = issued + 1
  /\ request' = [request EXCEPT ![a] =
       [Idle EXCEPT !.phase   = CASE op \in {"withdraw", "abandon"} -> "readOwn"
                                  [] op = "remove"                  -> "number"
                                  [] OTHER                          -> "query",
                    !.op      = op,
                    !.number  = n,
                    !.content = c]]
  /\ UNCHANGED store

\* Proposing carries content and no revision; the others name a revision.
IssueSome(a) ==
  \/ \E op \in Operation \cap {"propose", "import", "remove"}, c \in Content : Issue(a, op, 0, c)
  \/ \E op \in Operation \ {"propose", "import", "remove"}, n \in Number : Issue(a, op, n, NoContent)

\* The request is lost: the host stops, or an exception leaves the handler.
Lose(a) ==
  /\ request[a] # Idle
  /\ End(a)
  /\ UNCHANGED <<store, issued>>

-----------------------------------------------------------------------------
(* publishGovernanceContent up to the first write *)

\* Fault: an import that was interrupted counts as an existing set.
NeverFirstImport == FALSE

FirstImportInFlight == Stored = {1} /\ InFlight(1)

Proceeds(r) ==
  /\ Initial(r) => Stored = {} \/ FirstImportInFlight
  /\ r.op \in {"propose", "import"} => Unfinished = {}
  /\ r.op \in {"resume", "resumeImport"} => InFlight(r.number)

Query(a) ==
  /\ request[a].phase = "query"
  /\ IF Proceeds(request[a])
       THEN request' = [request EXCEPT ![a].phase =
              IF request[a].op \in {"propose", "import"} THEN "number" ELSE "read"]
       ELSE End(a)
  /\ UNCHANGED <<store, issued>>

(* drafts.propose *)

TakeNumber(a) ==
  /\ request[a].phase = "number"
  /\ \E n \in Number :
       /\ NextNumber(n)
       /\ request' = [request EXCEPT ![a].phase = "putDraft", ![a].number = n]
  /\ UNCHANGED <<store, issued>>

Author(a) == IF request[a].op = "import" THEN Bootstrap ELSE a

\* Fault: the draft is replaced when one is already there.
DraftWritable(n) == TRUE

DraftAbsent(n) == draft[n] = NoDoc

PutDraft(a) ==
  LET n == request[a].number IN
  /\ request[a].phase = "putDraft"
  /\ IF DraftAbsent(n)
       THEN /\ draft' = [draft EXCEPT ![n] = [content |-> request[a].content, author |-> Author(a)]]
            /\ request' = [request EXCEPT ![a].phase = "putRevision"]
       ELSE /\ End(a)
            /\ UNCHANGED draft
  /\ UNCHANGED <<revision, version, snapshot, issued, landed>>

PutRevision(a) ==
  LET n   == request[a].number
      rev == CreateRevision(n, Author(a)) IN
  /\ request[a].phase = "putRevision"
  /\ IF version[n] = 0
       THEN /\ revision' = [revision EXCEPT ![n] = rev]
            /\ version'  = [version EXCEPT ![n] = 1]
            /\ IF request[a].op = "import"
                 THEN request' = [request EXCEPT ![a].phase = "approve",
                                                 ![a].held  = rev,
                                                 ![a].tag   = 1]
                 ELSE End(a)
       ELSE /\ End(a)
            /\ UNCHANGED <<revision, version>>
  /\ UNCHANGED <<draft, snapshot, issued, landed>>

-----------------------------------------------------------------------------
(* Resuming a held revision *)

AfterRead(state) ==
  CASE state = "draft"      -> "approve"
    [] state = "approved"   -> "begin"
    [] state = "publishing" -> "fail"
    [] OTHER                -> "retry"

\* An import is resumed as an import.
Resumable(n, r) == draft[n] # NoDoc /\ (revision[n].author = Bootstrap => Initial(r))

Read(a) ==
  LET n == request[a].number IN
  /\ request[a].phase = "read"
  /\ IF Resumable(n, request[a])
       THEN request' = [request EXCEPT ![a].phase   = AfterRead(revision[n].state),
                                       ![a].held    = revision[n],
                                       ![a].tag     = version[n],
                                       ![a].content = draft[n].content]
       ELSE End(a)
  /\ UNCHANGED <<store, issued>>

\* What this service states with every command: the number it read and nothing
\* else in flight.
Stated(a) == [expected   |-> request[a].held.number,
              publishing |-> NoRevision,
              previous   |-> NoRevision,
              reason     |-> TRUE,
              granted    |-> a \in SelfApprover]

\* Fault: a replace that does not check the entity tag.
TagIgnored(a) == TRUE

TagHolds(a) == request[a].tag = version[request[a].number]

\* Replaces the stored revision under the tag that is held and moves on to `phase',
\* or ends the request on a conflict.
PutHeld(a, rev, phase) ==
  LET n == request[a].number IN
  /\ IF TagHolds(a)
       THEN /\ revision' = [revision EXCEPT ![n] = rev]
            /\ version'  = [version EXCEPT ![n] = @ + 1]
            /\ IF phase = "idle"
                 THEN End(a)
                 ELSE request' = [request EXCEPT ![a].phase = phase,
                                                 ![a].held  = rev,
                                                 ![a].tag   = version[n] + 1]
       ELSE /\ End(a)
            /\ UNCHANGED <<revision, version>>
  /\ UNCHANGED <<draft, snapshot, landed, issued>>

\* Applies a command to the held revision and stores the result, or refuses.
ApplyAndPut(a, command, phase) ==
  IF Accepts(request[a].held, command, a, Stated(a))
    THEN PutHeld(a, Applied(request[a].held, command, a, Stated(a)), phase)
    ELSE /\ End(a)
         /\ UNCHANGED <<store, issued>>

Approve(a) ==
  /\ request[a].phase = "approve"
  /\ ApplyAndPut(a, "approve", "begin")

MarkFailed(a) ==
  /\ request[a].phase = "fail"
  /\ ApplyAndPut(a, "fail", "retry")

Pending(rev) == { t \in Target : rev.outcome[t] = "pending" }

AfterTarget(rev) == IF Pending(rev) = {} THEN "outcomes" ELSE "version"

Retry(a) ==
  /\ request[a].phase = "retry"
  /\ ApplyAndPut(a, "retry",
       AfterTarget(Applied(request[a].held, "retry", a, Stated(a))))

(* proposals.publish reads the revision and its draft again *)

Begin(a) ==
  LET n == request[a].number IN
  /\ request[a].phase = "begin"
  /\ request' = [request EXCEPT ![a].phase   = "start",
                                ![a].held    = revision[n],
                                ![a].tag     = version[n],
                                ![a].content = draft[n].content]
  /\ UNCHANGED <<store, issued>>

Start(a) ==
  /\ request[a].phase = "start"
  /\ ApplyAndPut(a, "publish", "version")

-----------------------------------------------------------------------------
(* publisher.publish: one target at a time *)

\* Only a pending target is attempted, in the order the revision declares them.
Current(a, t) ==
  /\ t \in Pending(request[a].held)
  /\ \A u \in Pending(request[a].held) : t <= u

\* Fault: every attempt is recorded as confirmed.
RecordVerified(a, t, outcome) ==
  LET rev == Recorded(request[a].held, t, "verified") IN
  request' = [request EXCEPT ![a].held = rev, ![a].phase = AfterTarget(rev)]

Record(a, t, outcome) ==
  LET rev == Recorded(request[a].held, t, outcome) IN
  IF Recordable(request[a].held, t, outcome, TRUE)
    THEN request' = [request EXCEPT ![a].held = rev, ![a].phase = AfterTarget(rev)]
    ELSE End(a)

\* The content of this target is absent or no longer valid at this instant.
RefuseContent(a, t) ==
  /\ request[a].phase = "version"
  /\ Record(a, t, "failed")
  /\ UNCHANGED <<store, issued>>

ReadVersion(a, t) ==
  /\ request[a].phase = "version"
  /\ request' = [request EXCEPT ![a].phase = "write", ![a].targetTag = snapshot[t].tag]
  /\ UNCHANGED <<store, issued>>

\* The put that lands.  Its response may still be lost, and any error it raises
\* fails the target.
WriteTarget(a, t) ==
  /\ request[a].phase = "write"
  /\ request[a].targetTag = snapshot[t].tag
  /\ snapshot' = [snapshot EXCEPT ![t] = [tag |-> @.tag + 1, content |-> request[a].content]]
  /\ landed' = [landed EXCEPT ![request[a].number] = @ \cup {t}]
  /\ \/ request' = [request EXCEPT ![a].phase = "readBack"]
     \/ Record(a, t, "failed")
  /\ UNCHANGED <<revision, version, draft, issued>>

\* The put that does not land: another writer was first, or the store refused.
WriteRefused(a, t) ==
  /\ request[a].phase = "write"
  /\ Record(a, t, "failed")
  /\ UNCHANGED <<store, issued>>

(***************************************************************************)
(* What a read-back compares.  stableForm() serialises the document with   *)
(* its own top-level keys as the replacer array, and JSON.stringify        *)
(* applies that array at every depth: of the nested snapshot (or           *)
(* membership evidence) only members named like a top-level key survive,   *)
(* so two documents of one target compare equal whatever their content.    *)
(***************************************************************************)
StableForm(t, content) == t

ReadBack(a, t) ==
  /\ request[a].phase = "readBack"
  /\ Record(a, t, IF /\ snapshot[t].content # NoContent
                     /\ StableForm(t, snapshot[t].content) = StableForm(t, request[a].content)
                  THEN "verified" ELSE "failed")
  /\ UNCHANGED <<store, issued>>

\* The outcomes reach the stored revision only after the last target.
PutOutcomes(a) ==
  /\ request[a].phase = "outcomes"
  /\ PutHeld(a, request[a].held, "finish")

Finish(a) ==
  /\ request[a].phase = "finish"
  /\ ApplyAndPut(a, IF FullyVerified(request[a].held) THEN "complete" ELSE "fail", "idle")

-----------------------------------------------------------------------------
(* Withdrawing one's own draft, and abandoning an import nobody can match *)

Removable(n, op, a) ==
  /\ revision[n] # NoDoc
  /\ op = "withdraw" => revision[n].state = "draft" /\ revision[n].author = a
  /\ op = "abandon"  => /\ revision[n].state \in {"draft", "approved", "failed"}
                        /\ revision[n].author = Bootstrap
                        /\ a \in Owner

ReadOwn(a) ==
  LET n == request[a].number IN
  /\ request[a].phase = "readOwn"
  /\ IF Removable(n, request[a].op, a)
       THEN request' = [request EXCEPT ![a].phase = "putOwn",
                                       ![a].held  = revision[n],
                                       ![a].tag   = version[n]]
       ELSE End(a)
  /\ UNCHANGED <<store, issued>>

PutOwn(a) ==
  /\ request[a].phase = "putOwn"
  /\ ApplyAndPut(a, request[a].op, "idle")

-----------------------------------------------------------------------------
Step(a) ==
  \/ Query(a) \/ TakeNumber(a) \/ PutDraft(a) \/ PutRevision(a)
  \/ Read(a) \/ Approve(a) \/ MarkFailed(a) \/ Retry(a) \/ Begin(a) \/ Start(a)
  \/ \E t \in Target :
       /\ request[a].held # NoDoc /\ Current(a, t)
       /\ RefuseContent(a, t) \/ ReadVersion(a, t) \/ WriteTarget(a, t) \/ WriteRefused(a, t)
            \/ ReadBack(a, t)
  \/ PutOutcomes(a) \/ Finish(a)
  \/ ReadOwn(a) \/ PutOwn(a)

Next == \E a \in Admin : IssueSome(a) \/ Lose(a) \/ Step(a)

Spec == Init /\ [][Next]_vars

-----------------------------------------------------------------------------
Request == [phase     : Phases,
            op        : Operations \cup {"none"},
            number    : 0 .. MaxRevision,
            content   : Content \cup {NoContent},
            held      : Revision \cup {NoDoc},
            tag       : Nat,
            targetTag : Nat]

TypeOK ==
  /\ revision \in [Number -> Revision \cup {NoDoc}]
  /\ version \in [Number -> Nat]
  /\ draft \in [Number -> Draft \cup {NoDoc}]
  /\ snapshot \in [Target -> [tag : Nat, content : Content \cup {NoContent}]]
  /\ request \in [Admin -> Request]
  /\ issued \in 0 .. MaxRequest
  /\ landed \in [Number -> SUBSET Target]

Publishing == {"version", "write", "readBack"}

\* An approver who may approve what this author wrote.
MayApprove(approver, author) ==
  approver \in Admin /\ (approver = author => approver \in SelfApprover)

(***************************************************************************)
(* What an approver reviewed is what lands: a request about to write a     *)
(* target holds the content of the stored draft, that draft was written by *)
(* the author of the revision, a permitted approver approved it, and the   *)
(* revision is already reserved for publication - whatever raced with it   *)
(* ("the content that was approved is the content that lands",             *)
(* draft-authoring.mjs:89).                                                *)
(***************************************************************************)
ApprovedContentLands ==
  \A a \in Admin : request[a].phase \in Publishing =>
    LET n == request[a].number IN
    /\ draft[n] # NoDoc /\ revision[n] # NoDoc
    /\ request[a].content = draft[n].content
    /\ draft[n].author = revision[n].author
    /\ MayApprove(revision[n].approver, revision[n].author)
    /\ revision[n].publisher # NoActor
    /\ revision[n].state \in {"publishing", "failed", "active"}

(***************************************************************************)
(* A proposal its author withdrew, or an owner abandoned, never reaches a  *)
(* target, although the withdrawal may race with an approval that goes on  *)
(* to publish ("a recovery abandonment cannot race a publisher after       *)
(* target writes begin", publish-governance-handler.test.mjs:437).         *)
(***************************************************************************)
WithdrawnNeverLands ==
  \A n \in Stored : revision[n].state = "withdrawn" =>
    /\ landed[n] = {}
    /\ \A a \in Admin : request[a].number = n => request[a].phase \notin Publishing

(***************************************************************************)
(* An active revision was written to every target it declares and approved *)
(* by somebody permitted to; its outcomes are not left over from a publish *)
(* that lost its request between a write and the record of it.             *)
(***************************************************************************)
ActiveHasLanded ==
  \A n \in Stored :
    /\ revision[n].state = "active" =>
         /\ landed[n] = Target
         /\ MayApprove(revision[n].approver, revision[n].author)
    /\ \A t \in Target : revision[n].outcome[t] = "verified" => t \in landed[n]

(***************************************************************************)
(* Of the publishers running for one revision - a resume takes over while  *)
(* the interrupted one may still be running - only one can still record    *)
(* what it did.                                                            *)
(***************************************************************************)
Recording == Publishing \cup {"outcomes", "finish"}

OnePublisherRecords ==
  \A a, b \in Admin :
    /\ a # b
    /\ request[a].phase \in Recording /\ request[b].phase \in Recording
    /\ request[a].number = request[b].number
    => ~(TagHolds(a) /\ TagHolds(b))

(***************************************************************************)
(* An active revision is never rewritten: no publisher that was taken over *)
(* and no late failure marks it anything else.                             *)
(***************************************************************************)
ActiveIsFinal ==
  [][\A n \in Stored : revision[n].state = "active" => revision'[n] = revision[n]]_vars

(***************************************************************************)
(* Once nothing is being published, what callers are served is the set of  *)
(* the revision the console names as serving ("The configuration genuinely *)
(* serving a deployment", composition-root.mjs:907).                       *)
(***************************************************************************)
Settled ==
  /\ \A a \in Admin : request[a].phase \notin Recording
  /\ \A n \in Stored : revision[n].state \notin {"publishing", "failed"}

ServedIsActive ==
  Settled => \A n \in Number : ActiveRevision(n) =>
    \A t \in Target : snapshot[t].content = draft[n].content

-----------------------------------------------------------------------------
(***************************************************************************)
(* The inductive invariant behind the safety properties.  A revision is    *)
(* lawful when its stamps agree with its state; a request that holds a     *)
(* revision under the tag that is still current holds the stored one, up   *)
(* to the outcomes it has not stored yet; and a request holding an older   *)
(* tag still knows that the publication it saw start was reserved.         *)
(***************************************************************************)
Published == {"publishing", "failed", "active"}

Lawful(rev) ==
  /\ rev.publisher # NoActor <=> rev.state \in Published
  /\ rev.state \in Published \cup {"approved"} => MayApprove(rev.approver, rev.author)
  /\ rev.state = "active" => \A t \in Target : rev.outcome[t] = "verified"

Landed(rev, n) == \A t \in Target : rev.outcome[t] = "verified" => t \in landed[n]

StoreOK(n) ==
  /\ version[n] = 0 <=> revision[n] = NoDoc
  /\ landed[n] # {} => revision[n] # NoDoc /\ revision[n].publisher # NoActor
  /\ revision[n] # NoDoc =>
       /\ revision[n].number = n
       /\ draft[n] # NoDoc /\ draft[n].author = revision[n].author
       /\ Lawful(revision[n])
       /\ Landed(revision[n], n)

Proposing == {"number", "putDraft", "putRevision"}
Holding   == {"approve", "begin", "fail", "retry", "start", "putOwn"} \cup Recording

HoldsRevision(r) ==
  LET n == r.number IN
  /\ n \in Number
  /\ r.held # NoDoc
  /\ revision[n] # NoDoc
  /\ r.held.number = n
  /\ r.held.author = revision[n].author
  /\ Lawful(r.held)
  /\ Landed(r.held, n)
  /\ r.tag > 0 /\ r.tag <= version[n]
  /\ r.tag = version[n] => revision[n] = [r.held EXCEPT !.outcome = revision[n].outcome]
  /\ r.held.publisher # NoActor => revision[n].publisher # NoActor
  /\ r.phase # "putOwn" => r.content = draft[n].content
  /\ r.phase \in Recording => r.held.state = "publishing"
  /\ r.phase \notin Recording /\ r.tag = version[n] => r.held = revision[n]

RequestOK(a, r) ==
  /\ r.phase \in Proposing \/ (r.phase = "query" /\ r.op \in {"propose", "import"})
       => r.content \in Content
  /\ r.phase = "query" => r.op \in {"propose", "import", "resume", "resumeImport"}
  /\ r.phase \in {"readOwn", "putOwn"} => r.op \in {"withdraw", "abandon"}
  /\ r.phase \in {"putDraft", "putRevision", "read", "readOwn"} => r.number \in Number
  /\ r.phase = "read" => revision[r.number] # NoDoc
  /\ r.phase = "putRevision" =>
       /\ revision[r.number] = NoDoc
       /\ draft[r.number] = [content |-> r.content,
                             author  |-> IF r.op = "import" THEN Bootstrap ELSE a]
  /\ r.phase \in Holding => HoldsRevision(r)
  /\ r.phase = "readBack" =>
       \E t \in landed[r.number] :
         /\ r.held.outcome[t] = "pending"
         /\ \A u \in Target : r.held.outcome[u] = "pending" => t <= u

OneProposer ==
  \A a, b \in Admin :
    /\ a # b
    /\ request[a].phase = "putRevision" /\ request[b].phase = "putRevision"
    => request[a].number # request[b].number

IInv ==
  /\ TypeOK
  /\ \A n \in Number : StoreOK(n)
  /\ \A a \in Admin : RequestOK(a, request[a])
  /\ OneProposer
  /\ OnePublisherRecords
==============================================================================
