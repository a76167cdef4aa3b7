--------------------- MODULE GovernancePublicationProofs ---------------------
(***************************************************************************)
(* The safety of GovernancePublication for every set of administrators,    *)
(* targets and contents and every bound.  IInv is inductive: each action   *)
(* either changes what one request knows (RequestStep) or stores the held  *)
(* revision under its tag (PutHeldStep); the three writes that do neither  *)
(* - the draft, the new revision and the target - have proofs of their     *)
(* own.  The second part is about requests that do not overlap             *)
(* (PublicationRegime): what is served, and where the screen leads.        *)
(***************************************************************************)
EXTENDS PublicationRegime, LifecycleTheorems, FiniteSetTheorems

USE NoActorAssumption, ActorAssumption

-----------------------------------------------------------------------------
(* The reducer *)

\* The commands this service issues.
Commands == {"approve", "publish", "fail", "retry", "complete", "withdraw", "abandon"}

\* An accepted command keeps a revision lawful and confirms no further target.
LEMMA AppliedLawful ==
  ASSUME NEW rev \in Revision, NEW c \in Commands, NEW a \in Admin,
         Lawful(rev), Accepts(rev, c, a, Stated(a)),
         NEW new, new = Applied(rev, c, a, Stated(a))
  PROVE  /\ new \in Revision
         /\ new.number = rev.number /\ new.author = rev.author
         /\ Lawful(new)
         /\ rev.publisher # NoActor => new.publisher # NoActor
         /\ \A t \in Target : new.outcome[t] = "verified" => rev.outcome[t] = "verified"
         /\ c \in {"publish", "retry"} <=> new.state = "publishing"
  <1> USE DEF Commands
  <1>1. /\ new.number = rev.number /\ new.author = rev.author
        /\ new.state = IF c = "withdraw" /\ rev.state = "draft"
                         THEN "withdrawn" ELSE NextState[c]
        /\ new.approver = IF c = "approve" THEN a
                          ELSE IF c = "withdraw" THEN NoActor ELSE rev.approver
        /\ new.publisher = IF c \in {"publish", "retry"} THEN a ELSE rev.publisher
        /\ new.outcome = IF c = "retry" THEN ResetTargetsForRetry(rev.outcome) ELSE rev.outcome
    BY AppliedFields
  <1>2. \A t \in Target : new.outcome[t] = "verified" <=> rev.outcome[t] = "verified"
    <2>1. rev.outcome \in [Target -> Outcome]
      BY DEF Revision
    <2>2. QED
      BY <1>1, <2>1, ResetKeepsVerified
  <1>3. rev.state \in AllowedFrom[c]
    BY DEF Accepts
  <1>4. c = "abandon" => rev.publisher = NoActor
    BY DEF Accepts, PublicationActivity
  <1>5. c = "complete" => \A t \in Target : rev.outcome[t] = "verified"
    BY DEF Accepts, FullyVerified
  <1>6. c = "approve" => MayApprove(a, rev.author)
    BY DEF Accepts, Stated, MayApprove
  <1>7. new \in Revision
    <2>1. c \in Command /\ a \in Actor /\ Stated(a).previous \in Nat
      BY DEF Command, Stated, NoRevision
    <2>2. QED
      BY <2>1, AppliedType
  <1>8. new.publisher # NoActor <=> new.state \in Published
    BY <1>1, <1>3, <1>4 DEF Lawful, AllowedFrom, NextState, Published
  <1>9. new.state \in Published \cup {"approved"} => MayApprove(new.approver, new.author)
    BY <1>1, <1>3, <1>6 DEF Lawful, AllowedFrom, NextState, Published
  <1>10. new.state = "active" => \A t \in Target : new.outcome[t] = "verified"
    BY <1>1, <1>2, <1>3, <1>5 DEF AllowedFrom, NextState
  <1>11. /\ c \in {"publish", "retry"} <=> new.state = "publishing"
         /\ rev.publisher # NoActor => new.publisher # NoActor
    BY <1>1, <1>3 DEF AllowedFrom, NextState
  <1>12. QED
    BY <1>1, <1>2, <1>7, <1>8, <1>9, <1>10, <1>11 DEF Lawful

-----------------------------------------------------------------------------
(* Steps that change what one request knows; of the store, at most a target *)

StoreUnchanged == UNCHANGED <<revision, version, draft, snapshot, landed>>

\* No revision and no draft changes, and only a reserved revision lands anything.
StoreKept ==
  /\ UNCHANGED <<revision, version, draft>>
  /\ snapshot' \in [Target -> [tag : Nat, content : Content \cup {NoContent}]]
  /\ landed' \in [Number -> SUBSET Target]
  /\ \A n \in Number :
       /\ landed[n] \subseteq landed'[n]
       /\ landed'[n] # landed[n] => revision[n] # NoDoc /\ revision[n].publisher # NoActor

LEMMA UnchangedIsKept == IInv /\ StoreUnchanged => StoreKept
  BY DEF IInv, TypeOK, StoreUnchanged, StoreKept

LEMMA LandedKept ==
  ASSUME StoreKept, NEW n \in Number, NEW rev, Landed(rev, n)
  PROVE  Landed(rev, n)'
  BY DEF StoreKept, Landed

\* A request that is not touched stays lawful.
LEMMA OthersKept ==
  ASSUME NEW b \in Admin, RequestOK(b, request[b]), StoreKept, request'[b] = request[b]
  PROVE  RequestOK(b, request[b])'
  <1> DEFINE r == request[b]
  <1>1. r.phase \in Holding => HoldsRevision(r)'
    BY LandedKept DEF RequestOK, HoldsRevision, StoreKept
  <1>2. r.phase \in Holding => r.number \in Number
    BY DEF RequestOK, HoldsRevision
  <1>3. QED
    BY <1>1, <1>2 DEF RequestOK, StoreKept, Holding, Recording, Publishing

LEMMA StoreOKKept ==
  ASSUME NEW n \in Number, StoreOK(n), StoreKept
  PROVE  StoreOK(n)'
  <1>1. UNCHANGED <<revision, version, draft>>
    BY DEF StoreKept
  <1>2. landed'[n] # {} => revision[n] # NoDoc /\ revision[n].publisher # NoActor
    BY DEF StoreOK, StoreKept
  <1>3. Landed(revision[n], n) => Landed(revision[n], n)'
    BY DEF StoreKept, Landed
  <1>4. QED
    BY <1>1, <1>2, <1>3 DEF StoreOK

\* A step of request a alone preserves the invariant when the request stays lawful,
\* puts no revision it did not put before and records under no other tag.
LEMMA RequestStep ==
  ASSUME IInv, NEW a \in Admin, NEW r \in Request, StoreKept,
         issued' \in 0 .. MaxRequest,
         request' = [request EXCEPT ![a] = r],
         RequestOK(a, r)',
         r.phase # "putRevision",
         r.phase \in Recording =>
           /\ request[a].phase \in Recording
           /\ r.number = request[a].number /\ r.tag = request[a].tag
  PROVE  IInv'
  <1>1. request \in [Admin -> Request] /\ request' \in [Admin -> Request]
    BY DEF IInv, TypeOK
  <1>2. TypeOK'
    BY <1>1 DEF IInv, TypeOK, StoreKept
  <1>3. \A n \in Number : StoreOK(n)'
    BY StoreOKKept DEF IInv
  <1>4. /\ request'[a] = r
        /\ \A b \in Admin : b # a => request'[b] = request[b]
    BY <1>1
  <1>5. ASSUME NEW b \in Admin
        PROVE  RequestOK(b, request[b])'
    <2>1. CASE b = a
      BY <1>4, <2>1
    <2>2. CASE b # a
      BY <1>4, <2>2, OthersKept DEF IInv
    <2>3. QED
      BY <2>1, <2>2
  <1>6. OneProposer'
    BY <1>4 DEF IInv, OneProposer
  <1>7. OnePublisherRecords'
    BY <1>4 DEF IInv, OnePublisherRecords, TagHolds, StoreKept, Recording, Publishing
  <1>8. QED
    BY <1>2, <1>3, <1>5, <1>6, <1>7 DEF IInv

LEMMA EndStep ==
  ASSUME IInv, NEW a \in Admin, End(a), StoreKept, issued' = issued
  PROVE  IInv'
  <1>1. Idle \in Request
    BY BoundAssumption DEF Idle, Request, Phases
  <1>2. RequestOK(a, Idle)'
    BY DEF Idle, RequestOK, Proposing, Holding, Recording, Publishing
  <1>3. issued' \in 0 .. MaxRequest
    BY DEF IInv, TypeOK
  <1>4. QED
    BY <1>1, <1>2, <1>3, RequestStep DEF End, Idle, Recording, Publishing

LEMMA IssueStep ==
  ASSUME IInv, NEW a \in Admin, IssueSome(a)
  PROVE  IInv'
  <1>1. PICK op \in Operations, n \in 0 .. MaxRevision, c \in Content \cup {NoContent} :
          /\ Issue(a, op, n, c)
          /\ op \in {"propose", "import", "remove"} => c \in Content
          /\ op \notin {"propose", "import", "remove"} => n \in Number
    BY OperationAssumption, BoundAssumption DEF IssueSome, Number
  <1>2. PICK r : /\ request' = [request EXCEPT ![a] = r]
                 /\ r = [Idle EXCEPT !.phase   = CASE op \in {"withdraw", "abandon"} -> "readOwn"
                                  [] op = "remove"                  -> "number"
                                  [] OTHER                          -> "query",
                    !.op      = op,
                    !.number  = n,
                    !.content = c]
    BY <1>1 DEF Issue
  <1>3. r \in Request
    BY <1>2, BoundAssumption DEF Request, Phases, Idle
  <1>4. /\ r.phase = IF op \in {"withdraw", "abandon"} THEN "readOwn"
                     ELSE IF op = "remove" THEN "number" ELSE "query"
        /\ r.op = op /\ r.number = n /\ r.content = c
    BY <1>2 DEF Idle
  <1>5. RequestOK(a, r)'
    BY <1>1, <1>4 DEF RequestOK, Operations, Proposing, Holding, Recording, Publishing
  <1>6. issued' \in 0 .. MaxRequest
    BY <1>1, BoundAssumption DEF Issue, IInv, TypeOK
  <1>7. StoreKept
    BY <1>1, UnchangedIsKept DEF Issue, store, StoreUnchanged
  <1>8. request' = [request EXCEPT ![a] = r] /\ r.phase \in {"readOwn", "number", "query"}
    BY <1>2, <1>4
  <1>9. QED
    BY <1>3, <1>5, <1>6, <1>7, <1>8, RequestStep DEF Recording, Publishing

LEMMA LoseStep ==
  ASSUME IInv, NEW a \in Admin, Lose(a)
  PROVE  IInv'
  BY EndStep, UnchangedIsKept DEF Lose, store, StoreUnchanged

\* A request that only moves from one phase to another.
LEMMA MoveStep ==
  ASSUME IInv, NEW a \in Admin, NEW p \in Phases, StoreKept, issued' = issued,
         NEW r, r = [request[a] EXCEPT !.phase = p], request' = [request EXCEPT ![a] = r],
         RequestOK(a, r)', p # "putRevision",
         p \in Recording => request[a].phase \in Recording
  PROVE  IInv'
  <1>1. request[a] \in Request
    BY DEF IInv, TypeOK
  <1>2. r \in Request /\ r.phase = p /\ r.number = request[a].number /\ r.tag = request[a].tag
    BY <1>1 DEF Request
  <1>3. issued' \in 0 .. MaxRequest
    BY DEF IInv, TypeOK
  <1>4. QED
    BY <1>2, <1>3, RequestStep

LEMMA QueryStep ==
  ASSUME IInv, NEW a \in Admin, Query(a)
  PROVE  IInv'
  <1>1. request[a] \in Request /\ RequestOK(a, request[a]) /\ request[a].phase = "query"
    BY DEF IInv, TypeOK, Query
  <1>2. StoreUnchanged /\ StoreKept /\ issued' = issued
    BY UnchangedIsKept DEF Query, store, StoreUnchanged
  <1>3. CASE ~Proceeds(request[a])
    BY <1>2, <1>3, EndStep DEF Query
  <1>4. CASE Proceeds(request[a])
    <2>1. PICK p \in {"number", "read"} :
            /\ p = IF request[a].op \in {"propose", "import"} THEN "number" ELSE "read"
            /\ request' = [request EXCEPT ![a] = [request[a] EXCEPT !.phase = p]]
      BY <1>4 DEF Query
    <2>2. PICK r : r = [request[a] EXCEPT !.phase = p]
      OBVIOUS
    <2>3. r.phase = p /\ r.op = request[a].op /\ r.number = request[a].number
                     /\ r.content = request[a].content
      BY <1>1, <2>2 DEF Request
    <2>4. p = "number" => r.content \in Content
      BY <1>1, <2>1, <2>3 DEF RequestOK
    <2>5. p = "read" => r.number \in Number /\ revision'[r.number] # NoDoc
      BY <1>1, <1>2, <1>4, <2>1, <2>3
      DEF RequestOK, Proceeds, InFlight, Unfinished, Stored, StoreUnchanged
    <2>6. RequestOK(a, r)'
      BY <2>1, <2>3, <2>4, <2>5 DEF RequestOK, Proposing, Holding, Recording, Publishing
    <2>7. QED
      BY <1>2, <2>1, <2>2, <2>6, MoveStep DEF Phases, Recording, Publishing
  <1>5. QED
    BY <1>3, <1>4

LEMMA TakeNumberStep ==
  ASSUME IInv, NEW a \in Admin, TakeNumber(a)
  PROVE  IInv'
  <1>1. request[a] \in Request /\ RequestOK(a, request[a]) /\ request[a].phase = "number"
    BY DEF IInv, TypeOK, TakeNumber
  <1>2. StoreKept /\ issued' \in 0 .. MaxRequest
    BY UnchangedIsKept DEF TakeNumber, store, StoreUnchanged, IInv, TypeOK
  <1>3. PICK n \in Number :
          request' = [request EXCEPT ![a] = [request[a] EXCEPT !.phase = "putDraft", !.number = n]]
    BY <1>1 DEF TakeNumber, IInv, TypeOK
  <1>4. PICK r : r = [request[a] EXCEPT !.phase = "putDraft", !.number = n]
    OBVIOUS
  <1>5. r \in Request /\ r.phase = "putDraft" /\ r.number = n /\ r.content = request[a].content
    <2>1. n \in 0 .. MaxRevision /\ "putDraft" \in Phases
      BY BoundAssumption DEF Number, Phases
    <2>2. QED
      BY <1>1, <1>4, <2>1 DEF Request
  <1>6. RequestOK(a, r)'
    BY <1>1, <1>5 DEF RequestOK, Proposing, Holding, Recording, Publishing
  <1>7. QED
    BY <1>2, <1>3, <1>4, <1>5, <1>6, RequestStep DEF Recording, Publishing

-----------------------------------------------------------------------------
(* Steps that read the stored revision *)

\* A request that has just read a stored revision holds what it read.
LEMMA HoldsStored ==
  ASSUME IInv, NEW a \in Admin, NEW n \in Number, revision[n] # NoDoc, StoreUnchanged,
         NEW r, r.number = n, r.held = revision[n], r.tag = version[n],
         r.phase \in {"approve", "begin", "fail", "retry", "start", "putOwn"},
         r.phase # "putOwn" => r.content = draft[n].content,
         r.phase = "putOwn" => r.op \in {"withdraw", "abandon"}
  PROVE  RequestOK(a, r)'
  <1>1. revision[n] \in Revision /\ version[n] \in Nat /\ StoreOK(n)
    BY DEF IInv, TypeOK
  <1>2. revision'[n] = revision[n] /\ version'[n] = version[n] /\ draft'[n] = draft[n]
    BY DEF StoreUnchanged
  <1>3. version[n] > 0 /\ r.held.number = n /\ Lawful(r.held) /\ Landed(r.held, n)
    BY <1>1 DEF StoreOK
  <1>4. Landed(r.held, n)'
    BY <1>3 DEF Landed, StoreUnchanged
  <1>5. revision[n] = [revision[n] EXCEPT !.outcome = revision[n].outcome]
    BY <1>1 DEF Revision
  <1>6. HoldsRevision(r)'
    BY <1>1, <1>2, <1>3, <1>4, <1>5 DEF HoldsRevision, Recording, Publishing
  <1>7. QED
    BY <1>6 DEF RequestOK, Proposing

LEMMA ReadOwnStep ==
  ASSUME IInv, NEW a \in Admin, ReadOwn(a)
  PROVE  IInv'
  <1> DEFINE n == request[a].number
  <1>1. /\ request[a] \in Request /\ request \in [Admin -> Request]
        /\ request[a].phase = "readOwn" /\ n \in Number
        /\ request[a].op \in {"withdraw", "abandon"}
    BY DEF IInv, TypeOK, ReadOwn, RequestOK
  <1>2. StoreUnchanged /\ StoreKept /\ issued' = issued /\ issued' \in 0 .. MaxRequest
    BY UnchangedIsKept DEF ReadOwn, store, StoreUnchanged, IInv, TypeOK
  <1>3. CASE End(a)
    BY <1>2, <1>3, EndStep
  <1>4. CASE ~End(a)
    <2>1. /\ revision[n] # NoDoc
          /\ request' = [request EXCEPT ![a] = [request[a] EXCEPT !.phase = "putOwn",
                                                   !.held  = revision[n],
                                                   !.tag   = version[n]]]
      <3>1. Removable(n, request[a].op, a)
        BY <1>4 DEF ReadOwn
      <3>2. request' = [request EXCEPT ![a].phase = "putOwn", ![a].held = revision[n],
                                       ![a].tag = version[n]]
        BY <3>1 DEF ReadOwn
      <3>3. QED
        BY <1>1, <3>1, <3>2 DEF Removable
    <2>2. PICK r : r = [request[a] EXCEPT !.phase = "putOwn", !.held = revision[n],
                                          !.tag = version[n]]
      OBVIOUS
    <2>3. revision[n] \in Revision /\ version[n] \in Nat
      BY <1>1, <2>1 DEF IInv, TypeOK
    <2>4. /\ r \in Request /\ r.phase = "putOwn" /\ r.number = n /\ r.op = request[a].op
          /\ r.held = revision[n] /\ r.tag = version[n]
      BY <1>1, <2>2, <2>3 DEF Request, Phases
    <2>5. RequestOK(a, r)'
      BY <1>1, <1>2, <2>1, <2>4, HoldsStored
    <2>6. QED
      BY <1>2, <2>1, <2>2, <2>4, <2>5, RequestStep DEF Recording, Publishing
  <1>5. QED
    BY <1>3, <1>4

\* What a request that goes on after reading holds.
LEMMA ReadHolds ==
  ASSUME NEW a \in Admin, Read(a), ~End(a)
  PROVE  request' = [request EXCEPT ![a].phase   = AfterRead(revision[request[a].number].state),
                                    ![a].held    = revision[request[a].number],
                                    ![a].tag     = version[request[a].number],
                                    ![a].content = draft[request[a].number].content]
  BY DEF Read

LEMMA ReadStep ==
  ASSUME IInv, NEW a \in Admin, Read(a)
  PROVE  IInv'
  <1> DEFINE n == request[a].number
  <1>1. /\ request[a] \in Request /\ request \in [Admin -> Request]
        /\ request[a].phase = "read" /\ n \in Number /\ revision[n] # NoDoc
    BY DEF IInv, TypeOK, Read, RequestOK
  <1>2. StoreUnchanged /\ StoreKept /\ issued' = issued /\ issued' \in 0 .. MaxRequest
    BY UnchangedIsKept DEF Read, store, StoreUnchanged, IInv, TypeOK
  <1>3. CASE End(a)
    BY <1>2, <1>3, EndStep
  <1>4. CASE ~End(a)
    <2>1. PICK p \in {"approve", "begin", "fail", "retry"} :
            request' = [request EXCEPT ![a] = [request[a] EXCEPT !.phase = p,
                                                   !.held    = revision[n],
                                                   !.tag     = version[n],
                                                   !.content = draft[n].content]]
      <3>1. PICK p \in {"approve", "begin", "fail", "retry"} : p = AfterRead(revision[n].state)
        BY DEF AfterRead
      <3>2. request' = [request EXCEPT ![a].phase = p, ![a].held = revision[n],
                                       ![a].tag = version[n], ![a].content = draft[n].content]
        BY <1>4, <3>1, ReadHolds
      <3>3. QED
        BY <1>1, <3>2
    <2>2. PICK r : r = [request[a] EXCEPT !.phase = p, !.held = revision[n],
                                          !.tag = version[n], !.content = draft[n].content]
      OBVIOUS
    <2>3. revision[n] \in Revision /\ version[n] \in Nat /\ draft[n] \in Draft
      BY <1>1 DEF IInv, TypeOK, StoreOK
    <2>4. /\ r \in Request /\ r.phase = p /\ r.number = n
          /\ r.held = revision[n] /\ r.tag = version[n] /\ r.content = draft[n].content
      BY <1>1, <2>2, <2>3 DEF Request, Phases, Draft
    <2>5. RequestOK(a, r)'
      BY <1>1, <1>2, <2>1, <2>4, HoldsStored
    <2>6. QED
      BY <1>2, <2>1, <2>2, <2>4, <2>5, RequestStep DEF Recording, Publishing
  <1>5. QED
    BY <1>3, <1>4

LEMMA BeginStep ==
  ASSUME IInv, NEW a \in Admin, Begin(a)
  PROVE  IInv'
  <1> DEFINE n == request[a].number
  <1>1. /\ request[a] \in Request /\ request \in [Admin -> Request]
        /\ request[a].phase = "begin" /\ n \in Number /\ revision[n] # NoDoc
    BY DEF IInv, TypeOK, Begin, RequestOK, Holding, HoldsRevision
  <1>2. StoreUnchanged /\ StoreKept /\ issued' \in 0 .. MaxRequest
    BY UnchangedIsKept DEF Begin, store, StoreUnchanged, IInv, TypeOK
  <1>3. request' = [request EXCEPT ![a] = [request[a] EXCEPT !.phase = "start",
                                               !.held    = revision[n],
                                               !.tag     = version[n],
                                               !.content = draft[n].content]]
    BY <1>1 DEF Begin
  <1>4. PICK r : r = [request[a] EXCEPT !.phase = "start", !.held = revision[n],
                                        !.tag = version[n], !.content = draft[n].content]
    OBVIOUS
  <1>5. revision[n] \in Revision /\ version[n] \in Nat /\ draft[n] \in Draft
    BY <1>1 DEF IInv, TypeOK, StoreOK
  <1>6. /\ r \in Request /\ r.phase = "start" /\ r.number = n
        /\ r.held = revision[n] /\ r.tag = version[n] /\ r.content = draft[n].content
    BY <1>1, <1>4, <1>5 DEF Request, Phases, Draft
  <1>7. RequestOK(a, r)'
    BY <1>1, <1>2, <1>6, HoldsStored
  <1>8. QED
    BY <1>2, <1>3, <1>4, <1>6, <1>7, RequestStep DEF Recording, Publishing

-----------------------------------------------------------------------------
(* Steps of a publisher *)

\* What a publisher knows of the revision it publishes.
LEMMA PublisherHolds ==
  ASSUME IInv, NEW a \in Admin, request[a].phase \in Recording
  PROVE  LET n == request[a].number IN
         /\ request[a] \in Request
         /\ n \in Number /\ revision[n] \in Revision /\ revision[n].publisher # NoActor
         /\ request[a].held \in Revision /\ request[a].held.state = "publishing"
         /\ HoldsRevision(request[a])
  <1> DEFINE n == request[a].number
             h == request[a].held
  <1>1. request[a] \in Request /\ HoldsRevision(request[a]) /\ h.state = "publishing"
    BY DEF IInv, TypeOK, RequestOK, HoldsRevision, Holding
  <1>2. n \in Number /\ revision[n] # NoDoc /\ h # NoDoc /\ Lawful(h)
    BY <1>1 DEF HoldsRevision
  <1>3. revision[n] \in Revision /\ h \in Revision
    BY <1>1, <1>2 DEF IInv, TypeOK, Request
  <1>4. revision[n].publisher # NoActor
    BY <1>1, <1>2 DEF HoldsRevision, Lawful, Published
  <1>5. QED
    BY <1>1, <1>2, <1>3, <1>4

\* A publisher that has recorded an outcome, or moved to its next store call, holds
\* the same revision up to that outcome.
LEMMA PublisherOK ==
  ASSUME IInv, NEW a \in Admin, request[a].phase \in Publishing, StoreKept,
         NEW r \in Request, r.phase \in Recording,
         r.number = request[a].number, r.tag = request[a].tag, r.content = request[a].content,
         r.held \in Revision, r.held = [request[a].held EXCEPT !.outcome = r.held.outcome],
         \A t \in Target : r.held.outcome[t] = "verified" => t \in landed'[r.number],
         r.phase = "readBack" =>
           \E t \in landed'[r.number] :
             /\ r.held.outcome[t] = "pending"
             /\ \A u \in Target : r.held.outcome[u] = "pending" => t <= u
  PROVE  RequestOK(a, r)'
  <1> DEFINE n == request[a].number
             h == request[a].held
  <1>1. /\ request[a] \in Request /\ n \in Number
        /\ revision[n] \in Revision /\ revision[n].publisher # NoActor
        /\ h \in Revision /\ h.state = "publishing" /\ HoldsRevision(request[a])
    BY PublisherHolds DEF Recording
  <1>2. revision' = revision /\ version' = version /\ draft' = draft
    BY DEF StoreKept
  <1>3. /\ r.held.number = h.number /\ r.held.author = h.author /\ r.held.state = h.state
        /\ r.held.approver = h.approver /\ r.held.publisher = h.publisher
        /\ r.held # NoDoc
    BY <1>1, NoDocAssumption DEF Revision
  <1>4. Lawful(r.held)
    BY <1>1, <1>3 DEF HoldsRevision, Lawful, Published
  <1>5. Landed(r.held, r.number)'
    BY DEF Landed
  <1>6. r.tag = version[n] => revision[n] = [r.held EXCEPT !.outcome = revision[n].outcome]
    <2>1. r.tag = version[n] => revision[n] = [h EXCEPT !.outcome = revision[n].outcome]
      BY <1>1 DEF HoldsRevision
    <2>2. [r.held EXCEPT !.outcome = revision[n].outcome]
            = [h EXCEPT !.outcome = revision[n].outcome]
      BY <1>1 DEF Revision
    <2>3. QED
      BY <2>1, <2>2
  <1>7. HoldsRevision(r)'
    <2>1. /\ r.number \in Number /\ r.held.number = r.number
          /\ r.held.author = revision[n].author /\ revision[n] # NoDoc
          /\ r.tag > 0 /\ r.tag <= version[n]
          /\ r.content = draft[n].content /\ r.held.state = "publishing"
      BY <1>1, <1>3 DEF HoldsRevision, Publishing
    <2>2. QED
      BY <1>1, <1>2, <1>3, <1>4, <1>5, <1>6, <2>1 DEF HoldsRevision
  <1>8. QED
    BY <1>7 DEF RequestOK, Proposing, Holding, Recording, Publishing

LEMMA RecordStep ==
  ASSUME IInv, NEW a \in Admin, NEW t \in Target, request[a].phase \in Publishing,
         Current(a, t), StoreKept, issued' = issued,
         NEW outcome \in {"verified", "failed"},
         outcome = "verified" => t \in landed'[request[a].number],
         Record(a, t, outcome)
  PROVE  IInv'
  <1> DEFINE n == request[a].number
             h == request[a].held
  <1>0. PICK new : new = Recorded(h, t, outcome)
    OBVIOUS
  <1>1. CASE End(a)
    BY <1>1, EndStep
  <1>2. CASE ~End(a)
    <2>1. PICK p \in {"outcomes", "version"} :
            request' = [request EXCEPT ![a] = [request[a] EXCEPT !.held = new, !.phase = p]]
      BY <1>0, <1>2 DEF Record, AfterTarget
    <2>2. PICK r : r = [request[a] EXCEPT !.held = new, !.phase = p]
      OBVIOUS
    <2>3. /\ request[a] \in Request /\ n \in Number /\ h \in Revision
          /\ HoldsRevision(request[a]) /\ issued' \in 0 .. MaxRequest
      BY PublisherHolds DEF Recording, IInv, TypeOK
    <2>4. /\ new \in Revision /\ new = [h EXCEPT !.outcome = new.outcome]
          /\ \A u \in Target : new.outcome[u] = IF u = t THEN outcome ELSE h.outcome[u]
      <3>1. outcome \in Outcome
        BY DEF Outcome
      <3>2. QED
        BY <1>0, <2>3, <3>1, RecordedFields
    <2>5. /\ r \in Request /\ r.held = new /\ r.phase = p /\ r.number = n
          /\ r.tag = request[a].tag /\ r.content = request[a].content
      BY <2>1, <2>2, <2>3, <2>4 DEF Request, Phases
    <2>6. \A u \in Target : new.outcome[u] = "verified" => u \in landed'[n]
      BY <2>3, <2>4, LandedKept DEF HoldsRevision, Landed
    <2>7. RequestOK(a, r)'
      BY <2>1, <2>3, <2>4, <2>5, <2>6, PublisherOK DEF Recording, Publishing
    <2>8. QED
      BY <2>1, <2>2, <2>3, <2>5, <2>7, RequestStep DEF Recording
  <1>3. QED
    BY <1>1, <1>2

LEMMA RefuseContentStep ==
  ASSUME IInv, NEW a \in Admin, NEW t \in Target, Current(a, t), RefuseContent(a, t)
  PROVE  IInv'
  <1>1. StoreKept /\ issued' = issued
    BY UnchangedIsKept DEF RefuseContent, store, StoreUnchanged
  <1>2. QED
    BY <1>1, RecordStep DEF RefuseContent, Publishing

LEMMA WriteRefusedStep ==
  ASSUME IInv, NEW a \in Admin, NEW t \in Target, Current(a, t), WriteRefused(a, t)
  PROVE  IInv'
  <1>1. StoreKept /\ issued' = issued
    BY UnchangedIsKept DEF WriteRefused, store, StoreUnchanged
  <1>2. QED
    BY <1>1, RecordStep DEF WriteRefused, Publishing

\* What is read back is the target the invariant says was written.
LEMMA ReadBackStep ==
  ASSUME IInv, NEW a \in Admin, NEW t \in Target, Current(a, t), ReadBack(a, t)
  PROVE  IInv'
  <1> DEFINE n == request[a].number
  <1>1. StoreUnchanged /\ StoreKept /\ issued' = issued
    BY UnchangedIsKept DEF ReadBack, store, StoreUnchanged
  <1>2. request[a].phase = "readBack" /\ n \in Number /\ RequestOK(a, request[a])
    BY PublisherHolds DEF ReadBack, Recording, Publishing, IInv
  <1>3. PICK s \in landed[n] : /\ request[a].held.outcome[s] = "pending"
                               /\ \A u \in Target : request[a].held.outcome[u] = "pending" => s <= u
    BY <1>2 DEF RequestOK
  <1>4. s \in Target
    BY <1>2 DEF IInv, TypeOK
  <1>5. s = t
    BY <1>3, <1>4, TargetAssumption DEF Current, Pending
  <1>6. t \in landed'[n]
    BY <1>1, <1>3, <1>5 DEF StoreUnchanged
  <1>7. \E outcome \in {"verified", "failed"} : Record(a, t, outcome)
    BY DEF ReadBack
  <1>8. QED
    BY <1>1, <1>2, <1>6, <1>7, RecordStep DEF Publishing

LEMMA ReadVersionStep ==
  ASSUME IInv, NEW a \in Admin, NEW t \in Target, ReadVersion(a, t)
  PROVE  IInv'
  <1>1. StoreKept /\ issued' \in 0 .. MaxRequest
    BY UnchangedIsKept DEF ReadVersion, store, StoreUnchanged, IInv, TypeOK
  <1>2. /\ request[a].phase = "version" /\ request[a] \in Request
        /\ request[a].held \in Revision /\ HoldsRevision(request[a])
        /\ snapshot[t].tag \in Nat
    BY PublisherHolds DEF ReadVersion, Recording, Publishing, IInv, TypeOK
  <1>3. request' = [request EXCEPT ![a] = [request[a] EXCEPT !.phase = "write",
                                                             !.targetTag = snapshot[t].tag]]
    BY DEF ReadVersion, IInv, TypeOK
  <1>4. PICK r : r = [request[a] EXCEPT !.phase = "write", !.targetTag = snapshot[t].tag]
    OBVIOUS
  <1>5. /\ r \in Request /\ r.held = request[a].held /\ r.phase = "write"
        /\ r.number = request[a].number /\ r.tag = request[a].tag
        /\ r.content = request[a].content
    BY <1>2, <1>4 DEF Request, Phases
  <1>6. r.held = [request[a].held EXCEPT !.outcome = r.held.outcome]
    BY <1>2, <1>5 DEF Revision
  <1>7. \A u \in Target : r.held.outcome[u] = "verified" => u \in landed'[r.number]
    BY <1>1, <1>2, <1>5, LandedKept DEF HoldsRevision, Landed
  <1>8. RequestOK(a, r)'
    BY <1>1, <1>2, <1>5, <1>6, <1>7, PublisherOK DEF Recording, Publishing
  <1>9. QED
    BY <1>1, <1>2, <1>3, <1>4, <1>5, <1>8, RequestStep DEF Recording, Publishing

LEMMA WriteTargetStep ==
  ASSUME IInv, NEW a \in Admin, NEW t \in Target, Current(a, t), WriteTarget(a, t)
  PROVE  IInv'
  <1> DEFINE n == request[a].number
  <1>1. /\ request[a].phase = "write" /\ request[a] \in Request /\ n \in Number
        /\ revision[n] \in Revision /\ revision[n].publisher # NoActor
        /\ request[a].held \in Revision /\ HoldsRevision(request[a])
        /\ request[a].content \in Content
    <2>1. /\ request[a].phase = "write" /\ request[a] \in Request /\ n \in Number
          /\ revision[n] \in Revision /\ revision[n].publisher # NoActor
          /\ request[a].held \in Revision /\ HoldsRevision(request[a])
      BY PublisherHolds DEF WriteTarget, Recording, Publishing
    <2>2. draft[n] \in Draft
      BY <2>1, NoDocAssumption DEF IInv, TypeOK, StoreOK
    <2>3. request[a].content = draft[n].content
      BY <2>1 DEF HoldsRevision
    <2>4. QED
      BY <2>1, <2>2, <2>3 DEF Draft
  <1>2. /\ landed' = [landed EXCEPT ![n] = @ \cup {t}]
        /\ landed \in [Number -> SUBSET Target]
        /\ issued' = issued /\ issued' \in 0 .. MaxRequest
    BY DEF WriteTarget, IInv, TypeOK
  <1>3. StoreKept
    <2>1. UNCHANGED <<revision, version, draft>>
      BY DEF WriteTarget
    <2>2. snapshot' \in [Target -> [tag : Nat, content : Content \cup {NoContent}]]
      BY <1>1 DEF WriteTarget, IInv, TypeOK
    <2>3. revision[n] # NoDoc
      BY <1>1 DEF HoldsRevision
    <2>4. QED
      BY <1>1, <1>2, <2>1, <2>2, <2>3 DEF StoreKept
  <1>4. CASE Record(a, t, "failed")
    BY <1>1, <1>2, <1>3, <1>4, RecordStep DEF Publishing
  <1>5. CASE request' = [request EXCEPT ![a].phase = "readBack"]
    <2>1. PICK r : r = [request[a] EXCEPT !.phase = "readBack"]
      OBVIOUS
    <2>2. /\ r \in Request /\ r.held = request[a].held /\ r.phase = "readBack"
          /\ r.number = n /\ r.tag = request[a].tag /\ r.content = request[a].content
      BY <1>1, <2>1 DEF Request, Phases
    <2>3. r.held = [request[a].held EXCEPT !.outcome = r.held.outcome]
      BY <1>1, <2>2 DEF Revision
    <2>4. \A u \in Target : r.held.outcome[u] = "verified" => u \in landed'[r.number]
      BY <1>1, <1>3, <2>2, LandedKept DEF HoldsRevision, Landed
    <2>5. t \in landed'[n]
      BY <1>1, <1>2
    <2>6. /\ r.held.outcome[t] = "pending"
          /\ \A u \in Target : r.held.outcome[u] = "pending" => t <= u
      BY <2>2 DEF Current, Pending
    <2>7. RequestOK(a, r)'
      BY <1>1, <1>3, <2>2, <2>3, <2>4, <2>5, <2>6, PublisherOK DEF Recording, Publishing
    <2>8. QED
      BY <1>1, <1>2, <1>3, <1>5, <2>1, <2>2, <2>7, MoveStep DEF Recording, Publishing, Phases
  <1>6. QED
    BY <1>4, <1>5 DEF WriteTarget

-----------------------------------------------------------------------------
(* Steps that replace the stored revision under the tag that is held *)

\* What is stored under a tag that is still current: a revision of the same number
\* and author, lawful, confirming only what landed, and reserved if the held one was.
LEMMA PutHeldStep ==
  ASSUME IInv, NEW a \in Admin, request[a].phase \in Holding, NEW rev \in Revision,
         rev.number = request[a].held.number, rev.author = request[a].held.author,
         Lawful(rev), Landed(rev, request[a].number),
         request[a].held.publisher # NoActor => rev.publisher # NoActor,
         NEW p \in {"idle", "begin", "retry", "version", "outcomes", "finish"},
         p # "idle" => request[a].phase # "putOwn",
         p \in Recording => rev.state = "publishing",
         PutHeld(a, rev, p)
  PROVE  IInv'
  <1>0. PICK n, h : n = request[a].number /\ h = request[a].held
    OBVIOUS
  <1>1. /\ request[a] \in Request /\ request \in [Admin -> Request] /\ HoldsRevision(request[a])
        /\ StoreUnchanged => StoreKept
    BY UnchangedIsKept DEF IInv, TypeOK, RequestOK
  <1>2. CASE ~TagHolds(a)
    BY <1>1, <1>2, EndStep DEF PutHeld, StoreUnchanged
  <1>3. CASE TagHolds(a)
    <2>1. /\ n \in Number /\ revision[n] # NoDoc /\ h # NoDoc /\ h.number = n
          /\ h.author = revision[n].author /\ version[n] \in Nat /\ version[n] > 0
          /\ request[a].tag = version[n]
          /\ revision[n] = [h EXCEPT !.outcome = revision[n].outcome]
          /\ request[a].phase # "putOwn" => request[a].content = draft[n].content
      BY <1>0, <1>1, <1>3 DEF HoldsRevision, TagHolds, IInv, TypeOK
    <2>2. h \in Revision /\ h.publisher = revision[n].publisher
      BY <1>0, <1>1, <2>1 DEF Request, Revision
    <2>3. revision[n].publisher # NoActor => rev.publisher # NoActor
      BY <1>0, <2>2
    <2>4. /\ revision' = [revision EXCEPT ![n] = rev]
          /\ version' = [version EXCEPT ![n] = version[n] + 1]
          /\ draft' = draft /\ snapshot' = snapshot /\ landed' = landed /\ issued' = issued
      BY <1>0, <1>3 DEF PutHeld
    <2>5. PICK r \in Request :
            /\ request' = [request EXCEPT ![a] = r]
            /\ r.phase = p
            /\ p # "idle" => /\ r.number = n /\ r.held = rev /\ r.tag = version[n] + 1
                             /\ r.content = request[a].content
      <3>1. CASE p = "idle"
        <4>1. Idle \in Request /\ Idle.phase = "idle"
          BY BoundAssumption DEF Idle, Request, Phases
        <4>2. QED
          BY <1>3, <3>1, <4>1 DEF PutHeld, End
      <3>2. CASE p # "idle"
        <4>1. PICK r : r = [request[a] EXCEPT !.phase = p, !.held = rev, !.tag = version[n] + 1]
          OBVIOUS
        <4>2. request' = [request EXCEPT ![a] = r]
          BY <1>0, <1>1, <1>3, <3>2, <4>1 DEF PutHeld
        <4>3. /\ r \in Request /\ r.phase = p /\ r.number = n /\ r.held = rev
              /\ r.tag = version[n] + 1 /\ r.content = request[a].content
          <5>1. p \in Phases /\ version[n] + 1 \in Nat
            BY <2>1 DEF Phases
          <5>2. QED
            BY <1>0, <1>1, <4>1, <5>1 DEF Request
        <4>4. QED
          BY <4>2, <4>3
      <3>3. QED
        BY <3>1, <3>2
    <2>6. /\ revision'[n] = rev /\ version'[n] = version[n] + 1 /\ rev # NoDoc
          /\ \A m \in Number : m # n => revision'[m] = revision[m] /\ version'[m] = version[m]
      BY <2>1, <2>4, NoDocAssumption DEF IInv, TypeOK
    <2>7. /\ request'[a] = r
          /\ \A b \in Admin : b # a => request'[b] = request[b]
      BY <1>1, <2>5
    <2>8. TypeOK'
      BY <1>1, <2>1, <2>4, <2>5 DEF IInv, TypeOK
    <2>9. ASSUME NEW m \in Number
          PROVE  StoreOK(m)'
      <3>1. StoreOK(m)
        BY DEF IInv
      <3>2. CASE m # n
        BY <2>4, <2>6, <3>1, <3>2 DEF StoreOK, Landed
      <3>3. CASE m = n
        <4>1. /\ version'[m] # 0 /\ revision'[m] = rev /\ rev # NoDoc /\ rev.number = m
          BY <1>0, <2>1, <2>6, <3>3
        <4>2. landed'[m] # {} => rev.publisher # NoActor
          BY <2>3, <2>4, <3>1, <3>3 DEF StoreOK
        <4>3. draft'[m] # NoDoc /\ draft'[m].author = rev.author
          BY <1>0, <2>1, <2>4, <3>1, <3>3 DEF StoreOK
        <4>4. Landed(rev, m)'
          BY <1>0, <2>4, <3>3 DEF Landed
        <4>5. QED
          BY <4>1, <4>2, <4>3, <4>4 DEF StoreOK, Landed
      <3>4. QED
        BY <3>2, <3>3
    <2>10. RequestOK(a, r)'
      <3>1. CASE p = "idle"
        BY <2>5, <3>1 DEF RequestOK, Proposing, Holding, Recording, Publishing
      <3>2. CASE p # "idle"
        <4>1. /\ r.number = n /\ r.held = rev /\ r.tag = version'[n] /\ r.phase = p
              /\ r.content = draft'[n].content
          BY <1>0, <2>1, <2>4, <2>5, <2>6, <3>2
        <4>2. rev = [rev EXCEPT !.outcome = rev.outcome]
          BY DEF Revision
        <4>3. Landed(rev, n)'
          BY <1>0, <2>4 DEF Landed
        <4>4. HoldsRevision(r)'
          BY <1>0, <2>1, <2>6, <3>2, <4>1, <4>2, <4>3 DEF HoldsRevision
        <4>5. QED
          BY <3>2, <4>1, <4>4 DEF RequestOK, Proposing, Recording, Publishing
      <3>3. QED
        BY <3>1, <3>2
    <2>11. ASSUME NEW b \in Admin
           PROVE  RequestOK(b, request[b])'
      <3>1. CASE b = a
        BY <2>7, <2>10, <3>1
      <3>2. CASE b # a
        <4>0. PICK s : s = request[b]
          OBVIOUS
        <4>1. request'[b] = s /\ RequestOK(b, s) /\ s \in Request
          BY <2>7, <3>2, <4>0 DEF IInv, TypeOK
        <4>2. s.phase \in Holding /\ s.number # n => HoldsRevision(s)'
          BY <2>4, <2>6, <4>1 DEF RequestOK, HoldsRevision, Landed
        <4>3. s.phase \in Holding /\ s.number = n => HoldsRevision(s)'
          <5> SUFFICES ASSUME s.phase \in Holding, s.number = n
                       PROVE  HoldsRevision(s)'
            OBVIOUS
          <5>1. HoldsRevision(s)
            BY <4>1 DEF RequestOK
          <5>2. s.tag # version'[n] /\ s.tag > 0 /\ s.tag <= version'[n]
            BY <2>1, <2>6, <4>1, <5>1 DEF HoldsRevision, Request
          <5>3. Landed(s.held, n)'
            BY <2>4, <5>1 DEF HoldsRevision, Landed
          <5>4. s.held.publisher # NoActor => rev.publisher # NoActor
            BY <2>3, <5>1 DEF HoldsRevision
          <5>5. s.held.author = rev.author
            BY <1>0, <2>1, <5>1 DEF HoldsRevision
          <5>6. QED
            BY <2>4, <2>6, <5>1, <5>2, <5>3, <5>4, <5>5 DEF HoldsRevision
        <4>4. s.phase = "read" => revision'[s.number] # NoDoc
          BY <2>6, <4>1 DEF RequestOK
        <4>5. s.phase = "putRevision" => revision'[s.number] = NoDoc
          BY <2>1, <2>6, <4>1 DEF RequestOK
        <4>6. RequestOK(b, s)'
          BY <2>4, <4>1, <4>2, <4>3, <4>4, <4>5 DEF RequestOK
        <4>7. QED
          BY <4>1, <4>6
      <3>3. QED
        BY <3>1, <3>2
    <2>12. OneProposer'
      BY <2>5, <2>7 DEF IInv, OneProposer
    <2>13. OnePublisherRecords'
      <3>1. ASSUME NEW b \in Admin, b # a, request[b].phase \in Recording, request[b].number = n
            PROVE  request[b].tag # version'[n]
        <4>1. HoldsRevision(request[b]) /\ request[b].tag \in Nat
          BY <3>1, PublisherHolds DEF Request
        <4>2. QED
          BY <2>1, <2>6, <3>1, <4>1 DEF HoldsRevision
      <3>2. ASSUME NEW b \in Admin, b # a, request[b].phase \in Recording,
                   request'[a].phase \in Recording, request'[a].number = request[b].number
            PROVE  request[b].tag # version'[request[b].number]
        BY <2>5, <2>7, <3>1, <3>2 DEF Recording, Publishing
      <3>3. ASSUME NEW b \in Admin, b # a, request[b].phase \in Recording,
                   request[b].tag = version'[request[b].number]
            PROVE  request[b].tag = version[request[b].number]
        BY <2>6, <3>1, <3>3 DEF IInv, RequestOK, HoldsRevision, Holding
      <3>4. QED
        BY <2>7, <3>2, <3>3 DEF IInv, OnePublisherRecords, TagHolds
    <2>14. QED
      BY <2>8, <2>9, <2>11, <2>12, <2>13 DEF IInv
  <1>4. QED
    BY <1>2, <1>3

\* A command applied to the held revision, and what it stores.
LEMMA ApplyStep ==
  ASSUME IInv, NEW a \in Admin, request[a].phase \in Holding, NEW c \in Commands,
         NEW p \in {"idle", "begin", "retry", "version", "outcomes", "finish"},
         p # "idle" => request[a].phase # "putOwn",
         p \in Recording => c \in {"publish", "retry"},
         ApplyAndPut(a, c, p)
  PROVE  IInv'
  <1>0. PICK n, h, new : /\ n = request[a].number /\ h = request[a].held
                         /\ new = Applied(h, c, a, Stated(a))
    OBVIOUS
  <1>1. CASE ~Accepts(h, c, a, Stated(a))
    BY <1>0, <1>1, EndStep, UnchangedIsKept DEF ApplyAndPut, store, StoreUnchanged
  <1>2. CASE Accepts(h, c, a, Stated(a))
    <2>1. /\ request[a] \in Request /\ n \in Number /\ h # NoDoc /\ Lawful(h) /\ Landed(h, n)
      BY <1>0 DEF IInv, TypeOK, RequestOK, HoldsRevision
    <2>2. h \in Revision
      BY <1>0, <2>1 DEF Request
    <2>3. /\ new \in Revision
          /\ new.number = h.number /\ new.author = h.author
          /\ Lawful(new)
          /\ h.publisher # NoActor => new.publisher # NoActor
          /\ \A t \in Target : new.outcome[t] = "verified" => h.outcome[t] = "verified"
          /\ c \in {"publish", "retry"} <=> new.state = "publishing"
      BY <1>0, <1>2, <2>1, <2>2, AppliedLawful
    <2>4. Landed(new, n)
      BY <2>1, <2>3 DEF Landed
    <2>5. PutHeld(a, new, p)
      BY <1>0, <1>2 DEF ApplyAndPut
    <2>6. QED
      BY <1>0, <2>3, <2>4, <2>5, PutHeldStep
  <1>3. QED
    BY <1>1, <1>2

LEMMA ApproveStep ==
  ASSUME IInv, NEW a \in Admin, Approve(a)
  PROVE  IInv'
  BY ApplyStep DEF Approve, Holding, Commands, Recording, Publishing

LEMMA MarkFailedStep ==
  ASSUME IInv, NEW a \in Admin, MarkFailed(a)
  PROVE  IInv'
  BY ApplyStep DEF MarkFailed, Holding, Commands, Recording, Publishing

LEMMA StartStep ==
  ASSUME IInv, NEW a \in Admin, Start(a)
  PROVE  IInv'
  BY ApplyStep DEF Start, Holding, Commands, Recording, Publishing

LEMMA RetryStep ==
  ASSUME IInv, NEW a \in Admin, Retry(a)
  PROVE  IInv'
  <1>1. PICK p \in {"outcomes", "version"} : ApplyAndPut(a, "retry", p)
    BY DEF Retry, AfterTarget
  <1>2. QED
    BY <1>1, ApplyStep DEF Retry, Holding, Commands, Recording, Publishing

LEMMA FinishStep ==
  ASSUME IInv, NEW a \in Admin, Finish(a)
  PROVE  IInv'
  <1>1. PICK c \in {"complete", "fail"} : ApplyAndPut(a, c, "idle")
    BY DEF Finish
  <1>2. QED
    BY <1>1, ApplyStep DEF Finish, Holding, Commands, Recording, Publishing

LEMMA PutOwnStep ==
  ASSUME IInv, NEW a \in Admin, PutOwn(a)
  PROVE  IInv'
  <1>1. request[a].op \in {"withdraw", "abandon"}
    BY DEF PutOwn, IInv, RequestOK
  <1>2. QED
    BY <1>1, ApplyStep DEF PutOwn, Holding, Commands, Recording, Publishing

LEMMA PutOutcomesStep ==
  ASSUME IInv, NEW a \in Admin, PutOutcomes(a)
  PROVE  IInv'
  <1>1. /\ request[a].phase = "outcomes"
        /\ request[a].held \in Revision /\ request[a].held.state = "publishing"
        /\ Lawful(request[a].held) /\ Landed(request[a].held, request[a].number)
    BY PublisherHolds DEF PutOutcomes, Recording, HoldsRevision
  <1>2. PICK rev : rev = request[a].held
    OBVIOUS
  <1>3. QED
    BY <1>1, <1>2, PutHeldStep DEF PutOutcomes, Holding, Recording, Publishing

-----------------------------------------------------------------------------
(* A proposal's two writes *)

LEMMA PutDraftStep ==
  ASSUME IInv, NEW a \in Admin, PutDraft(a)
  PROVE  IInv'
  <1>0. PICK n : n = request[a].number
    OBVIOUS
  <1>1. /\ request[a] \in Request /\ request \in [Admin -> Request]
        /\ request[a].phase = "putDraft" /\ n \in Number /\ request[a].content \in Content
    BY <1>0 DEF PutDraft, IInv, TypeOK, RequestOK, Proposing
  <1>2. CASE ~DraftAbsent(n)
    BY <1>0, <1>2, EndStep, UnchangedIsKept DEF PutDraft, StoreUnchanged
  <1>3. CASE DraftAbsent(n)
    <2>1. PICK d : d = [content |-> request[a].content, author |-> Author(a)]
      OBVIOUS
    <2>2. d \in Draft /\ d # NoDoc
      BY <1>1, <2>1, NoDocAssumption DEF Draft, Author
    <2>3. /\ draft' = [draft EXCEPT ![n] = d]
          /\ UNCHANGED <<revision, version, snapshot, landed, issued>>
          /\ request' = [request EXCEPT ![a] = [request[a] EXCEPT !.phase = "putRevision"]]
      BY <1>0, <1>1, <1>3, <2>1 DEF PutDraft
    <2>4. PICK r : r = [request[a] EXCEPT !.phase = "putRevision"]
      OBVIOUS
    <2>5. /\ r \in Request /\ r.phase = "putRevision" /\ r.number = n /\ r.op = request[a].op
          /\ r.content = request[a].content
      BY <1>0, <1>1, <2>4 DEF Request, Phases
    <2>6. /\ draft[n] = NoDoc /\ revision[n] = NoDoc /\ draft'[n] = d
          /\ \A m \in Number : m # n => draft'[m] = draft[m]
      BY <1>1, <1>3, <2>3 DEF DraftAbsent, IInv, TypeOK, StoreOK
    <2>7. /\ request'[a] = r
          /\ \A b \in Admin : b # a => request'[b] = request[b]
      BY <1>1, <2>3, <2>4
    <2>8. TypeOK'
      BY <1>1, <2>2, <2>3, <2>4, <2>5 DEF IInv, TypeOK
    <2>9. ASSUME NEW m \in Number
          PROVE  StoreOK(m)'
      BY <2>3, <2>6 DEF IInv, StoreOK, Landed
    <2>10. RequestOK(a, r)'
      BY <1>1, <2>1, <2>3, <2>5, <2>6 DEF RequestOK, Author, Proposing, Holding, Recording, Publishing
    <2>11. ASSUME NEW b \in Admin, b # a, request[b].phase \in Holding \cup {"putRevision"}
           PROVE  request[b].number \in Number /\ request[b].number # n
      <3>0. RequestOK(b, request[b])
        BY DEF IInv
      <3>1. CASE request[b].phase \in Holding
        BY <2>6, <3>0, <3>1 DEF RequestOK, HoldsRevision
      <3>2. CASE request[b].phase = "putRevision"
        <4>1. /\ request[b].content \in Content /\ request[b].number \in Number
              /\ draft[request[b].number] = [content |-> request[b].content,
                     author |-> IF request[b].op = "import" THEN Bootstrap ELSE b]
          BY <3>0, <3>2 DEF RequestOK, Proposing
        <4>2. draft[request[b].number] \in Draft
          BY <4>1 DEF Draft
        <4>3. QED
          BY <2>6, <4>1, <4>2, NoDocAssumption
      <3>3. QED
        BY <2>11, <3>1, <3>2
    <2>12. ASSUME NEW b \in Admin
           PROVE  RequestOK(b, request[b])'
      <3>1. CASE b = a
        BY <2>7, <2>10, <3>1
      <3>2. CASE b # a
        <4>0. PICK s : s = request[b]
          OBVIOUS
        <4>1. request'[b] = s /\ RequestOK(b, s)
          BY <2>7, <3>2, <4>0 DEF IInv
        <4>2. s.phase \in Holding => HoldsRevision(s)'
          BY <2>3, <2>6, <2>11, <3>2, <4>0, <4>1 DEF RequestOK, HoldsRevision, Landed
        <4>3. RequestOK(b, s)'
          BY <2>3, <2>6, <2>11, <3>2, <4>0, <4>1, <4>2 DEF RequestOK
        <4>4. QED
          BY <4>1, <4>3
      <3>3. QED
        BY <3>1, <3>2
    <2>13. OneProposer'
      BY <2>5, <2>7, <2>11 DEF IInv, OneProposer
    <2>14. OnePublisherRecords'
      BY <2>3, <2>5, <2>7 DEF IInv, OnePublisherRecords, TagHolds, Recording, Publishing
    <2>15. QED
      BY <2>8, <2>9, <2>12, <2>13, <2>14 DEF IInv
  <1>4. QED
    BY <1>2, <1>3

LEMMA PutRevisionStep ==
  ASSUME IInv, NEW a \in Admin, PutRevision(a)
  PROVE  IInv'
  <1>0. PICK n, rev : n = request[a].number /\ rev = CreateRevision(n, Author(a))
    OBVIOUS
  <1>1. /\ request[a] \in Request /\ request \in [Admin -> Request]
        /\ request[a].phase = "putRevision" /\ n \in Number /\ revision[n] = NoDoc
        /\ draft[n] = [content |-> request[a].content, author |-> Author(a)]
        /\ request[a].content \in Content
    BY <1>0 DEF PutRevision, IInv, TypeOK, RequestOK, Proposing, Author
  <1>2. /\ version[n] = 0 /\ landed[n] = {} /\ version \in [Number -> Nat]
    BY <1>1 DEF IInv, TypeOK, StoreOK
  <1>3. /\ rev \in Revision /\ rev # NoDoc
        /\ rev.number = n /\ rev.author = Author(a) /\ rev.state = "draft"
        /\ rev.publisher = NoActor /\ \A t \in Target : rev.outcome[t] = "pending"
    <2>1. n \in Nat \ {0} /\ Author(a) \in Actor
      BY <1>1, BoundAssumption DEF Number, Author
    <2>2. rev \in Revision
      BY <1>0, <2>1, CreateRevisionType
    <2>3. QED
      BY <1>0, <2>2, NoDocAssumption DEF CreateRevision
  <1>4. Lawful(rev)
    BY <1>3 DEF Lawful, Published
  <1>5. /\ revision' = [revision EXCEPT ![n] = rev] /\ version' = [version EXCEPT ![n] = 1]
        /\ UNCHANGED <<draft, snapshot, landed, issued>>
    BY <1>0, <1>2 DEF PutRevision
  <1>6. PICK r \in Request :
          /\ request' = [request EXCEPT ![a] = r]
          /\ r.phase \in {"idle", "approve"}
          /\ r.phase = "approve" => /\ r.number = n /\ r.held = rev /\ r.tag = 1
                                    /\ r.content = request[a].content
    <2>1. CASE request[a].op # "import"
      <3>1. Idle \in Request /\ Idle.phase = "idle"
        BY BoundAssumption DEF Idle, Request, Phases
      <3>2. QED
        BY <1>0, <1>2, <2>1, <3>1 DEF PutRevision, End
    <2>2. CASE request[a].op = "import"
      <3>1. PICK r : r = [request[a] EXCEPT !.phase = "approve", !.held = rev, !.tag = 1]
        OBVIOUS
      <3>2. request' = [request EXCEPT ![a] = r]
        BY <1>0, <1>1, <1>2, <2>2, <3>1 DEF PutRevision
      <3>3. /\ r \in Request /\ r.phase = "approve" /\ r.number = n /\ r.held = rev
            /\ r.tag = 1 /\ r.content = request[a].content
        BY <1>0, <1>1, <1>3, <3>1 DEF Request, Phases
      <3>4. QED
        BY <3>2, <3>3
    <2>3. QED
      BY <2>1, <2>2
  <1>7. /\ request'[a] = r
        /\ \A b \in Admin : b # a => request'[b] = request[b]
    BY <1>1, <1>6
  <1>8. /\ revision'[n] = rev /\ version'[n] = 1
        /\ \A m \in Number : m # n => revision'[m] = revision[m] /\ version'[m] = version[m]
    BY <1>1, <1>2, <1>5 DEF IInv, TypeOK
  <1>9. TypeOK'
    BY <1>1, <1>3, <1>5, <1>6 DEF IInv, TypeOK
  <1>10. Landed(rev, n)'
    BY <1>3 DEF Landed
  <1>11. ASSUME NEW m \in Number
         PROVE  StoreOK(m)'
    <2>1. CASE m = n
      <3>1. landed'[n] = {} /\ draft' = draft
        BY <1>2, <1>5
      <3>2. draft[n] # NoDoc /\ draft[n].author = rev.author
        <4>1. draft[n] \in Draft
          BY <1>1, <1>3 DEF Draft, Revision
        <4>2. QED
          BY <1>1, <1>3, <4>1, NoDocAssumption
      <3>3. QED
        BY <1>3, <1>4, <1>8, <1>10, <2>1, <3>1, <3>2 DEF StoreOK, Landed
    <2>2. CASE m # n
      BY <1>5, <1>8, <2>2 DEF IInv, StoreOK, Landed
    <2>3. QED
      BY <2>1, <2>2
  <1>12. RequestOK(a, r)'
    <2>1. CASE r.phase = "idle"
      BY <2>1 DEF RequestOK, Proposing, Holding, Recording, Publishing
    <2>2. CASE r.phase = "approve"
      <3>1. /\ r.number = n /\ r.held = rev /\ r.tag = version'[n] /\ version'[n] = 1
            /\ r.content = draft'[n].content /\ draft'[n].author = rev.author
        BY <1>1, <1>3, <1>5, <1>6, <1>8, <2>2
      <3>2. rev = [rev EXCEPT !.outcome = rev.outcome]
        BY <1>3 DEF Revision
      <3>3. HoldsRevision(r)'
        BY <1>1, <1>3, <1>4, <1>8, <1>10, <2>2, <3>1, <3>2
        DEF HoldsRevision, Recording, Publishing
      <3>4. QED
        BY <2>2, <3>3 DEF RequestOK, Proposing
    <2>3. QED
      BY <1>6, <2>1, <2>2
  <1>13. ASSUME NEW b \in Admin, b # a, request[b].phase \in Holding \cup {"putRevision"}
         PROVE  request[b].number \in Number /\ request[b].number # n
    <2>1. RequestOK(b, request[b])
      BY DEF IInv
    <2>2. CASE request[b].phase \in Holding
      BY <1>1, <2>1, <2>2 DEF RequestOK, HoldsRevision
    <2>3. CASE request[b].phase = "putRevision"
      BY <1>0, <1>1, <1>13, <2>1, <2>3 DEF IInv, OneProposer, RequestOK
    <2>4. QED
      BY <1>13, <2>2, <2>3
  <1>14. ASSUME NEW b \in Admin
         PROVE  RequestOK(b, request[b])'
    <2>1. CASE b = a
      BY <1>7, <1>12, <2>1
    <2>2. CASE b # a
      <3>0. PICK s : s = request[b]
        OBVIOUS
      <3>1. request'[b] = s /\ RequestOK(b, s)
        BY <1>7, <2>2, <3>0 DEF IInv
      <3>2. s.phase \in Holding => HoldsRevision(s)'
        BY <1>5, <1>8, <1>13, <2>2, <3>0, <3>1 DEF RequestOK, HoldsRevision, Landed
      <3>3. s.phase = "read" => revision'[s.number] # NoDoc
        BY <1>3, <1>8, <3>1 DEF RequestOK
      <3>4. s.phase = "putRevision" => revision'[s.number] = NoDoc
        BY <1>8, <1>13, <2>2, <3>0, <3>1 DEF RequestOK
      <3>5. RequestOK(b, s)'
        BY <1>5, <3>1, <3>2, <3>3, <3>4 DEF RequestOK
      <3>6. QED
        BY <3>1, <3>5
    <2>3. QED
      BY <2>1, <2>2
  <1>15. OneProposer'
    BY <1>6, <1>7 DEF IInv, OneProposer
  <1>16. OnePublisherRecords'
    <2>1. ASSUME NEW b \in Admin, request'[b].phase \in Recording
          PROVE  /\ b # a /\ request'[b] = request[b]
                 /\ version'[request[b].number] = version[request[b].number]
      BY <1>6, <1>7, <1>8, <1>13, <2>1 DEF Holding, Recording, Publishing
    <2>2. QED
      BY <2>1 DEF IInv, OnePublisherRecords, TagHolds
  <1>17. QED
    BY <1>9, <1>11, <1>14, <1>15, <1>16 DEF IInv

-----------------------------------------------------------------------------
(* The invariant *)

LEMMA InvInit == Init => IInv
  <1> SUFFICES ASSUME Init PROVE IInv
    OBVIOUS
  <1>1. Idle \in Request /\ Idle.phase = "idle"
    BY BoundAssumption DEF Idle, Request, Phases
  <1>2. TypeOK
    BY <1>1, BoundAssumption DEF Init, TypeOK
  <1>3. \A a \in Admin : RequestOK(a, request[a])
    BY <1>1 DEF Init, RequestOK, Proposing, Holding, Recording, Publishing
  <1>4. OneProposer /\ OnePublisherRecords
    BY <1>1 DEF Init, OneProposer, OnePublisherRecords, Recording, Publishing
  <1>5. QED
    BY <1>2, <1>3, <1>4 DEF Init, IInv, StoreOK

LEMMA InvNext == ASSUME IInv, Next PROVE IInv'
  <1>1. PICK a \in Admin : IssueSome(a) \/ Lose(a) \/ Step(a)
    BY DEF Next
  <1>2. CASE IssueSome(a)
    BY <1>2, IssueStep
  <1>3. CASE Lose(a)
    BY <1>3, LoseStep
  <1>4. CASE Query(a) \/ TakeNumber(a) \/ PutDraft(a) \/ PutRevision(a)
    BY <1>4, QueryStep, TakeNumberStep, PutDraftStep, PutRevisionStep
  <1>5. CASE Read(a) \/ Begin(a) \/ ReadOwn(a)
    BY <1>5, ReadStep, BeginStep, ReadOwnStep
  <1>6. CASE Approve(a) \/ MarkFailed(a) \/ Retry(a) \/ Start(a) \/ Finish(a) \/ PutOwn(a)
    BY <1>6, ApproveStep, MarkFailedStep, RetryStep, StartStep, FinishStep, PutOwnStep
  <1>7. CASE PutOutcomes(a)
    BY <1>7, PutOutcomesStep
  <1>8. ASSUME NEW t \in Target, Current(a, t),
               \/ RefuseContent(a, t) \/ ReadVersion(a, t) \/ WriteTarget(a, t)
               \/ WriteRefused(a, t) \/ ReadBack(a, t)
        PROVE  IInv'
    BY <1>8, RefuseContentStep, ReadVersionStep, WriteTargetStep, WriteRefusedStep, ReadBackStep
  <1>9. QED
    BY <1>1, <1>2, <1>3, <1>4, <1>5, <1>6, <1>7, <1>8 DEF Step

LEMMA InvStutter == ASSUME IInv, UNCHANGED vars PROVE IInv'
  <1>1. StoreUnchanged /\ StoreKept /\ UNCHANGED <<request, issued>>
    BY UnchangedIsKept DEF vars, StoreUnchanged
  <1>2. TypeOK'
    BY <1>1 DEF IInv, TypeOK, StoreUnchanged
  <1>3. \A n \in Number : StoreOK(n)'
    BY <1>1, StoreOKKept DEF IInv
  <1>4. \A b \in Admin : RequestOK(b, request[b])'
    BY <1>1, OthersKept DEF IInv
  <1>5. OneProposer' /\ OnePublisherRecords'
    BY <1>1 DEF IInv, OneProposer, OnePublisherRecords, TagHolds, StoreUnchanged
  <1>6. QED
    BY <1>2, <1>3, <1>4, <1>5 DEF IInv

\* The inductive invariant holds of every reachable state.
THEOREM Invariant == Spec => []IInv
  <1>1. IInv /\ [Next]_vars => IInv'
    BY InvNext, InvStutter
  <1>2. QED
    BY <1>1, InvInit, PTL DEF Spec

\* Every variable, request and stored document keeps its type.
THEOREM TypeCorrect == Spec => []TypeOK
  <1>1. IInv => TypeOK
    BY DEF IInv
  <1>2. QED
    BY <1>1, Invariant, PTL

\* What lands is the content that was proposed and approved, whatever requests race.
THEOREM ApprovedLands == Spec => []ApprovedContentLands
  <1>1. ASSUME IInv, NEW a \in Admin, request[a].phase \in Publishing,
               NEW n, n = request[a].number
        PROVE  /\ draft[n] # NoDoc /\ revision[n] # NoDoc
               /\ request[a].content = draft[n].content
               /\ draft[n].author = revision[n].author
               /\ MayApprove(revision[n].approver, revision[n].author)
               /\ revision[n].publisher # NoActor
               /\ revision[n].state \in {"publishing", "failed", "active"}
    <2>1. /\ n \in Number /\ revision[n].publisher # NoActor /\ HoldsRevision(request[a])
      BY <1>1, PublisherHolds DEF Recording
    <2>2. revision[n] # NoDoc /\ request[a].content = draft[n].content
      BY <1>1, <2>1 DEF HoldsRevision, Publishing
    <2>3. StoreOK(n)
      BY <1>1, <2>1 DEF IInv
    <2>4. QED
      BY <2>1, <2>2, <2>3 DEF StoreOK, Lawful, Published
  <1>2. IInv => ApprovedContentLands
    BY <1>1 DEF ApprovedContentLands
  <1>3. QED
    BY <1>2, Invariant, PTL

\* A withdrawn or abandoned proposal never reached a target, and nobody is about to
\* write one for it.
THEOREM WithdrawnStaysOut == Spec => []WithdrawnNeverLands
  <1>1. ASSUME IInv, NEW n \in Stored, revision[n].state = "withdrawn"
        PROVE  /\ landed[n] = {}
               /\ \A a \in Admin : request[a].number = n => request[a].phase \notin Publishing
    <2>1. n \in Number /\ StoreOK(n) /\ revision[n] # NoDoc
      BY <1>1 DEF Stored, IInv
    <2>2. revision[n].publisher = NoActor
      BY <1>1, <2>1 DEF StoreOK, Lawful, Published
    <2>3. landed[n] = {}
      BY <2>1, <2>2 DEF StoreOK
    <2>4. \A a \in Admin : request[a].number = n => request[a].phase \notin Publishing
      BY <1>1, <2>2, PublisherHolds DEF Recording
    <2>5. QED
      BY <2>3, <2>4
  <1>2. IInv => WithdrawnNeverLands
    BY <1>1 DEF WithdrawnNeverLands
  <1>3. QED
    BY <1>2, Invariant, PTL

\* An active revision was approved and every target it declares was written for it.
THEOREM ActiveLanded == Spec => []ActiveHasLanded
  <1>1. ASSUME IInv, NEW n \in Stored
        PROVE  /\ revision[n].state = "active" =>
                    /\ landed[n] = Target
                    /\ MayApprove(revision[n].approver, revision[n].author)
               /\ \A t \in Target : revision[n].outcome[t] = "verified" => t \in landed[n]
    <2>1. n \in Number /\ StoreOK(n) /\ revision[n] # NoDoc /\ landed[n] \subseteq Target
      BY <1>1 DEF Stored, IInv, TypeOK
    <2>2. QED
      BY <2>1 DEF StoreOK, Lawful, Landed, Published
  <1>2. IInv => ActiveHasLanded
    BY <1>1 DEF ActiveHasLanded
  <1>3. QED
    BY <1>2, Invariant, PTL

\* Of the publishers of one revision at most one can still record what it did.
THEOREM OnlyOneRecords == Spec => []OnePublisherRecords
  <1>1. IInv => OnePublisherRecords
    BY DEF IInv
  <1>2. QED
    BY <1>1, Invariant, PTL

-----------------------------------------------------------------------------
(* An active revision is final *)

\* No command of this service is accepted by an active revision.
LEMMA ActiveRefuses ==
  ASSUME NEW rev, NEW c \in Commands, NEW a, NEW ctx, Accepts(rev, c, a, ctx)
  PROVE  rev.state # "active"
  BY DEF Accepts, Commands, AllowedFrom

LEMMA ApplyIsFinal ==
  ASSUME IInv, NEW a \in Admin, request[a].phase \in Holding, NEW c \in Commands, NEW p,
         ApplyAndPut(a, c, p), NEW n \in Stored, revision[n].state = "active"
  PROVE  revision'[n] = revision[n]
  <1>1. CASE revision' = revision
    BY <1>1
  <1>2. CASE revision' # revision
    <2>1. /\ Accepts(request[a].held, c, a, Stated(a))
          /\ TagHolds(a)
          /\ \A m \in Number : m # request[a].number => revision'[m] = revision[m]
      BY <1>2 DEF ApplyAndPut, PutHeld, store, IInv, TypeOK
    <2>2. request[a].held.state # "active"
      BY <2>1, ActiveRefuses
    <2>3. HoldsRevision(request[a]) /\ request[a] \in Request
      BY DEF IInv, TypeOK, RequestOK
    <2>4. request[a].held \in Revision
      BY <2>3 DEF HoldsRevision, Request
    <2>5. revision[request[a].number] = [request[a].held EXCEPT !.outcome = revision[request[a].number].outcome]
      BY <2>1, <2>3 DEF HoldsRevision, TagHolds
    <2>6. revision[request[a].number].state = request[a].held.state
      BY <2>4, <2>5 DEF Revision
    <2>7. n # request[a].number
      BY <2>2, <2>6
    <2>8. QED
      BY <2>1, <2>7 DEF Stored
  <1>3. QED
    BY <1>1, <1>2

\* A publisher that was taken over, and a late failure, leave an active revision alone.
THEOREM ActiveFinal == Spec => ActiveIsFinal
  <1> DEFINE Final == \A n \in Stored : revision[n].state = "active" => revision'[n] = revision[n]
  <1>1. ASSUME IInv, NEW a \in Admin, IssueSome(a) \/ Lose(a) \/ Step(a),
               NEW n \in Stored, revision[n].state = "active"
        PROVE  revision'[n] = revision[n]
    <2>1. CASE UNCHANGED revision
      BY <2>1
    <2>2. CASE PutRevision(a)
      <3>1. /\ request[a].number \in Number /\ revision[request[a].number] = NoDoc
        BY <1>1, <2>2 DEF PutRevision, IInv, RequestOK
      <3>2. n # request[a].number /\ n \in Number
        BY <3>1 DEF Stored
      <3>3. QED
        BY <1>1, <2>2, <3>2 DEF PutRevision, IInv, TypeOK
    <2>3. CASE \/ Approve(a) \/ MarkFailed(a) \/ Retry(a) \/ Start(a) \/ Finish(a) \/ PutOwn(a)
      <3>1. /\ request[a].phase \in Holding
            /\ \E c \in Commands, p \in Phases : ApplyAndPut(a, c, p)
        <4>1. PutOwn(a) => request[a].op \in {"withdraw", "abandon"}
          BY <1>1 DEF PutOwn, IInv, RequestOK
        <4>2. QED
          BY <2>3, <4>1 DEF Approve, MarkFailed, Retry, Start, Finish, PutOwn, AfterTarget,
                            Holding, Recording, Commands, Phases
      <3>2. QED
        BY <1>1, <3>1, ApplyIsFinal
    <2>4. CASE PutOutcomes(a)
      <3>1. /\ request[a].phase = "outcomes"
            /\ request[a].held \in Revision /\ request[a].held.state = "publishing"
            /\ HoldsRevision(request[a])
        BY <1>1, <2>4, PublisherHolds DEF PutOutcomes, Recording
      <3>2. CASE n # request[a].number
        BY <1>1, <2>4, <3>2 DEF PutOutcomes, PutHeld, Stored, IInv, TypeOK
      <3>3. CASE n = request[a].number
        <4>1. ~TagHolds(a)
          BY <1>1, <3>1, <3>3 DEF HoldsRevision, TagHolds, Revision
        <4>2. QED
          BY <2>4, <4>1 DEF PutOutcomes, PutHeld
      <3>4. QED
        BY <3>2, <3>3
    <2>5. IssueSome(a) => UNCHANGED revision
      BY DEF IssueSome, Issue, store
    <2>6. ASSUME NEW t \in Target,
                 \/ RefuseContent(a, t) \/ ReadVersion(a, t) \/ WriteTarget(a, t)
                 \/ WriteRefused(a, t) \/ ReadBack(a, t)
          PROVE  UNCHANGED revision
      BY <2>6 DEF RefuseContent, ReadVersion, WriteTarget, WriteRefused, ReadBack, store
    <2>7. Lose(a) \/ Query(a) \/ TakeNumber(a) \/ PutDraft(a) \/ Read(a) \/ Begin(a) \/ ReadOwn(a)
            => UNCHANGED revision
      BY DEF Lose, Query, TakeNumber, PutDraft, Read, Begin, ReadOwn, store
    <2>8. QED
      BY <1>1, <2>1, <2>2, <2>3, <2>4, <2>5, <2>6, <2>7 DEF Step
  <1>2. IInv /\ [Next]_vars => [Final]_vars
    BY <1>1 DEF Next
  <1>3. QED
    BY <1>2, Invariant, PTL DEF Spec, ActiveIsFinal

-----------------------------------------------------------------------------
(***************************************************************************)
(* One request at a time.  Then what is in flight is the last revision and *)
(* the only one, and a request holds what is stored.                       *)
(***************************************************************************)
\* What a request knows when it is the only one.
LoneRequest(r) ==
  /\ r.phase \in Proposing => Unfinished = {} /\ (r.op = "import" => Stored = {})
  /\ r.phase \in {"putDraft", "putRevision"} => NextNumber(r.number)
  /\ r.phase = "read" => r.number \in Unfinished
  /\ r.phase \in Holding => r.number \in Unfinished /\ r.tag = version[r.number]

\* A target serves the revision in flight once that was written to it, and the
\* active one until then.
Served(t) ==
  \/ \E n \in Unfinished : t \in landed[n] /\ snapshot[t].content = draft[n].content
  \/ /\ \A n \in Unfinished : t \notin landed[n]
     /\ \A n \in Number : ActiveRevision(n) => snapshot[t].content = draft[n].content

LastInFlight == \A n \in Unfinished, m \in Stored : m <= n

LoneStore ==
  /\ LastInFlight
  /\ \A n \in Stored : Admin # {} /\ (revision[n].author = Bootstrap => n = 1)
  /\ \A t \in Target : Served(t)

LoneInv == OneAtATime /\ LoneStore /\ \A a \in Admin : LoneRequest(request[a])

AloneInv == alone => LoneInv

LEMMA OnlyOneInFlight ==
  ASSUME LastInFlight, NEW m \in Unfinished, NEW n \in Unfinished
  PROVE  m = n
  BY DEF LastInFlight, Unfinished, Stored, Number

LEMMA IdleIsLone == Idle.phase = "idle" /\ LoneRequest(Idle) /\ LoneRequest(Idle)'
  BY DEF Idle, LoneRequest, Proposing, Holding, Recording, Publishing

\* A step of the only request there is.
LEMMA LoneStep ==
  ASSUME LoneInv, NEW a \in Admin, request[a] # Idle, OneAtATime',
         \A b \in Admin \ {a} : request'[b] = request[b],
         LoneStore', LoneRequest(request[a])'
  PROVE  LoneInv'
  <1>1. \A b \in Admin \ {a} : request'[b] = Idle
    BY DEF LoneInv, OneAtATime
  <1>2. \A b \in Admin \ {a} : LoneRequest(request[b])'
    BY <1>1, IdleIsLone DEF LoneRequest
  <1>3. QED
    BY <1>2 DEF LoneInv

LEMMA StoreKeptLone ==
  ASSUME LoneStore, StoreUnchanged
  PROVE  LoneStore'
  <1>1. UNCHANGED <<Stored, Unfinished>> /\ \A n \in Number : ActiveRevision(n)' <=> ActiveRevision(n)
    BY DEF StoreUnchanged, Stored, Unfinished, ActiveRevision
  <1>2. LastInFlight'
    BY <1>1 DEF LoneStore, LastInFlight
  <1>3. \A t \in Target : Served(t)'
    BY <1>1 DEF StoreUnchanged, LoneStore, Served
  <1>4. QED
    BY <1>1, <1>2, <1>3 DEF StoreUnchanged, LoneStore

\* The request ends, or changes its phase alone.
LEMMA LoneEnd ==
  ASSUME LoneInv, IInv, NEW a \in Admin, request[a] # Idle, OneAtATime', End(a), LoneStore'
  PROVE  LoneInv'
  <1>1. /\ request'[a] = Idle
        /\ \A b \in Admin \ {a} : request'[b] = request[b]
    BY DEF End, IInv, TypeOK
  <1>2. LoneRequest(request[a])'
    BY <1>1, IdleIsLone DEF LoneRequest
  <1>3. QED
    BY <1>1, <1>2, LoneStep

\* The same request goes on, with what it holds, while the revisions stay.
LEMMA LoneHolds ==
  ASSUME LoneInv, IInv, NEW a \in Admin, request[a].phase \in Holding, OneAtATime',
         UNCHANGED <<revision, version>>, LoneStore',
         NEW r, request' = [request EXCEPT ![a] = r],
         r.phase \in Holding, r.number = request[a].number, r.tag = request[a].tag
  PROVE  LoneInv'
  <1>1. request[a] # Idle
    BY IdleIsLone DEF Holding, Recording, Publishing
  <1>2. /\ request'[a] = r
        /\ \A b \in Admin \ {a} : request'[b] = request[b]
    BY DEF IInv, TypeOK
  <1>3. Unfinished' = Unfinished
    BY DEF Unfinished, Stored
  <1>4. LoneRequest(request[a])
    BY DEF LoneInv
  <1>5. LoneRequest(request[a])'
    BY <1>2, <1>3, <1>4 DEF LoneRequest, Proposing, Holding, Recording, Publishing
  <1>6. QED
    BY <1>1, <1>2, <1>5, LoneStep

LEMMA LoneRecord ==
  ASSUME LoneInv, IInv, NEW a \in Admin, NEW t, NEW outcome, Record(a, t, outcome),
         request[a].phase \in Publishing, OneAtATime',
         UNCHANGED <<revision, version>>, LoneStore'
  PROVE  LoneInv'
  <1>1. request[a] # Idle /\ request[a].phase \in Holding
    BY IdleIsLone DEF Holding, Recording, Publishing
  <1>2. PICK rev : rev = Recorded(request[a].held, t, outcome)
    OBVIOUS
  <1>3. PICK r : r = [request[a] EXCEPT !.held = rev, !.phase = AfterTarget(rev)]
    OBVIOUS
  <1>4. CASE End(a)
    BY <1>1, <1>4, LoneEnd
  <1>5. CASE request' = [request EXCEPT ![a] = r]
    <2>1. request[a] \in Request
      BY DEF IInv, TypeOK
    <2>2. /\ r.number = request[a].number /\ r.tag = request[a].tag
          /\ r.phase = AfterTarget(rev)
      BY <1>3, <2>1 DEF Request
    <2>3. r.phase \in Holding
      BY <2>2 DEF AfterTarget, Holding, Recording, Publishing
    <2>4. QED
      BY <1>1, <1>5, <2>2, <2>3, LoneHolds
  <1>6. End(a) \/ request' = [request EXCEPT ![a] = r]
    BY <1>2, <1>3 DEF Record, IInv, TypeOK, Request
  <1>7. QED
    BY <1>4, <1>5, <1>6

-----------------------------------------------------------------------------
(* The held revision is replaced *)

LEMMA LonePut ==
  ASSUME LoneInv, IInv, IInv', NEW a \in Admin, request[a].phase \in Holding, OneAtATime',
         NEW rev \in Revision, rev.author = request[a].held.author,
         NEW p \in Holding \cup {"idle"}, PutHeld(a, rev, p),
         \/ rev.state \in InFlightStates
         \/ p = "idle" /\ rev.state \in {"active", "withdrawn"}
  PROVE  LoneInv'
  <1>0. PICK n : n = request[a].number
    OBVIOUS
  <1>1. /\ request[a] # Idle /\ LoneRequest(request[a]) /\ LoneStore
        /\ HoldsRevision(request[a]) /\ RequestOK(a, request[a])
    BY IdleIsLone DEF LoneInv, IInv, RequestOK, Holding, Recording, Publishing
  <1>2. /\ n \in Unfinished /\ request[a].tag = version[n] /\ TagHolds(a)
        /\ n \in Number /\ n \in Stored
        /\ rev.author = revision[n].author /\ version[n] \in Nat
    BY <1>0, <1>1 DEF LoneRequest, HoldsRevision, TagHolds, Unfinished, Stored, IInv, TypeOK
  <1>3. /\ revision' = [revision EXCEPT ![n] = rev]
        /\ version' = [version EXCEPT ![n] = version[n] + 1]
        /\ draft' = draft /\ snapshot' = snapshot /\ landed' = landed
        /\ p = "idle" => End(a)
    BY <1>0, <1>2 DEF PutHeld
  <1>4. /\ rev # NoDoc /\ revision'[n] = rev /\ version'[n] = version[n] + 1
        /\ \A m \in Number \ {n} : revision'[m] = revision[m]
    BY <1>2, <1>3, NoDocAssumption DEF IInv, TypeOK
  <1>5. Stored' = Stored
    BY <1>2, <1>4 DEF Stored
  <1>6. Unfinished' = IF rev.state \in InFlightStates THEN {n} ELSE {}
    <2>1. Unfinished = {n}
      BY <1>1, <1>2, OnlyOneInFlight DEF LoneStore
    <2>2. \A m \in Stored \ {n} : revision'[m].state \notin InFlightStates
      BY <1>4, <2>1 DEF Unfinished, Stored
    <2>3. QED
      BY <1>2, <1>4, <1>5, <2>2 DEF Unfinished
  <1>7. LastInFlight'
    BY <1>1, <1>2, <1>5, <1>6 DEF LoneStore, LastInFlight
  <1>8. \A m \in Stored' : Admin # {} /\ (revision'[m].author = Bootstrap => m = 1)
    BY <1>1, <1>2, <1>4, <1>5 DEF LoneStore, Stored
  <1>9. ASSUME NEW t \in Target
        PROVE  Served(t)'
    <2>1. Served(t) /\ Unfinished = {n}
      BY <1>1, <1>2, OnlyOneInFlight DEF LoneStore
    <2>2. CASE rev.state \in InFlightStates
      <3>1. \A m \in Number : ActiveRevision(m)' <=> ActiveRevision(m)
        BY <1>2, <1>4, <1>5, <2>2 DEF ActiveRevision, Unfinished, InFlightStates, Stored
      <3>2. QED
        BY <1>3, <1>6, <2>1, <2>2, <3>1 DEF Served
    <2>3. CASE rev.state = "active"
      <3>1. t \in landed[n]
        <4>1. StoreOK(n)'
          BY <1>2 DEF IInv
        <4>2. QED
          BY <1>3, <1>4, <2>3, <4>1 DEF StoreOK, Lawful, Landed
      <3>2. snapshot[t].content = draft[n].content
        BY <2>1, <3>1 DEF Served
      <3>3. \A m \in Number : ActiveRevision(m)' => m = n
        BY <1>1, <1>2, <1>4, <1>5, <2>3 DEF ActiveRevision, LoneStore, LastInFlight, Stored, Number
      <3>4. QED
        BY <1>3, <1>6, <2>3, <3>2, <3>3 DEF Served, InFlightStates
    <2>4. CASE rev.state = "withdrawn"
      <3>1. landed[n] = {}
        <4>1. StoreOK(n)'
          BY <1>2 DEF IInv
        <4>2. QED
          BY <1>3, <1>4, <2>4, <4>1 DEF StoreOK, Lawful, Published
      <3>2. \A m \in Number : ActiveRevision(m) => snapshot[t].content = draft[m].content
        BY <2>1, <3>1 DEF Served
      <3>3. \A m \in Number : ActiveRevision(m)' => ActiveRevision(m)
        BY <1>2, <1>4, <1>5, <2>4 DEF ActiveRevision, Unfinished, InFlightStates, Stored
      <3>4. QED
        BY <1>3, <1>6, <2>4, <3>2, <3>3 DEF Served, InFlightStates
    <2>5. QED
      BY <2>2, <2>3, <2>4
  <1>10. LoneStore'
    BY <1>7, <1>8, <1>9 DEF LoneStore
  <1>11. CASE p = "idle"
    BY <1>1, <1>3, <1>10, <1>11, LoneEnd
  <1>12. CASE p # "idle"
    <2>1. PICK r : r = [request[a] EXCEPT !.phase = p, !.held = rev, !.tag = version[n] + 1]
      OBVIOUS
    <2>2. request' = [request EXCEPT ![a] = r]
      BY <1>0, <1>2, <1>12, <2>1 DEF PutHeld, IInv, TypeOK, Request
    <2>3. /\ r.phase = p /\ r.number = n /\ r.tag = version[n] + 1 /\ p \in Holding
      BY <1>0, <1>12, <2>1 DEF IInv, TypeOK, Request
    <2>4. /\ request'[a] = r
          /\ \A b \in Admin \ {a} : request'[b] = request[b]
      BY <2>2 DEF IInv, TypeOK
    <2>5. LoneRequest(request[a])'
      BY <1>4, <1>6, <1>12, <2>3, <2>4
        DEF LoneRequest, Proposing, Holding, Recording, Publishing
    <2>6. QED
      BY <1>1, <1>10, <2>4, <2>5, LoneStep
  <1>13. QED
    BY <1>11, <1>12

Onward == {"approve", "publish", "fail", "retry"}

LEMMA LoneApply ==
  ASSUME LoneInv, IInv, IInv', NEW a \in Admin, request[a].phase \in Holding, OneAtATime',
         NEW c \in Commands, NEW p \in Holding \cup {"idle"}, ApplyAndPut(a, c, p),
         p # "idle" => c \in Onward
  PROVE  LoneInv'
  <1>0. PICK h, new : h = request[a].held /\ new = Applied(h, c, a, Stated(a))
    OBVIOUS
  <1>1. CASE ~Accepts(h, c, a, Stated(a))
    <2>1. End(a) /\ StoreUnchanged /\ request[a] # Idle
      BY <1>0, <1>1, IdleIsLone DEF ApplyAndPut, store, StoreUnchanged, Holding, Recording, Publishing
    <2>2. LoneStore'
      BY <2>1, StoreKeptLone DEF LoneInv
    <2>3. QED
      BY <2>1, <2>2, LoneEnd
  <1>2. CASE Accepts(h, c, a, Stated(a))
    <2>1. request[a] \in Request /\ h # NoDoc /\ Lawful(h)
      BY <1>0 DEF IInv, TypeOK, RequestOK, HoldsRevision
    <2>2. h \in Revision
      BY <1>0, <2>1 DEF Request
    <2>3. new \in Revision /\ new.author = h.author
      BY <1>0, <1>2, <2>1, <2>2, AppliedLawful
    <2>4. new.state = IF c = "withdraw" /\ h.state = "draft" THEN "withdrawn" ELSE NextState[c]
      BY <1>0, <2>2, AppliedFields
    <2>5. /\ new.state \in InFlightStates \cup {"active", "withdrawn"}
          /\ c \in Onward => new.state \in InFlightStates
      BY <2>4 DEF Commands, NextState, InFlightStates, Onward
    <2>6. PutHeld(a, new, p)
      BY <1>0, <1>2 DEF ApplyAndPut
    <2>7. QED
      BY <1>0, <2>3, <2>5, <2>6, LonePut
  <1>3. QED
    BY <1>1, <1>2

LEMMA LoneCommands ==
  ASSUME LoneInv, IInv, IInv', NEW a \in Admin, OneAtATime',
         \/ Approve(a) \/ MarkFailed(a) \/ Retry(a) \/ Start(a) \/ Finish(a) \/ PutOwn(a)
         \/ PutOutcomes(a)
  PROVE  LoneInv'
  <1>1. CASE Approve(a)
    BY <1>1, LoneApply DEF Approve, Holding, Commands, Onward
  <1>2. CASE MarkFailed(a)
    BY <1>2, LoneApply DEF MarkFailed, Holding, Commands, Onward
  <1>3. CASE Retry(a)
    <2>1. PICK p \in {"outcomes", "version"} : ApplyAndPut(a, "retry", p)
      BY <1>3 DEF Retry, AfterTarget
    <2>2. QED
      BY <1>3, <2>1, LoneApply DEF Retry, Holding, Recording, Publishing, Commands, Onward
  <1>4. CASE Start(a)
    BY <1>4, LoneApply DEF Start, Holding, Recording, Publishing, Commands, Onward
  <1>5. CASE Finish(a)
    <2>1. PICK c \in {"complete", "fail"} : ApplyAndPut(a, c, "idle")
      BY <1>5 DEF Finish
    <2>2. QED
      BY <1>5, <2>1, LoneApply DEF Finish, Holding, Recording, Commands
  <1>6. CASE PutOwn(a)
    <2>1. request[a].op \in {"withdraw", "abandon"}
      BY <1>6 DEF PutOwn, IInv, RequestOK
    <2>2. QED
      BY <1>6, <2>1, LoneApply DEF PutOwn, Holding, Commands
  <1>7. CASE PutOutcomes(a)
    <2>1. request[a].held \in Revision /\ request[a].held.state = "publishing"
      BY <1>7, PublisherHolds DEF PutOutcomes, Recording
    <2>2. PICK rev : rev = request[a].held
      OBVIOUS
    <2>3. QED
      BY <1>7, <2>1, <2>2, LonePut DEF PutOutcomes, Holding, Recording, InFlightStates
  <1>8. QED
    BY <1>1, <1>2, <1>3, <1>4, <1>5, <1>6, <1>7

-----------------------------------------------------------------------------
(* Steps that read, and the writes of a proposal and of a target *)

LEMMA LoneIssue ==
  ASSUME LoneInv, IInv, NEW a \in Admin, IssueSome(a), OneAtATime'
  PROVE  LoneInv'
  <1>1. PICK op \in Operation, n \in Number \cup {0}, c \in Content \cup {NoContent} : Issue(a, op, n, c)
    BY DEF IssueSome
  <1>2. PICK r : r = [Idle EXCEPT !.phase   = CASE op \in {"withdraw", "abandon"} -> "readOwn"
                                                [] op = "remove"                  -> "number"
                                                [] OTHER                          -> "query",
                                  !.op      = op,
                                  !.number  = n,
                                  !.content = c]
    OBVIOUS
  <1>3. /\ request' = [request EXCEPT ![a] = r] /\ StoreUnchanged
        /\ r.op = op
        /\ r.phase = CASE op \in {"withdraw", "abandon"} -> "readOwn"
                        [] op = "remove"                  -> "number"
                        [] OTHER                          -> "query"
    BY <1>1, <1>2 DEF Issue, StoreUnchanged, store, Idle
  <1>4. /\ request'[a] = r
        /\ \A b \in Admin \ {a} : request'[b] = request[b]
    BY <1>3 DEF IInv, TypeOK
  <1>5. op # "remove"
    BY <1>3, <1>4 DEF OneAtATime
  <1>6. r.phase \in {"readOwn", "query"} /\ request'[a] # Idle
    BY <1>3, <1>4, <1>5 DEF Idle
  <1>7. LoneStore'
    BY <1>3, StoreKeptLone DEF LoneInv
  <1>8. \A b \in Admin \ {a} : request'[b] = Idle
    BY <1>6 DEF OneAtATime
  <1>9. \A b \in Admin \ {a} : LoneRequest(request[b])'
    BY <1>8, IdleIsLone DEF LoneRequest
  <1>10. LoneRequest(request[a])'
    BY <1>4, <1>6 DEF LoneRequest, Proposing, Holding, Recording, Publishing
  <1>11. QED
    BY <1>7, <1>9, <1>10 DEF LoneInv

\* The store stays, and the request either ends or goes on as LoneRequest has it.
LEMMA LoneReads ==
  ASSUME LoneInv, IInv, NEW a \in Admin, request[a] # Idle, OneAtATime', StoreUnchanged,
         NEW r, request' = [request EXCEPT ![a] = r], LoneRequest(r)
  PROVE  LoneInv'
  <1>1. /\ request'[a] = r
        /\ \A b \in Admin \ {a} : request'[b] = request[b]
    BY DEF IInv, TypeOK
  <1>2. UNCHANGED <<Stored, Unfinished>>
    BY DEF StoreUnchanged, Stored, Unfinished
  <1>3. LoneRequest(request[a])'
    BY <1>1, <1>2 DEF LoneRequest, StoreUnchanged, NextNumber
  <1>4. QED
    BY <1>1, <1>3, LoneStep, StoreKeptLone DEF LoneInv

LEMMA LoneEnds ==
  ASSUME LoneInv, IInv, NEW a \in Admin, request[a] # Idle, OneAtATime', StoreUnchanged, End(a)
  PROVE  LoneInv'
  BY LoneReads, IdleIsLone DEF End

LEMMA LoneQuery ==
  ASSUME LoneInv, IInv, NEW a \in Admin, Query(a), OneAtATime'
  PROVE  LoneInv'
  <1>1. /\ request[a] # Idle /\ StoreUnchanged /\ request[a] \in Request
        /\ request[a].op \in {"propose", "import", "resume", "resumeImport"}
    BY IdleIsLone DEF Query, StoreUnchanged, store, IInv, TypeOK, RequestOK
  <1>2. CASE ~Proceeds(request[a])
    BY <1>1, <1>2, LoneEnds DEF Query
  <1>3. CASE Proceeds(request[a])
    <2>1. PICK r : r = [request[a] EXCEPT !.phase =
                          IF request[a].op \in {"propose", "import"} THEN "number" ELSE "read"]
      OBVIOUS
    <2>2. request' = [request EXCEPT ![a] = r]
      BY <1>1, <1>3, <2>1 DEF Query, IInv, TypeOK, Request
    <2>3. /\ r.op = request[a].op /\ r.number = request[a].number
          /\ r.phase = IF request[a].op \in {"propose", "import"} THEN "number" ELSE "read"
      BY <1>1, <2>1 DEF Request
    <2>4. CASE request[a].op \in {"propose", "import"}
      <3>1. Unfinished = {}
        BY <1>3, <2>4 DEF Proceeds
      <3>2. ~FirstImportInFlight
        BY <3>1 DEF FirstImportInFlight, InFlight
      <3>3. request[a].op = "import" => Stored = {}
        BY <1>3, <3>2 DEF Proceeds, Initial
      <3>4. LoneRequest(r)
        BY <2>3, <2>4, <3>1, <3>3 DEF LoneRequest, Holding, Recording, Publishing
      <3>5. QED
        BY <1>1, <2>2, <3>4, LoneReads
    <2>5. CASE request[a].op \in {"resume", "resumeImport"}
      <3>1. request[a].number \in Unfinished
        BY <1>3, <2>5 DEF Proceeds, InFlight
      <3>2. LoneRequest(r)
        BY <2>3, <2>5, <3>1 DEF LoneRequest, Proposing, Holding, Recording, Publishing
      <3>3. QED
        BY <1>1, <2>2, <3>2, LoneReads
    <2>6. QED
      BY <1>1, <2>4, <2>5
  <1>4. QED
    BY <1>2, <1>3

LEMMA LoneTakeNumber ==
  ASSUME LoneInv, IInv, NEW a \in Admin, TakeNumber(a), OneAtATime'
  PROVE  LoneInv'
  <1>1. /\ request[a] # Idle /\ StoreUnchanged /\ request[a] \in Request
        /\ LoneRequest(request[a]) /\ request[a].phase = "number"
    BY IdleIsLone DEF TakeNumber, StoreUnchanged, store, IInv, TypeOK, LoneInv
  <1>2. PICK n \in Number : NextNumber(n) /\ request' = [request EXCEPT ![a].phase = "putDraft", ![a].number = n]
    BY DEF TakeNumber
  <1>3. PICK r : r = [request[a] EXCEPT !.phase = "putDraft", !.number = n]
    OBVIOUS
  <1>4. request' = [request EXCEPT ![a] = r]
    BY <1>1, <1>2, <1>3 DEF IInv, TypeOK, Request
  <1>5. r.phase = "putDraft" /\ r.number = n /\ r.op = request[a].op
    BY <1>1, <1>3 DEF Request
  <1>6. LoneRequest(r)
    BY <1>1, <1>2, <1>5 DEF LoneRequest, Proposing, Holding, Recording, Publishing
  <1>7. QED
    BY <1>1, <1>4, <1>6, LoneReads

LEMMA LonePutDraft ==
  ASSUME LoneInv, IInv, NEW a \in Admin, PutDraft(a), OneAtATime'
  PROVE  LoneInv'
  <1>0. PICK n : n = request[a].number
    OBVIOUS
  <1>1. /\ request[a] # Idle /\ request[a] \in Request /\ request[a].phase = "putDraft"
        /\ LoneRequest(request[a]) /\ LoneStore /\ n \in Number
    BY <1>0, IdleIsLone DEF PutDraft, IInv, TypeOK, RequestOK, LoneInv
  <1>2. CASE ~DraftAbsent(n)
    BY <1>0, <1>1, <1>2, LoneEnds DEF PutDraft, StoreUnchanged
  <1>3. CASE DraftAbsent(n)
    <2>1. PICK r : r = [request[a] EXCEPT !.phase = "putRevision"]
      OBVIOUS
    <2>2. /\ request' = [request EXCEPT ![a] = r]
          /\ r.phase = "putRevision" /\ r.number = n /\ r.op = request[a].op
      BY <1>0, <1>1, <1>3, <2>1 DEF PutDraft, IInv, TypeOK, Request
    <2>3. /\ UNCHANGED <<revision, version, snapshot, landed>>
          /\ \A m \in Number \ {n} : draft'[m] = draft[m]
      BY <1>0, <1>3 DEF PutDraft, IInv, TypeOK
    <2>4. UNCHANGED <<Stored, Unfinished>> /\ \A m \in Number : ActiveRevision(m)' <=> ActiveRevision(m)
      BY <2>3 DEF Stored, Unfinished, ActiveRevision
    <2>5. n \notin Stored
      <3>1. NextNumber(n)
        BY <1>0, <1>1 DEF LoneRequest
      <3>2. QED
        BY <1>1, <3>1 DEF NextNumber, Number
    <2>6. ASSUME NEW t \in Target
          PROVE  Served(t)'
      <3>1. Served(t)
        BY <1>1 DEF LoneStore
      <3>2. \A m \in Stored : m \in Number \ {n}
        BY <2>5 DEF Stored
      <3>3. \A m \in Unfinished : m \in Stored
        BY DEF Unfinished
      <3>4. \A m \in Number : ActiveRevision(m) => m \in Stored
        BY DEF ActiveRevision
      <3>5. QED
        BY <2>3, <2>4, <3>1, <3>2, <3>3, <3>4 DEF Served
    <2>7. LoneStore'
      BY <1>1, <2>3, <2>4, <2>6 DEF LoneStore, LastInFlight
    <2>8. /\ request'[a] = r
          /\ \A b \in Admin \ {a} : request'[b] = request[b]
      BY <2>2 DEF IInv, TypeOK
    <2>9. LoneRequest(request[a])'
      BY <1>0, <1>1, <2>2, <2>3, <2>4, <2>8 DEF LoneRequest, NextNumber, Proposing, Holding, Recording, Publishing
    <2>10. QED
      BY <1>1, <2>7, <2>8, <2>9, LoneStep
  <1>4. QED
    BY <1>2, <1>3

LEMMA LonePutRevision ==
  ASSUME LoneInv, IInv, IInv', NEW a \in Admin, PutRevision(a), OneAtATime'
  PROVE  LoneInv'
  <1>0. PICK n, rev : n = request[a].number /\ rev = CreateRevision(n, Author(a))
    OBVIOUS
  <1>1. /\ request[a] # Idle /\ request[a] \in Request /\ request[a].phase = "putRevision"
        /\ LoneRequest(request[a]) /\ LoneStore /\ n \in Number /\ StoreOK(n)
    BY <1>0, IdleIsLone DEF PutRevision, IInv, TypeOK, RequestOK, LoneInv
  <1>2. NextNumber(n) /\ Unfinished = {} /\ (request[a].op = "import" => Stored = {})
    BY <1>0, <1>1 DEF LoneRequest, Proposing
  <1>3. CASE version[n] # 0
    BY <1>0, <1>1, <1>3, LoneEnds DEF PutRevision, StoreUnchanged
  <1>4. CASE version[n] = 0
    <2>1. /\ revision' = [revision EXCEPT ![n] = rev]
          /\ version' = [version EXCEPT ![n] = 1]
          /\ draft' = draft /\ snapshot' = snapshot /\ landed' = landed
      BY <1>0, <1>4 DEF PutRevision
    <2>2. /\ rev.state = "draft" /\ rev.author = Author(a) /\ rev # NoDoc
      <3>1. n \in Nat \ {0} /\ Author(a) \in Actor
        BY <1>1, ActorAssumption DEF Number, Author
      <3>2. rev \in Revision
        BY <1>0, <3>1, CreateRevisionType
      <3>3. QED
        BY <1>0, <3>2, NoDocAssumption DEF CreateRevision
    <2>3. /\ revision'[n] = rev /\ version'[n] = 1
          /\ \A m \in Number \ {n} : revision'[m] = revision[m]
      BY <1>1, <2>1 DEF IInv, TypeOK
    <2>4. revision[n] = NoDoc /\ landed[n] = {}
      BY <1>1, <1>4 DEF StoreOK
    <2>5. Stored' = Stored \cup {n} /\ n \notin Stored
      BY <1>1, <2>2, <2>3, <2>4 DEF Stored
    <2>6. Unfinished' = {n}
      <3>1. \A m \in Stored : m \in Number \ {n} /\ revision[m].state \notin InFlightStates
        BY <1>2, <2>5 DEF Unfinished, Stored
      <3>2. \A m \in Stored : revision'[m].state \notin InFlightStates
        BY <2>3, <3>1
      <3>3. revision'[n].state \in InFlightStates
        BY <2>2, <2>3 DEF InFlightStates
      <3>4. QED
        BY <2>5, <3>2, <3>3 DEF Unfinished
    <2>7. LastInFlight'
      <3>1. n \in Int /\ \A m \in Stored : m \in Int
        BY <1>1 DEF Stored, Number
      <3>2. \A m \in Stored : m < n
        BY <1>2 DEF NextNumber
      <3>3. \A m \in Stored \cup {n} : m <= n
        BY <3>1, <3>2
      <3>4. QED
        BY <2>5, <2>6, <3>3 DEF LastInFlight
    <2>8. Author(a) = Bootstrap => n = 1
      <3>1. a # Bootstrap
        BY ActorAssumption
      <3>2. Author(a) = Bootstrap => Stored = {}
        BY <1>2, <3>1 DEF Author
      <3>3. QED
        BY <1>2, <3>2 DEF NextNumber
    <2>9. \A m \in Stored' : Admin # {} /\ (revision'[m].author = Bootstrap => m = 1)
      BY <1>1, <2>2, <2>3, <2>5, <2>8 DEF LoneStore, Stored
    <2>10. ASSUME NEW t \in Target
           PROVE  Served(t)'
      <3>1. \A m \in Number : ActiveRevision(m) => snapshot[t].content = draft[m].content
        BY <1>1, <1>2 DEF LoneStore, Served
      <3>2. \A m \in Number : ActiveRevision(m)' => ActiveRevision(m)
        BY <2>2, <2>3, <2>5 DEF ActiveRevision, Stored
      <3>3. QED
        BY <2>1, <2>4, <2>6, <3>1, <3>2 DEF Served
    <2>11. LoneStore'
      BY <2>7, <2>9, <2>10 DEF LoneStore
    <2>12. CASE request[a].op # "import"
      BY <1>0, <1>1, <1>4, <2>11, <2>12, LoneEnd DEF PutRevision
    <2>13. CASE request[a].op = "import"
      <3>1. PICK r : r = [request[a] EXCEPT !.phase = "approve", !.held = rev, !.tag = 1]
        OBVIOUS
      <3>2. /\ request' = [request EXCEPT ![a] = r]
            /\ r.phase = "approve" /\ r.number = n /\ r.tag = 1
        BY <1>0, <1>1, <1>4, <2>13, <3>1 DEF PutRevision, IInv, TypeOK, Request
      <3>3. /\ request'[a] = r
            /\ \A b \in Admin \ {a} : request'[b] = request[b]
        BY <3>2 DEF IInv, TypeOK
      <3>4. LoneRequest(request[a])'
        BY <2>3, <2>6, <3>2, <3>3 DEF LoneRequest, Proposing, Holding
      <3>5. QED
        BY <1>1, <2>11, <3>3, <3>4, LoneStep
    <2>14. QED
      BY <2>12, <2>13
  <1>5. QED
    BY <1>3, <1>4

LEMMA LoneRead ==
  ASSUME LoneInv, IInv, NEW a \in Admin, Read(a), OneAtATime'
  PROVE  LoneInv'
  <1>0. PICK n : n = request[a].number
    OBVIOUS
  <1>1. /\ request[a] # Idle /\ StoreUnchanged /\ request[a] \in Request /\ request[a].phase = "read"
        /\ n \in Unfinished
    BY <1>0, IdleIsLone DEF Read, StoreUnchanged, store, IInv, TypeOK, LoneInv, LoneRequest
  <1>2. CASE ~Resumable(n, request[a])
    BY <1>0, <1>1, <1>2, LoneEnds DEF Read
  <1>3. CASE Resumable(n, request[a])
    <2>1. PICK r : r = [request[a] EXCEPT !.phase   = AfterRead(revision[n].state),
                                          !.held    = revision[n],
                                          !.tag     = version[n],
                                          !.content = draft[n].content]
      OBVIOUS
    <2>2. request' = [request EXCEPT ![a] = r]
      BY <1>0, <1>1, <1>3, <2>1 DEF Read, IInv, TypeOK, Request
    <2>3. r.phase = AfterRead(revision[n].state) /\ r.number = n /\ r.tag = version[n]
      BY <1>0, <1>1, <2>1 DEF Request
    <2>4. r.phase \in {"approve", "begin", "fail", "retry"}
      BY <2>3 DEF AfterRead
    <2>5. LoneRequest(r)
      BY <1>1, <2>3, <2>4 DEF LoneRequest, Proposing, Holding, Recording, Publishing
    <2>6. QED
      BY <1>1, <2>2, <2>5, LoneReads
  <1>4. QED
    BY <1>2, <1>3

LEMMA LoneBegin ==
  ASSUME LoneInv, IInv, NEW a \in Admin, Begin(a), OneAtATime'
  PROVE  LoneInv'
  <1>0. PICK n : n = request[a].number
    OBVIOUS
  <1>1. /\ request[a] # Idle /\ StoreUnchanged /\ request[a] \in Request /\ request[a].phase = "begin"
        /\ n \in Unfinished
    BY <1>0, IdleIsLone DEF Begin, StoreUnchanged, store, IInv, TypeOK, LoneInv, LoneRequest, Holding
  <1>2. PICK r : r = [request[a] EXCEPT !.phase   = "start",
                                        !.held    = revision[n],
                                        !.tag     = version[n],
                                        !.content = draft[n].content]
    OBVIOUS
  <1>3. request' = [request EXCEPT ![a] = r]
    BY <1>0, <1>1, <1>2 DEF Begin, IInv, TypeOK, Request
  <1>4. r.phase = "start" /\ r.number = n /\ r.tag = version[n]
    BY <1>0, <1>1, <1>2 DEF Request
  <1>5. LoneRequest(r)
    BY <1>1, <1>4 DEF LoneRequest, Proposing, Holding, Recording, Publishing
  <1>6. QED
    BY <1>1, <1>3, <1>5, LoneReads

LEMMA LoneReadOwn ==
  ASSUME LoneInv, IInv, NEW a \in Admin, ReadOwn(a), OneAtATime'
  PROVE  LoneInv'
  <1>0. PICK n : n = request[a].number
    OBVIOUS
  <1>1. /\ request[a] # Idle /\ StoreUnchanged /\ request[a] \in Request /\ request[a].phase = "readOwn"
        /\ n \in Number /\ request[a].op \in {"withdraw", "abandon"}
    BY <1>0, IdleIsLone DEF ReadOwn, StoreUnchanged, store, IInv, TypeOK, RequestOK
  <1>2. CASE ~Removable(n, request[a].op, a)
    BY <1>0, <1>1, <1>2, LoneEnds DEF ReadOwn
  <1>3. CASE Removable(n, request[a].op, a)
    <2>1. PICK r : r = [request[a] EXCEPT !.phase = "putOwn", !.held = revision[n], !.tag = version[n]]
      OBVIOUS
    <2>2. request' = [request EXCEPT ![a] = r]
      BY <1>0, <1>1, <1>3, <2>1 DEF ReadOwn, IInv, TypeOK, Request
    <2>3. r.phase = "putOwn" /\ r.number = n /\ r.tag = version[n]
      BY <1>0, <1>1, <2>1 DEF Request
    <2>4. n \in Unfinished
      BY <1>1, <1>3 DEF Removable, Unfinished, Stored, InFlightStates
    <2>5. LoneRequest(r)
      BY <2>3, <2>4 DEF LoneRequest, Proposing, Holding, Recording, Publishing
    <2>6. QED
      BY <1>1, <2>2, <2>5, LoneReads
  <1>4. QED
    BY <1>2, <1>3

LEMMA LoneWrite ==
  ASSUME LoneInv, IInv, NEW a \in Admin, NEW t \in Target, WriteTarget(a, t), OneAtATime'
  PROVE  LoneInv'
  <1>0. PICK n : n = request[a].number
    OBVIOUS
  <1>1. /\ request[a].phase = "write" /\ request[a] \in Request
        /\ n \in Number /\ n \in Unfinished /\ request[a].content = draft[n].content
        /\ LoneStore /\ UNCHANGED <<revision, version, draft>>
    BY <1>0, PublisherHolds
      DEF WriteTarget, LoneInv, LoneRequest, HoldsRevision, Holding, Recording, Publishing
  <1>2. /\ landed'[n] = landed[n] \cup {t}
        /\ \A m \in Number \ {n} : landed'[m] = landed[m]
        /\ snapshot'[t].content = request[a].content
        /\ \A u \in Target \ {t} : snapshot'[u] = snapshot[u]
    BY <1>0, <1>1 DEF WriteTarget, IInv, TypeOK
  <1>3. UNCHANGED <<Stored, Unfinished>> /\ \A m \in Number : ActiveRevision(m)' <=> ActiveRevision(m)
    BY <1>1 DEF Stored, Unfinished, ActiveRevision
  <1>4. Unfinished = {n}
    BY <1>1, OnlyOneInFlight DEF LoneStore
  <1>5. ASSUME NEW u \in Target
        PROVE  Served(u)'
    <2>1. CASE u = t
      BY <1>1, <1>2, <1>3, <2>1 DEF Served
    <2>2. CASE u # t
      <3>1. Served(u) /\ (u \in landed'[n] <=> u \in landed[n]) /\ snapshot'[u] = snapshot[u]
        BY <1>1, <1>2, <2>2 DEF LoneStore
      <3>2. QED
        BY <1>1, <1>3, <1>4, <3>1 DEF Served
    <2>3. QED
      BY <2>1, <2>2
  <1>6. LoneStore'
    BY <1>1, <1>3, <1>5 DEF LoneStore, LastInFlight
  <1>7. CASE Record(a, t, "failed")
    BY <1>1, <1>6, <1>7, LoneRecord DEF Publishing
  <1>8. CASE request' = [request EXCEPT ![a].phase = "readBack"]
    <2>1. PICK r : r = [request[a] EXCEPT !.phase = "readBack"]
      OBVIOUS
    <2>2. /\ request' = [request EXCEPT ![a] = r] /\ r.phase = "readBack"
          /\ r.number = request[a].number /\ r.tag = request[a].tag
      BY <1>1, <1>8, <2>1 DEF IInv, TypeOK, Request
    <2>3. request[a].phase \in Holding /\ r.phase \in Holding
      BY <1>1, <2>2 DEF Holding, Recording, Publishing
    <2>4. QED
      BY <1>1, <1>6, <2>2, <2>3, LoneHolds
  <1>9. QED
    BY <1>7, <1>8 DEF WriteTarget

LEMMA LoneTarget ==
  ASSUME LoneInv, IInv, NEW a \in Admin, NEW t \in Target, OneAtATime',
         RefuseContent(a, t) \/ ReadVersion(a, t) \/ WriteRefused(a, t) \/ ReadBack(a, t)
  PROVE  LoneInv'
  <1>1. /\ StoreUnchanged /\ request[a].phase \in Publishing /\ UNCHANGED <<revision, version>>
    BY DEF RefuseContent, ReadVersion, WriteRefused, ReadBack, StoreUnchanged, store, Publishing
  <1>2. LoneStore'
    BY <1>1, StoreKeptLone DEF LoneInv
  <1>3. CASE \E outcome : Record(a, t, outcome)
    BY <1>1, <1>2, <1>3, LoneRecord
  <1>4. CASE ReadVersion(a, t)
    <2>1. PICK r : r = [request[a] EXCEPT !.phase = "write", !.targetTag = snapshot[t].tag]
      OBVIOUS
    <2>2. /\ request' = [request EXCEPT ![a] = r] /\ r.phase = "write"
          /\ r.number = request[a].number /\ r.tag = request[a].tag
      BY <1>4, <2>1 DEF ReadVersion, IInv, TypeOK, Request
    <2>3. request[a].phase \in Holding /\ r.phase \in Holding
      BY <1>1, <2>2 DEF Holding, Recording, Publishing
    <2>4. QED
      BY <1>1, <1>2, <2>2, <2>3, LoneHolds
  <1>5. QED
    BY <1>3, <1>4 DEF RefuseContent, WriteRefused, ReadBack

LEMMA LoneInit == Init => LoneInv
  <1> SUFFICES ASSUME Init PROVE LoneInv
    OBVIOUS
  <1>1. Stored = {} /\ Unfinished = {} /\ \A n \in Number : ~ActiveRevision(n)
    BY DEF Init, Stored, Unfinished, ActiveRevision
  <1>2. \A a \in Admin : request[a] = Idle
    BY DEF Init
  <1>3. \A a \in Admin : LoneRequest(request[a])
    BY <1>2, IdleIsLone
  <1>4. OneAtATime
    BY <1>2 DEF OneAtATime, Idle
  <1>5. LoneStore
    BY <1>1 DEF LoneStore, LastInFlight, Served
  <1>6. QED
    BY <1>3, <1>4, <1>5 DEF LoneInv

LEMMA LoneNext ==
  ASSUME LoneInv, IInv, IInv', Next, OneAtATime'
  PROVE  LoneInv'
  <1>1. PICK a \in Admin : IssueSome(a) \/ Lose(a) \/ Step(a)
    BY DEF Next
  <1>2. CASE IssueSome(a)
    BY <1>2, LoneIssue
  <1>3. CASE Lose(a)
    BY <1>3, LoneEnds DEF Lose, store, StoreUnchanged
  <1>4. CASE Query(a) \/ TakeNumber(a) \/ PutDraft(a) \/ PutRevision(a)
    BY <1>4, LoneQuery, LoneTakeNumber, LonePutDraft, LonePutRevision
  <1>5. CASE Read(a) \/ Begin(a) \/ ReadOwn(a)
    BY <1>5, LoneRead, LoneBegin, LoneReadOwn
  <1>6. CASE \/ Approve(a) \/ MarkFailed(a) \/ Retry(a) \/ Start(a) \/ Finish(a) \/ PutOwn(a)
             \/ PutOutcomes(a)
    BY <1>6, LoneCommands
  <1>7. ASSUME NEW t \in Target,
               \/ RefuseContent(a, t) \/ ReadVersion(a, t) \/ WriteTarget(a, t)
               \/ WriteRefused(a, t) \/ ReadBack(a, t)
        PROVE  LoneInv'
    BY <1>7, LoneWrite, LoneTarget
  <1>8. QED
    BY <1>1, <1>2, <1>3, <1>4, <1>5, <1>6, <1>7 DEF Step

LEMMA LoneStutter == ASSUME LoneInv, IInv, UNCHANGED vars PROVE LoneInv'
  <1>1. StoreUnchanged /\ UNCHANGED <<request, Stored, Unfinished>>
    BY DEF vars, StoreUnchanged, Stored, Unfinished
  <1>2. LoneStore'
    BY <1>1, StoreKeptLone DEF LoneInv
  <1>3. \A a \in Admin : LoneRequest(request[a])'
    BY <1>1 DEF LoneInv, LoneRequest, NextNumber, StoreUnchanged
  <1>4. OneAtATime'
    BY <1>1 DEF LoneInv, OneAtATime
  <1>5. QED
    BY <1>2, <1>3, <1>4 DEF LoneInv

\* Both regimes are publication; and where requests come one at a time, what is in
\* flight is the last revision, and a running request holds it as it is stored.
THEOREM AloneInvariant == RegimeSpec => [](IInv /\ AloneInv)
  <1>1. RegimeInit => IInv /\ AloneInv
    BY InvInit, LoneInit DEF RegimeInit, AloneInv
  <1>2. IInv /\ AloneInv /\ [Next /\ Regime]_<<vars, alone>> => IInv' /\ AloneInv'
    <2> SUFFICES ASSUME IInv, AloneInv, [Next /\ Regime]_<<vars, alone>>
                 PROVE  IInv' /\ AloneInv'
      OBVIOUS
    <2>1. IInv'
      BY InvNext, InvStutter
    <2>2. CASE Next /\ Regime
      BY <2>1, <2>2, LoneNext DEF AloneInv, Regime
    <2>3. CASE UNCHANGED <<vars, alone>>
      BY <2>1, <2>3, LoneStutter DEF AloneInv
    <2>4. QED
      BY <2>1, <2>2, <2>3
  <1>3. QED
    BY <1>1, <1>2, PTL DEF RegimeSpec

\* Where requests do not overlap, what is served at rest is the active revision.
THEOREM AloneServes == RegimeSpec => []AloneServesActive
  <1>1. ASSUME IInv, LoneInv, Settled, NEW n \in Number, ActiveRevision(n), NEW t \in Target
        PROVE  snapshot[t].content = draft[n].content
    <2>1. Served(t)
      BY <1>1 DEF LoneInv, LoneStore
    <2>2. ASSUME NEW m \in Unfinished
          PROVE  landed[m] = {}
      <3>1. m \in Number /\ m \in Stored /\ StoreOK(m) /\ revision[m] # NoDoc
        BY <1>1 DEF Unfinished, Stored, IInv
      <3>2. revision[m].state \notin Published
        BY <1>1, <3>1 DEF Settled, Unfinished, InFlightStates, Published
      <3>3. QED
        BY <3>1, <3>2 DEF StoreOK, Lawful
    <2>3. QED
      BY <1>1, <2>1, <2>2 DEF Served
  <1>2. IInv /\ AloneInv => AloneServesActive
    BY <1>1 DEF AloneInv, AloneServesActive, ServedIsActive
  <1>3. QED
    BY <1>2, AloneInvariant, PTL

-----------------------------------------------------------------------------
(* The screen when nothing runs *)

\* Every button is one its handler accepts.
LEMMA ButtonsWork ==
  ASSUME IInv, LoneStore, NEW n \in Stored, NEW a \in Admin, NEW op \in Buttons(Screen, n, a)
  PROVE  Admitted(n, op, a)
  <1>1. PICK c \in Offered(n, a) \cap (FromProposal \cup {"abandon", "withdraw"}) :
          op = CASE c \in FromProposal -> IF revision[n].author = Bootstrap THEN "resumeImport" ELSE "resume"
                 [] OTHER              -> c
    <2>1. Screen.offered[n][a] = Offered(n, a)
      BY DEF Screen
    <2>2. QED
      BY <2>1 DEF Buttons
  <1>2. /\ n \in Number /\ revision[n] # NoDoc /\ revision[n].state \in AllowedFrom[c]
        /\ c = "approve" => (a = revision[n].author => a \in SelfApprover)
        /\ c = "abandon" => /\ ~PublicationActivity(revision[n])
                            /\ revision[n].author = Bootstrap /\ a \in Owner
        /\ c = "withdraw" => revision[n].state = "draft" /\ revision[n].author = a
        /\ c \in FromProposal => draft[n] # NoDoc
    <2>1. a # NoActor
      BY ActorAssumption, NoActorAssumption
    <2>2. QED
      BY <1>1, <2>1 DEF Offered, AvailableCommands, Stored
  <1>3. PICK ctx : ctx = [expected |-> revision[n].number, publishing |-> NoRevision,
                          previous |-> NoRevision, reason |-> TRUE, granted |-> a \in SelfApprover]
    OBVIOUS
  <1>4. CASE c \in FromProposal
    <2>1. /\ op = IF revision[n].author = Bootstrap THEN "resumeImport" ELSE "resume"
          /\ First(n, op) = c /\ n \in Unfinished
      BY <1>1, <1>2, <1>4
        DEF FromProposal, AllowedFrom, First, AfterRead, Unfinished, InFlightStates
    <2>2. Accepts(revision[n], First(n, op), a, ctx)
      BY <1>2, <1>3, <1>4, <2>1 DEF Accepts, FromProposal
    <2>3. PICK sent : sent = [Idle EXCEPT !.op = op, !.number = n, !.held = revision[n]]
      OBVIOUS
    <2>4. sent.op = op /\ sent.number = n
      BY <2>3 DEF Idle
    <2>5. InFlight(n)
      BY <2>1, OnlyOneInFlight DEF InFlight, LoneStore, Unfinished, Stored, Number
    <2>6. Initial(sent) => FirstImportInFlight
      <3>1. ASSUME Initial(sent)
            PROVE  n = 1
        BY <2>1, <2>4, <3>1 DEF Initial, LoneStore
      <3>2. n = 1 => Stored = {1}
        BY <2>1 DEF LoneStore, LastInFlight, Stored, Number
      <3>3. QED
        BY <2>5, <3>1, <3>2 DEF FirstImportInFlight
    <2>7. Proceeds(sent)
      BY <2>1, <2>4, <2>5, <2>6 DEF Proceeds
    <2>8. Resumable(n, sent)
      BY <1>2, <1>4, <2>1, <2>4 DEF Resumable, Initial
    <2>9. op \notin {"abandon", "withdraw"}
      BY <2>1
    <2>10. QED
      BY <1>3, <2>2, <2>3, <2>7, <2>8, <2>9 DEF Admitted
  <1>5. CASE c \in {"abandon", "withdraw"}
    <2>1. op = c /\ First(n, op) = c
      BY <1>1, <1>5 DEF First, FromProposal
    <2>2. Removable(n, op, a)
      BY <1>2, <1>5, <2>1 DEF Removable, AllowedFrom, PublicationActivity
    <2>3. Accepts(revision[n], First(n, op), a, ctx)
      BY <1>2, <1>3, <1>5, <2>1 DEF Accepts
    <2>4. QED
      BY <1>3, <1>5, <2>1, <2>2, <2>3 DEF Admitted
  <1>6. QED
    BY <1>1, <1>4, <1>5

\* What is unfinished shows somebody a button.
LEMMA SomebodyCan ==
  ASSUME IInv, LoneStore, NEW n \in Unfinished
  PROVE  \E a \in Admin : Buttons(Screen, n, a) # {}
  <1>1. /\ n \in Stored /\ n \in Number /\ StoreOK(n) /\ revision[n] # NoDoc /\ Admin # {}
        /\ revision[n] \in Revision /\ draft[n] # NoDoc
    BY DEF Unfinished, Stored, LoneStore, IInv, TypeOK, StoreOK
  <1>2. \A a \in Admin : Screen.offered[n][a] = Offered(n, a)
    BY <1>1 DEF Screen
  <1>3. ASSUME NEW a \in Admin, NEW c \in FromProposal \cup {"withdraw"}, c \in Offered(n, a)
        PROVE  Buttons(Screen, n, a) # {}
    BY <1>2, <1>3 DEF Buttons
  <1>4. PICK a \in Admin : revision[n].author \in Admin => a = revision[n].author
    BY <1>1
  <1>5. revision[n].author \in Admin \cup {Bootstrap}
    BY <1>1, ActorAssumption DEF Revision
  <1>6. PICK c : c = CASE revision[n].state = "draft"      -> IF revision[n].author \in Admin THEN "withdraw" ELSE "approve"
                       [] revision[n].state = "approved"   -> "publish"
                       [] revision[n].state = "publishing" -> "fail"
                       [] OTHER                            -> "retry"
    OBVIOUS
  <1>7. revision[n].state \in {"draft", "approved", "publishing", "failed"}
    BY DEF Unfinished, InFlightStates
  <1>8. /\ c \in FromProposal \cup {"withdraw"} /\ c \in Command \ {"edit", "complete", "abandon"}
        /\ revision[n].state \in AllowedFrom[c]
        /\ c = "approve" => revision[n].author = Bootstrap
        /\ c = "withdraw" => revision[n].state = "draft" /\ revision[n].author \in Admin
    BY <1>5, <1>6, <1>7 DEF FromProposal, Command, AllowedFrom
  <1>9. c \in Offered(n, a)
    BY <1>1, <1>4, <1>8, ActorAssumption DEF Offered, AvailableCommands
  <1>10. QED
    BY <1>3, <1>8, <1>9

\* Where requests do not overlap and none is running, the buttons of the screen work,
\* every unfinished revision has one, and one revision at most is publishing.
THEOREM AloneScreen == RegimeSpec => []AloneScreenLeadsOn
  <1>1. ASSUME IInv, LoneStore
        PROVE  Cardinality(Screen.publishing) <= 1
    <2>1. PICK S : S = Screen.publishing
      OBVIOUS
    <2>2. S \subseteq Unfinished
      BY <2>1 DEF Screen, InState, Unfinished, InFlightStates
    <2>3. CASE S = {}
      BY <2>1, <2>3, FS_EmptySet
    <2>4. CASE S # {}
      <3>1. PICK n : n \in S
        BY <2>4
      <3>2. S = {n}
        BY <1>1, <2>2, <3>1, OnlyOneInFlight DEF LoneStore
      <3>3. Cardinality(S) = 1
        BY <3>2, FS_Singleton
      <3>4. QED
        BY <2>1, <3>3
    <2>5. QED
      BY <2>3, <2>4
  <1>2. IInv /\ LoneStore => ScreenLeadsOn
    BY <1>1, ButtonsWork, SomebodyCan DEF ScreenLeadsOn
  <1>3. IInv /\ AloneInv => AloneScreenLeadsOn
    BY <1>2 DEF AloneInv, AloneScreenLeadsOn, LoneInv
  <1>4. QED
    BY <1>3, AloneInvariant, PTL

==============================================================================
