------------------------- MODULE ConfigurationWriter -------------------------
(***************************************************************************)
(* The pages of an administration server and the writer they save through  *)
(* (app/control-api/configuration-writer.mjs, the lifecycle routes of      *)
(* local-admin-server.mjs and the lifecycle screen of app.mjs), over one   *)
(* revision.                                                               *)
(*                                                                         *)
(* Every await between two accesses to the store is a boundary between two *)
(* actions.  A page keeps the reading its buttons act on and the warning   *)
(* on its screen; an older answer may arrive after a newer one.  The       *)
(* server's instant is a constant, so an audit entry is told from another  *)
(* by who did what, and from which state to which.                         *)
(***************************************************************************)
EXTENDS Lifecycle, Sequences

CONSTANTS
  Page,          \* open lifecycle screens
  ActorOf,       \* the actor a page's requests name
  Author,        \* who wrote the revision
  Approver,      \* who had it approved, where the server starts with it approved
  SelfApprover,  \* actors who may approve their own change
  Recoverer,     \* actors who may abandon a recoverable author's proposal
  Recoverable,   \* authors whose proposals may be abandoned
  MaxRequest,    \* bound on requests sent
  MaxVersion     \* bound on the store's tag, for page loads and requests (a page that
                 \* is waiting for a reading is not loaded again)

ASSUME PageAssumption == ActorOf \in [Page -> Actor]
ASSUME SeedAssumption == Author \in Actor /\ Approver \in Actor
ASSUME AuthorityAssumption == /\ SelfApprover \subseteq Actor
                              /\ Recoverer \subseteq Actor
                              /\ Recoverable \subseteq Actor
ASSUME BoundAssumption == MaxRequest \in Nat /\ MaxVersion \in Nat

VARIABLES
  stored,     \* the stored revision and its audit history
  version,    \* its entity tag: the number of writes
  held,       \* held[p]: the reading page p's buttons act on, at most one
  arriving,   \* arriving[p]: readings the server answered and p has not received
  warning,    \* warning[p]: the conflict on p's screen, at most one
  request,    \* request[p]: the command p has sent and the server works on
  sent        \* requests sent so far

vars == <<stored, version, held, arriving, warning, request, sent>>

Number == 1   \* the number of the revision
Other  == 2   \* another revision, publishing or active

Entry == [by : Actor \cup Target, command : Command \cup {"create", "target-outcome"},
          from : State \cup Outcome \cup {"none"}, to : State \cup Outcome]
Document == [revision : Revision, history : Seq(Entry)]
Reading  == [document : Document, tag : Nat]
Warning  == [command : Command, previous : Nat, tag : Nat, seen : Seq(Entry),
             discarded : Seq(Entry), reason : {"history-diverged", "no-change-since-read",
                                               "changed-since-read"}]
Phase == {"idle", "sent", "put", "compare", "force", "again", "conflict", "saved", "refused",
          "approve", "reserve", "start", "deliver", "finish"}

Idle == [phase |-> "idle"]

Current == [document |-> stored, tag |-> version]

-----------------------------------------------------------------------------
(***************************************************************************)
(* The reducer with its audit history.                                     *)
(***************************************************************************)
Contextual(a, previous, publishing) ==
  [expected |-> Number, publishing |-> publishing, previous |-> previous,
   reason |-> TRUE, granted |-> a \in SelfApprover]

Moved(document, command, a, ctx) ==
  LET next == Applied(document.revision, command, a, ctx)
  IN  [revision |-> next,
       history  |-> Append(document.history,
                           [by |-> a, command |-> command,
                            from |-> document.revision.state, to |-> next.state])]

Reported(document, t, outcome) ==
  [revision |-> Recorded(document.revision, t, outcome),
   history  |-> Append(document.history,
                       [by |-> t, command |-> "target-outcome",
                        from |-> document.revision.outcome[t], to |-> outcome])]

\* What the server answers a page may do (local-admin-server.mjs:942).
Offered(revision, a) ==
  { c \in AvailableCommands(revision, a, a \in SelfApprover) :
      /\ c = "withdraw" => revision.author = a
      /\ c = "abandon"  => a \in Recoverer /\ revision.author \in Recoverable }

-----------------------------------------------------------------------------
(***************************************************************************)
(* What a save would discard: the entries added since a reading.           *)
(***************************************************************************)
Diverged(prior, current) ==
  ~ /\ Len(prior.history) <= Len(current.history)
    /\ \A i \in 1..Len(prior.history) : prior.history[i] = current.history[i]

Discarded(prior, current) ==
  IF Diverged(prior, current) THEN <<>>
  ELSE SubSeq(current.history, Len(prior.history) + 1, Len(current.history))

Comparison(prior, current) ==
  CASE Diverged(prior, current) -> "history-diverged"
    [] /\ prior.history = current.history
       /\ prior.revision.outcome = current.revision.outcome -> "no-change-since-read"
    [] OTHER -> "changed-since-read"

\* What a conflict is compared with: what the caller read, where it said so.
Compared(r) == IF r.command = "approve" THEN r.base.document ELSE r.prior.document

Conflict(r) ==
  [command   |-> r.command,
   previous  |-> r.previous,
   tag       |-> version,
   seen      |-> stored.history,
   discarded |-> Discarded(Compared(r), stored),
   reason    |-> Comparison(Compared(r), stored)]

-----------------------------------------------------------------------------
(***************************************************************************)
(* The revisions a server starts with are driven there by the reducer: one *)
(* that is drafted, one approved, one in publication without a publisher,  *)
(* one active, one whose publication failed.                               *)
(***************************************************************************)
Drafted ==
  [revision |-> CreateRevision(Number, Author),
   history  |-> <<[by |-> Author, command |-> "create", from |-> "none", to |-> "draft"]>>]

Driven(document, command, b) == Moved(document, command, b, Contextual(b, NoRevision, NoRevision))

Seeds ==
  LET approved  == Driven(Drafted, "approve", Approver)
      published == Driven(approved, "publish", Approver)
      Done(outcome) == { Reported(published, t, outcome) : t \in Target }
  IN  {Drafted, approved}
        \cup Done("written")
        \cup { Driven(d, "fail", Approver) : d \in Done("failed") }
        \cup { Driven(d, "complete", Approver) : d \in { e \in Done("verified") : FullyVerified(e.revision) } }

\* Every page has loaded the screen once.
Init ==
  /\ stored \in Seeds
  /\ version = 1
  /\ held = [p \in Page |-> {Current}]
  /\ arriving = [p \in Page |-> {}]
  /\ warning = [p \in Page |-> {}]
  /\ request = [p \in Page |-> Idle]
  /\ sent = 0

(***************************************************************************)
(* The screen.  Rendering it forgets what was held, hides a warning and    *)
(* asks for the revision again, unless nothing can be done with it.        *)
(***************************************************************************)
Load(p) ==
  /\ version < MaxVersion /\ arriving[p] = {}
  /\ warning' = [warning EXCEPT ![p] = {}]
  /\ held' = [held EXCEPT ![p] = {}]
  /\ arriving' = [arriving EXCEPT ![p] =
       IF Offered(stored.revision, ActorOf[p]) = {} THEN @ ELSE @ \cup {Current}]
  /\ UNCHANGED <<stored, version, request, sent>>

Arrive(p) ==
  \E r \in arriving[p] :
    /\ arriving' = [arriving EXCEPT ![p] = @ \ {r}]
    /\ held' = [held EXCEPT ![p] = {r}]
    /\ UNCHANGED <<stored, version, warning, request, sent>>

Send(p, command, previous, reading, acknowledged, seen) ==
  /\ sent < MaxRequest
  /\ version < MaxVersion
  /\ request[p] = Idle
  /\ request' = [request EXCEPT ![p] =
       [phase |-> "sent", command |-> command, previous |-> previous, prior |-> reading,
        acknowledged |-> acknowledged, seen |-> seen, base |-> reading, overwrote |-> <<>>]]
  /\ sent' = sent + 1
  /\ warning' = [warning EXCEPT ![p] = {}]
  /\ UNCHANGED <<stored, version, held, arriving>>

Save(p) ==
  \E r \in held[p], previous \in {NoRevision, Other} :
    \E command \in Offered(r.document.revision, ActorOf[p]) :
      /\ previous = Other => command = "supersede"
      /\ Send(p, command, previous, r, 0, <<>>)

\* "Overwrite": the same command again, naming the version the warning was about.
Confirm(p) ==
  \E w \in warning[p], r \in held[p] :
    /\ w.reason # "history-diverged"
    /\ Send(p, w.command, w.previous, r, w.tag, w.seen)

-----------------------------------------------------------------------------
(***************************************************************************)
(* The server.                                                             *)
(***************************************************************************)
Step(p, r) == request' = [request EXCEPT ![p] = r]

\* What the server answers, when it is no conflict.
Saved   == [phase |-> "saved"]
Refused == [phase |-> "refused"]

Store(document) ==
  /\ stored' = document
  /\ version' = version + 1

Elsewhere == UNCHANGED <<held, arriving, warning, sent>>

\* The save route reads the revision and refuses what the reducer refuses.
Permitted(r, a, revision) ==
  /\ r.command = "withdraw" => revision.author = a
  /\ r.command = "abandon"  => a \in Recoverer /\ revision.author \in Recoverable
  /\ Accepts(revision, r.command, a, Contextual(a, r.previous, NoRevision))

Receive(p) ==
  LET r == request[p] IN
  /\ r.phase = "sent"
  /\ r.command \notin {"approve", "publish"}
  /\ Step(p, IF Permitted(r, ActorOf[p], stored.revision)
                THEN [r EXCEPT !.base = Current, !.phase = "put"] ELSE Refused)
  /\ UNCHANGED <<stored, version>> /\ Elsewhere

\* Fault: the command is applied to the caller's own copy.
ProposedOnReading(p) ==
  LET r == request[p] IN
  Moved(r.prior.document, r.command, ActorOf[p], Contextual(ActorOf[p], r.previous, NoRevision))

\* The command is applied to the stored revision, never to a copy of the caller's.
Proposed(p) ==
  LET r == request[p] IN
  Moved(r.base.document, r.command, ActorOf[p], Contextual(ActorOf[p], r.previous, NoRevision))

\* The document is replaced only under the version the caller read.
Put(p) ==
  LET r == request[p] IN
  /\ r.phase = "put"
  /\ \/ /\ version = r.prior.tag
        /\ Store(Proposed(p))
        /\ Step(p, Saved)
     \/ /\ version # r.prior.tag
        /\ Step(p, [r EXCEPT !.phase = "compare"])
        /\ UNCHANGED <<stored, version>>
  /\ Elsewhere

\* Whether a conflict is overwritten or answered: only what was acknowledged, and
\* never a history that is not a continuation of what was read.
GoesOn(r) ==
  /\ r.acknowledged # 0
  /\ Comparison(Compared(r), stored) # "history-diverged"

Compare(p) ==
  LET r == request[p] IN
  /\ r.phase \in {"compare", "again"}
  /\ \/ /\ r.phase = "compare" /\ GoesOn(r)
        /\ Step(p, [r EXCEPT !.phase = "force", !.overwrote = Discarded(Compared(r), stored)])
     \/ /\ r.phase = "again" \/ ~GoesOn(r)
        /\ Step(p, [phase |-> "conflict", warning |-> Conflict(r)])
  /\ UNCHANGED <<stored, version>> /\ Elsewhere

\* Fault: forcing replaces whatever is stored.
ForcedUnder(r) == version

\* The version a forced write is made under: the one the caller was shown.
Under(r) == r.acknowledged

Overwrite(p) ==
  LET r == request[p] IN
  /\ r.phase = "force"
  /\ \/ /\ version = Under(r)
        /\ Store(Proposed(p))
        /\ Step(p, Saved)
     \/ /\ version # Under(r)
        /\ Step(p, [r EXCEPT !.phase = "again"])
        /\ UNCHANGED <<stored, version>>
  /\ Elsewhere

(***************************************************************************)
(* The publish route: approve a draft, reserve the revision, publish its   *)
(* pending targets, complete or fail it.  Every write is made under the    *)
(* tag of the one before; a conflict ends the request with an error.       *)
(***************************************************************************)
ReceivePublish(p) ==
  LET r == request[p] IN
  /\ r.phase = "sent"
  /\ r.command \in {"approve", "publish"}
  /\ Step(p, IF version # r.prior.tag THEN Refused
             ELSE [r EXCEPT !.base = Current,
                            !.phase = IF stored.revision.state = "draft" THEN "approve" ELSE "reserve"])
  /\ UNCHANGED <<stored, version>> /\ Elsewhere

\* The reducer accepts it: the revision is the one the page was offered the approval of.
Approve(p) ==
  LET r == request[p] IN
  /\ r.phase = "approve"
  /\ \/ /\ version = r.base.tag
        /\ Store(Driven(r.base.document, "approve", ActorOf[p]))
        /\ Step(p, [r EXCEPT !.phase = "reserve"])
     \/ /\ version # r.base.tag
        /\ Step(p, [r EXCEPT !.phase = "compare"])
        /\ UNCHANGED <<stored, version>>
  /\ Elsewhere

\* The revision is read once more; another one may be in publication.
Reserve(p) ==
  LET r == request[p] IN
  /\ r.phase = "reserve"
  /\ \E publishing \in {NoRevision, Other} :
       Step(p, IF Accepts(stored.revision, "publish", ActorOf[p],
                          Contextual(ActorOf[p], NoRevision, publishing))
                 THEN [r EXCEPT !.base = Current, !.phase = "start"]
                 ELSE Refused)
  /\ UNCHANGED <<stored, version>> /\ Elsewhere

\* A write of the publication: under the tag of its last, or the request ends.
Advance(p, document, next) ==
  LET r == request[p] IN
  \/ /\ version = r.base.tag
     /\ Store(document)
     /\ Step(p, next)
  \/ /\ version # r.base.tag
     /\ Step(p, Refused)
     /\ UNCHANGED <<stored, version>>

\* What the request goes on with after a write: its document under the new tag.
Held(r, document, phase) ==
  [r EXCEPT !.base = [document |-> document, tag |-> version + 1], !.phase = phase]

Start(p) ==
  /\ request[p].phase = "start"
  /\ LET published == Driven(request[p].base.document, "publish", ActorOf[p])
     IN  Advance(p, published, Held(request[p], published, "deliver"))
  /\ Elsewhere

Pending(revision) == { t \in Target : revision.outcome[t] = "pending" }

\* The publisher records what it did with the next pending target.
Report(p) ==
  LET r == request[p] IN
  /\ r.phase = "deliver"
  /\ \E t \in Pending(r.base.document.revision), outcome \in {"verified", "failed"} :
       /\ \A u \in Pending(r.base.document.revision) : t <= u
       /\ Recordable(r.base.document.revision, t, outcome, TRUE)
       /\ Step(p, [r EXCEPT !.base.document = Reported(@, t, outcome)])
  /\ UNCHANGED <<stored, version>> /\ Elsewhere

Deliver(p) ==
  /\ request[p].phase = "deliver"
  /\ Pending(request[p].base.document.revision) = {}
  /\ Advance(p, request[p].base.document, Held(request[p], request[p].base.document, "finish"))
  /\ Elsewhere

Finish(p) ==
  LET r == request[p]
      command == IF FullyVerified(r.base.document.revision) THEN "complete" ELSE "fail"
  IN
  /\ r.phase = "finish"
  /\ Advance(p, Moved(r.base.document, command, ActorOf[p],
                      Contextual(ActorOf[p], NoRevision, Number)), Saved)
  /\ Elsewhere

-----------------------------------------------------------------------------
(***************************************************************************)
(* The answer: a conflict is shown, a save loads the screen again, and a   *)
(* refusal, or an answer that never arrives, leaves the page as it is.     *)
(***************************************************************************)
Warn(p) ==
  /\ request[p].phase = "conflict"
  /\ warning' = [warning EXCEPT ![p] = {request[p].warning}]
  /\ Step(p, Idle)
  /\ UNCHANGED <<stored, version, held, arriving, sent>>

Reload(p) ==
  /\ request[p].phase = "saved"
  /\ warning' = [warning EXCEPT ![p] = {}]
  /\ held' = [held EXCEPT ![p] = {}]
  /\ arriving' = [arriving EXCEPT ![p] =
       IF Offered(stored.revision, ActorOf[p]) = {} THEN @ ELSE @ \cup {Current}]
  /\ Step(p, Idle)
  /\ UNCHANGED <<stored, version, sent>>

Unanswered(p) ==
  /\ request[p].phase \in {"refused", "saved", "conflict"}
  /\ Step(p, Idle)
  /\ UNCHANGED <<stored, version, held, arriving, warning, sent>>

Screen(p) == Load(p) \/ Arrive(p) \/ Save(p) \/ Confirm(p) \/ Warn(p) \/ Reload(p) \/ Unanswered(p)
Saving(p) == Receive(p) \/ Put(p) \/ Compare(p) \/ Overwrite(p)
Publishing(p) == \/ ReceivePublish(p) \/ Approve(p) \/ Reserve(p) \/ Start(p)
                 \/ Report(p) \/ Deliver(p) \/ Finish(p)

Next == \E p \in Page : Screen(p) \/ Saving(p) \/ Publishing(p)

Spec == Init /\ [][Next]_vars

-----------------------------------------------------------------------------
Asked == [phase : Phase \ {"idle", "conflict", "saved", "refused"}, command : Command, previous : Nat,
          prior : Reading, acknowledged : Nat, seen : Seq(Entry), base : Reading,
          overwrote : Seq(Entry)]
Request == {Idle, Saved, Refused} \cup [phase : {"conflict"}, warning : Warning] \cup Asked

TypeOK ==
  /\ stored \in Document
  /\ version \in Nat \ {0}
  /\ sent \in 0..MaxRequest
  /\ held \in [Page -> SUBSET Reading]
  /\ arriving \in [Page -> SUBSET Reading]
  /\ warning \in [Page -> SUBSET Warning]
  /\ request \in [Page -> Request]

(***************************************************************************)
(* Nobody's work is lost: whatever is stored next continues the audit      *)
(* history of what was stored, and its first new entry was made from the   *)
(* state that was stored ("their history is not erased", app.mjs:3941).    *)
(* It takes two pages and a forced overwrite to break: a command applied   *)
(* to a page's own copy, or written under a tag nobody compared.           *)
(***************************************************************************)
LandsOnCurrent ==
  [][stored' # stored =>
       LET n == Len(stored.history) IN
       /\ Len(stored'.history) > n
       /\ \A i \in 1..n : stored'.history[i] = stored.history[i]
       /\ stored'.history[n + 1].command # "target-outcome" =>
            stored'.history[n + 1].from = stored.revision.state]_vars

(***************************************************************************)
(* Consent to an overwrite is consent to something seen: a save replaces   *)
(* only the version its page had read, or, confirmed after a warning, the  *)
(* version the warning described ("a change arriving while the warning was *)
(* on screen produces a second warning", configuration-writer.mjs:67); and *)
(* the record it leaves names everything that happened since the reading.  *)
(***************************************************************************)
OverwriteIsInformed ==
  [][\A p \in Page :
       LET r == request[p] IN
       r.phase \in {"put", "force"} /\ request'[p].phase = "saved" =>
         \/ r.phase = "put" /\ stored.history = r.prior.document.history
         \/ /\ r.phase = "force" /\ stored.history = r.seen
            /\ \A i \in 1..Len(r.overwrote) :
                 r.overwrote[i] = stored.history[Len(r.prior.document.history) + i]
            /\ Len(r.prior.document.history) + Len(r.overwrote) = Len(stored.history)]_vars

=============================================================================
