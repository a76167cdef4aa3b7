---------------------- MODULE ConfigurationWriterProofs ----------------------
(***************************************************************************)
(* The theorems of ConfigurationWriter: no write loses what was stored,    *)
(* and what is overwritten was shown to whoever overwrites it.             *)
(*                                                                         *)
(* Neither says anything of what a page and a request hold between two     *)
(* calls of the store.  The invariant does: whatever was read under a tag  *)
(* that is still the store's is what is stored, and a tag that is not the  *)
(* store's never becomes it again.                                         *)
(***************************************************************************)
EXTENDS ConfigurationWriter, LifecycleTheorems, SequenceTheorems

Working == Phase \ {"idle", "conflict", "saved", "refused"}

\* A reading, and a warning, that is current tells what is stored: document d under tag v.
Sound(x, d, v) == x.tag <= v /\ (x.tag = v => x.document = d)
Apt(w, d, v)   == w.tag <= v /\ (w.tag = v => w.seen = d.history)

\* What a publication is about to deliver continues what it started from.
Continues(x, d) ==
  /\ Len(x.history) >= Len(d.history)
  /\ \A i \in 1..Len(d.history) : x.history[i] = d.history[i]
  /\ Len(x.history) = Len(d.history) => x = d
  /\ Len(x.history) > Len(d.history) =>
       x.history[Len(d.history) + 1].command = "target-outcome"

\* The record of an overwrite names every entry between a reading and d.
Names(entries, reading, d) ==
  /\ Len(reading.history) + Len(entries) = Len(d.history)
  /\ \A i \in 1..Len(entries) : entries[i] = d.history[Len(reading.history) + i]

AskedInv(r, d, v) ==
  /\ Sound(r.prior, d, v)
  /\ r.acknowledged <= v /\ (r.acknowledged = v => r.seen = d.history)
  /\ r.base.tag <= v
  /\ r.phase # "deliver" => Sound(r.base, d, v)
  /\ r.phase = "deliver" => (r.base.tag = v => Continues(r.base.document, d))
  /\ r.phase \in {"put", "compare", "force", "again", "approve"} => r.acknowledged <= r.base.tag
  /\ r.phase = "put" => r.prior.tag <= r.base.tag /\ r.command # "approve"
  /\ r.phase = "compare" /\ r.command = "approve" => r.base.tag < v
  /\ r.phase = "force" /\ r.acknowledged = v => Names(r.overwrote, r.prior.document, d)

RequestInv(r, d, v) ==
  /\ r.phase = "conflict" => Apt(r.warning, d, v)
  /\ r.phase \in Working => AskedInv(r, d, v)

WriterInv ==
  /\ TypeOK
  /\ \A p \in Page :
       /\ \A x \in held[p] \cup arriving[p] : Sound(x, stored, version)
       /\ \A w \in warning[p] : Apt(w, stored, version)
       /\ RequestInv(request[p], stored, version)

-----------------------------------------------------------------------------
(***************************************************************************)
(* Documents.                                                              *)
(***************************************************************************)
\* A step of the reducer appends one entry, made from the state it was applied to.
LEMMA MovedDocument ==
  ASSUME NEW d \in Document, NEW c \in Command, NEW a \in Actor,
         NEW previous \in Nat, NEW publishing,
         NEW new, new = Moved(d, c, a, Contextual(a, previous, publishing))
  PROVE  /\ new \in Document
         /\ Len(new.history) = Len(d.history) + 1
         /\ \A i \in 1..Len(d.history) : new.history[i] = d.history[i]
         /\ new.history[Len(d.history) + 1].from = d.revision.state
  <1> DEFINE ctx == Contextual(a, previous, publishing)
             next == Applied(d.revision, c, a, ctx)
             entry == [by |-> a, command |-> c, from |-> d.revision.state, to |-> next.state]
  <1>1. d.revision \in Revision /\ d.history \in Seq(Entry)
    BY DEF Document
  <1>2. ctx.previous \in Nat
    BY DEF Contextual
  <1>3. next \in Revision
    BY <1>1, <1>2, AppliedType
  <1>4. entry \in Entry
    BY <1>1, <1>3 DEF Entry, Revision
  <1>5. new = [revision |-> next, history |-> Append(d.history, entry)]
    BY DEF Moved
  <1> HIDE DEF next, entry
  <1>6. /\ Append(d.history, entry) \in Seq(Entry)
        /\ Len(Append(d.history, entry)) = Len(d.history) + 1
        /\ \A i \in 1..Len(d.history) : Append(d.history, entry)[i] = d.history[i]
        /\ Append(d.history, entry)[Len(d.history) + 1] = entry
    BY <1>1, <1>4
  <1>7. entry.from = d.revision.state
    BY DEF entry
  <1>8. QED
    BY <1>3, <1>5, <1>6, <1>7 DEF Document

\* A report appends one entry of its own kind.
LEMMA ReportedDocument ==
  ASSUME NEW d \in Document, NEW t \in Target, NEW outcome \in Outcome,
         NEW new, new = Reported(d, t, outcome)
  PROVE  /\ new \in Document
         /\ Len(new.history) = Len(d.history) + 1
         /\ \A i \in 1..Len(d.history) : new.history[i] = d.history[i]
         /\ new.history[Len(d.history) + 1].command = "target-outcome"
  <1> DEFINE next == Recorded(d.revision, t, outcome)
             entry == [by |-> t, command |-> "target-outcome",
                       from |-> d.revision.outcome[t], to |-> outcome]
  <1>1. d.revision \in Revision /\ d.history \in Seq(Entry)
    BY DEF Document
  <1>2. next \in Revision
    BY <1>1, RecordedFields
  <1>3. entry \in Entry
    BY <1>1 DEF Entry, Revision
  <1>4. new = [revision |-> next, history |-> Append(d.history, entry)]
    BY DEF Reported
  <1> HIDE DEF next, entry
  <1>5. /\ Append(d.history, entry) \in Seq(Entry)
        /\ Len(Append(d.history, entry)) = Len(d.history) + 1
        /\ \A i \in 1..Len(d.history) : Append(d.history, entry)[i] = d.history[i]
        /\ Append(d.history, entry)[Len(d.history) + 1] = entry
    BY <1>1, <1>3
  <1>6. entry.command = "target-outcome"
    BY DEF entry
  <1>7. QED
    BY <1>2, <1>4, <1>5, <1>6 DEF Document

\* What is listed as discarded is all that was added, unless the histories part.
LEMMA DiscardedNames ==
  ASSUME NEW prior \in Document, NEW current \in Document
  PROVE  /\ Discarded(prior, current) \in Seq(Entry)
         /\ Comparison(prior, current) # "history-diverged" =>
              Names(Discarded(prior, current), prior, current)
  <1>1. /\ prior.history \in Seq(Entry) /\ current.history \in Seq(Entry)
        /\ Len(prior.history) \in Nat /\ Len(current.history) \in Nat
    BY DEF Document
  <1>2. CASE Diverged(prior, current)
    <2>1. Discarded(prior, current) = <<>> /\ <<>> \in Seq(Entry)
      BY <1>2 DEF Discarded
    <2>2. prior.history # current.history
      BY <1>1, <1>2 DEF Diverged
    <2>3. Comparison(prior, current) = "history-diverged"
      BY <1>2, <2>2 DEF Comparison
    <2>4. QED
      BY <2>1, <2>3
  <1>3. CASE ~Diverged(prior, current)
    <2> DEFINE m == Len(prior.history)
               n == Len(current.history)
               rest == SubSeq(current.history, m + 1, n)
    <2>1. m <= n
      BY <1>3 DEF Diverged
    <2>2. /\ rest \in Seq(Entry)
          /\ Len(rest) = n - m
          /\ \A i \in 1..(n - m) : rest[i] = current.history[m + i]
      <3>1. m \in Nat /\ n \in Nat /\ m + 1 \in Int /\ n \in Int
        BY <1>1
      <3>2. \A i \in (m + 1)..n : current.history[i] \in Entry
        BY <1>1
      <3> HIDE DEF m, n
      <3>3. /\ rest \in Seq(Entry)
            /\ Len(rest) = IF m + 1 <= n THEN n - (m + 1) + 1 ELSE 0
            /\ \A i \in 1..(n - (m + 1) + 1) : rest[i] = current.history[(m + 1) + i - 1]
        <4> DEFINE k == m + 1
                   h == current.history
        <4>1. k \in Int /\ n \in Int /\ \A i \in k..n : h[i] \in Entry
          BY <3>1, <3>2
        <4> HIDE DEF k, h, Entry
        <4>2. /\ SubSeq(h, k, n) \in Seq(Entry)
              /\ Len(SubSeq(h, k, n)) = IF k <= n THEN n - k + 1 ELSE 0
              /\ \A i \in 1..(n - k + 1) : SubSeq(h, k, n)[i] = h[k + i - 1]
          BY <4>1, SubSeqProperties
        <4>3. QED
          BY <4>2 DEF k, h
      <3> HIDE DEF rest
      <3>4. Len(rest) = n - m
        BY <2>1, <3>1, <3>3
      <3>5. ASSUME NEW i \in 1..(n - m)
            PROVE  rest[i] = current.history[m + i]
        <4>1. i \in 1..(n - (m + 1) + 1) /\ (m + 1) + i - 1 = m + i
          BY <3>1
        <4>2. QED
          BY <3>3, <4>1
      <3>6. QED
        BY <3>3, <3>4, <3>5
    <2>3. Discarded(prior, current) = rest
      BY <1>3 DEF Discarded
    <2> HIDE DEF rest
    <2>4. m + Len(rest) = n
      BY <1>1, <2>2
    <2>5. \A i \in 1..Len(rest) : rest[i] = current.history[m + i]
      BY <2>2
    <2>6. Names(rest, prior, current)
      BY <2>4, <2>5 DEF Names
    <2>7. QED
      BY <2>2, <2>3, <2>6
  <1>4. QED
    BY <1>2, <1>3

LEMMA ComparisonType ==
  ASSUME NEW prior, NEW current
  PROVE  Comparison(prior, current) \in
           {"history-diverged", "no-change-since-read", "changed-since-read"}
  BY DEF Comparison

\* Every document a server starts with is one.
LEMMA SeedsType == Seeds \subseteq Document
  <1>1. Drafted \in Document
    <2>1. CreateRevision(Number, Author) \in Revision
      BY CreateRevisionType, SeedAssumption DEF Number
    <2>2. [by |-> Author, command |-> "create", from |-> "none", to |-> "draft"] \in Entry
      BY SeedAssumption DEF Entry, State
    <2>3. QED
      BY <2>1, <2>2 DEF Drafted, Document
  <1>2. ASSUME NEW d \in Document, NEW c \in Command PROVE Driven(d, c, Approver) \in Document
    BY MovedDocument, SeedAssumption DEF Driven, NoRevision
  <1> DEFINE published == Driven(Driven(Drafted, "approve", Approver), "publish", Approver)
             Done(outcome) == { Reported(published, t, outcome) : t \in Target }
  <1>3. Driven(Drafted, "approve", Approver) \in Document /\ published \in Document
    BY <1>1, <1>2 DEF Command
  <1>4. ASSUME NEW outcome \in Outcome PROVE Done(outcome) \subseteq Document
    <2> SUFFICES ASSUME NEW t \in Target PROVE Reported(published, t, outcome) \in Document
      OBVIOUS
    <2> HIDE DEF published
    <2>1. QED
      BY <1>3, ReportedDocument
  <1>5. "written" \in Outcome /\ "failed" \in Outcome /\ "verified" \in Outcome
    BY DEF Outcome
  <1> HIDE DEF Done
  <1>6. /\ { Driven(d, "fail", Approver) : d \in Done("failed") } \subseteq Document
        /\ { Driven(d, "complete", Approver) :
               d \in { e \in Done("verified") : FullyVerified(e.revision) } } \subseteq Document
    BY <1>2, <1>4, <1>5 DEF Command
  <1>7. Done("written") \subseteq Document
    BY <1>4, <1>5
  <1>8. Seeds = {Drafted, Driven(Drafted, "approve", Approver)} \cup Done("written")
                 \cup { Driven(d, "fail", Approver) : d \in Done("failed") }
                 \cup { Driven(d, "complete", Approver) :
                          d \in { e \in Done("verified") : FullyVerified(e.revision) } }
    BY DEF Seeds, Done
  <1>9. QED
    BY <1>1, <1>3, <1>6, <1>7, <1>8

-----------------------------------------------------------------------------
(***************************************************************************)
(* What is held stays true: under an unchanged store because nothing       *)
(* changed, after a write because no tag that is held is current.          *)
(***************************************************************************)
\* The store either keeps its document or replaces it under the next tag.
Stays(d, v)   == stored' = d /\ version' = v
Renewed(d, v) == stored' \in Document /\ version' = v + 1

LEMMA SoundStays ==
  ASSUME NEW x, NEW d, NEW v \in Nat, x.tag \in Nat, Sound(x, d, v), NEW e
  PROVE  Sound(x, e, v + 1)
  BY DEF Sound

LEMMA AskedType ==
  ASSUME NEW r \in Request
  PROVE  /\ r.phase \in Phase
         /\ r.phase \in Working => r \in Asked
         /\ r.phase = "conflict" => r.warning \in Warning
  BY DEF Request, Idle, Saved, Refused, Asked, Working, Phase

LEMMA RequestStays ==
  ASSUME NEW r \in Request, NEW d, NEW v \in Nat, RequestInv(r, d, v), NEW e
  PROVE  RequestInv(r, e, v + 1)
  <1>1. CASE r.phase = "conflict"
    BY <1>1, AskedType DEF RequestInv, Apt, Warning, Working
  <1>2. CASE r.phase \in Working
    <2>1. r \in Asked
      BY <1>2, AskedType
    <2>2. /\ r.prior.tag \in Nat /\ r.base.tag \in Nat /\ r.acknowledged \in Nat
      BY <2>1 DEF Asked, Reading
    <2>3. AskedInv(r, d, v)
      BY <1>2 DEF RequestInv
    <2>4. AskedInv(r, e, v + 1)
      BY <2>2, <2>3 DEF AskedInv, Sound
    <2>5. QED
      BY <1>2, <2>4 DEF RequestInv, Working
  <1>3. QED
    BY <1>1, <1>2 DEF RequestInv

\* A step of the server concerns one request and the store.
LEMMA ServerStep ==
  ASSUME WriterInv, NEW p \in Page, NEW r \in Request, Step(p, r), Elsewhere,
         Stays(stored, version) \/ Renewed(stored, version),
         RequestInv(r, stored', version')
  PROVE  WriterInv'
  <1>1. /\ request' = [request EXCEPT ![p] = r]
        /\ held' = held /\ arriving' = arriving /\ warning' = warning /\ sent' = sent
    BY DEF Step, Elsewhere
  <1>2. request' \in [Page -> Request]
    BY <1>1 DEF WriterInv, TypeOK
  <1>3. stored' \in Document /\ version' \in Nat \ {0}
    BY DEF WriterInv, TypeOK, Stays, Renewed
  <1>4. TypeOK'
    BY <1>1, <1>2, <1>3 DEF WriterInv, TypeOK
  <1>5. ASSUME NEW q \in Page, NEW x \in held[q] \cup arriving[q]
        PROVE  Sound(x, stored', version')
    <2>1. Sound(x, stored, version) /\ x.tag \in Nat /\ version \in Nat
      BY <1>5 DEF WriterInv, TypeOK, Reading
    <2>2. QED
      BY <2>1, SoundStays DEF Stays, Renewed
  <1>6. ASSUME NEW q \in Page, NEW w \in warning[q]
        PROVE  Apt(w, stored', version')
    <2>1. Apt(w, stored, version) /\ w.tag \in Nat /\ version \in Nat
      BY <1>6 DEF WriterInv, TypeOK, Warning
    <2>2. QED
      BY <2>1 DEF Stays, Renewed, Apt
  <1>7. ASSUME NEW q \in Page
        PROVE  RequestInv(request'[q], stored', version')
    <2>1. CASE q = p
      BY <2>1, <1>1 DEF WriterInv, TypeOK
    <2>2. CASE q # p
      <3>1. request'[q] = request[q]
        BY <2>2, <1>1 DEF WriterInv, TypeOK
      <3>2. RequestInv(request[q], stored, version) /\ request[q] \in Request /\ version \in Nat
        BY <1>7 DEF WriterInv, TypeOK
      <3>3. QED
        BY <3>1, <3>2, RequestStays DEF Stays, Renewed
    <2>3. QED
      BY <2>1, <2>2
  <1>8. QED
    BY <1>1, <1>2, <1>4, <1>5, <1>6, <1>7 DEF WriterInv

LEMMA Served ==
  ASSUME WriterInv, NEW p \in Page, NEW r, r = request[p], r.phase \in Working
  PROVE  /\ r \in Asked
         /\ r.command \in Command /\ r.previous \in Nat /\ r.acknowledged \in Nat
         /\ r.prior.tag \in Nat /\ r.base.tag \in Nat
         /\ r.prior.document \in Document /\ r.base.document \in Document
         /\ AskedInv(r, stored, version)
         /\ stored \in Document /\ version \in Nat \ {0}
         /\ Current \in Reading /\ Sound(Current, stored, version)
         /\ ActorOf[p] \in Actor
  <1>1. r \in Request /\ RequestInv(r, stored, version)
    BY DEF WriterInv, TypeOK
  <1>2. r \in Asked
    BY <1>1, AskedType
  <1>3. stored \in Document /\ version \in Nat \ {0}
    BY DEF WriterInv, TypeOK
  <1>4. Current \in Reading /\ Sound(Current, stored, version)
    BY <1>3 DEF Current, Reading, Sound
  <1>5. QED
    BY <1>1, <1>2, <1>3, <1>4, PageAssumption DEF RequestInv, Asked, Reading

\* What the steps of a request change of it.
LEMMA Rephased ==
  ASSUME NEW r \in Asked, NEW phase \in Working, NEW new, new = [r EXCEPT !.phase = phase]
  PROVE  /\ new \in Asked /\ new.phase = phase
         /\ new.command = r.command /\ new.prior = r.prior /\ new.base = r.base
         /\ new.acknowledged = r.acknowledged /\ new.seen = r.seen
         /\ new.overwrote = r.overwrote
  BY DEF Asked, Working

LEMMA Rewritten ==
  ASSUME NEW r \in Asked, NEW base \in Reading, NEW new, new = [r EXCEPT !.base = base]
  PROVE  /\ new \in Asked /\ new.phase = r.phase /\ new.base = base
         /\ new.command = r.command /\ new.prior = r.prior
         /\ new.acknowledged = r.acknowledged /\ new.seen = r.seen
         /\ new.overwrote = r.overwrote
  BY DEF Asked

LEMMA Phases ==
  Working = {"sent", "put", "compare", "force", "again", "approve", "reserve", "start",
             "deliver", "finish"}
  BY DEF Working, Phase

\* A request at work that is lawful is a lawful request.
LEMMA Lawful ==
  ASSUME NEW r \in Asked, NEW d, NEW v, AskedInv(r, d, v)
  PROVE  r \in Request /\ RequestInv(r, d, v)
  <1>1. r.phase \in Working
    BY DEF Asked, Working
  <1>2. QED
    BY <1>1, Phases DEF Request, RequestInv

\* Requests that are no longer at work are lawful.
LEMMA Answers ==
  ASSUME NEW d, NEW v
  PROVE  /\ Saved \in Request /\ RequestInv(Saved, d, v)
         /\ Refused \in Request /\ RequestInv(Refused, d, v)
         /\ Idle \in Request /\ RequestInv(Idle, d, v)
  BY DEF Saved, Refused, Idle, Request, RequestInv, Working

LEMMA ReceiveKeeps ==
  ASSUME WriterInv, NEW p \in Page, Receive(p)
  PROVE  WriterInv'
  <1> DEFINE r == request[p]
             new == [r EXCEPT !.base = Current, !.phase = "put"]
  <1>1. r.phase = "sent" /\ r.command # "approve" /\ Stays(stored, version) /\ Elsewhere
    BY DEF Receive, Stays
  <1>2. r.phase \in Working
    BY <1>1 DEF Working, Phase
  <1>3. new \in Request /\ RequestInv(new, stored, version)
    <2>1. /\ new \in Asked /\ new.phase = "put" /\ new.base = Current
          /\ new.command = r.command /\ new.prior = r.prior
          /\ new.acknowledged = r.acknowledged /\ new.seen = r.seen
      <3>1. r \in Asked /\ Current \in Reading /\ "put" \in Working
        BY <1>2, Served, Phases
      <3> HIDE DEF r
      <3>2. QED
        BY <3>1 DEF Asked, Working
    <2> HIDE DEF new
    <2>2. AskedInv(new, stored, version)
      BY <1>1, <1>2, <2>1, Served DEF AskedInv, Sound, Current
    <2>3. QED
      BY <2>1, <2>2, Lawful
  <1>4. Step(p, new) \/ Step(p, Refused)
    BY DEF Receive
  <1>5. QED
    BY <1>1, <1>3, <1>4, ServerStep, Answers DEF Stays

LEMMA ProposedDocument ==
  ASSUME WriterInv, NEW p \in Page, request[p].phase \in Working
  PROVE  Proposed(p) \in Document
  BY Served, MovedDocument DEF Proposed

LEMMA PutKeeps ==
  ASSUME WriterInv, NEW p \in Page, Put(p)
  PROVE  WriterInv'
  <1> DEFINE r == request[p]
             new == [r EXCEPT !.phase = "compare"]
  <1>1. r.phase = "put" /\ r.phase \in Working /\ Elsewhere
    BY DEF Put, Working, Phase
  <1>2. CASE Store(Proposed(p)) /\ Step(p, Saved)
    BY <1>1, <1>2, ServerStep, Answers, ProposedDocument DEF Store, Renewed
  <1>3. CASE Step(p, new) /\ UNCHANGED <<stored, version>>
    <2>1. /\ new \in Asked /\ new.phase = "compare"
          /\ new.command = r.command /\ new.prior = r.prior /\ new.base = r.base
          /\ new.acknowledged = r.acknowledged /\ new.seen = r.seen
      BY <1>1, Served, Phases, Rephased
    <2> HIDE DEF new
    <2>2. AskedInv(new, stored, version)
      BY <1>1, <2>1, Served DEF AskedInv
    <2>3. new \in Request /\ RequestInv(new, stored, version)
      BY <2>1, <2>2, Lawful
    <2>4. QED
      BY <1>1, <1>3, <2>3, ServerStep DEF Stays
  <1>4. QED
    BY <1>2, <1>3 DEF Put

LEMMA CompareKeeps ==
  ASSUME WriterInv, NEW p \in Page, Compare(p)
  PROVE  WriterInv'
  <1> DEFINE r == request[p]
             force == [r EXCEPT !.phase = "force", !.overwrote = Discarded(Compared(r), stored)]
             warn == [phase |-> "conflict", warning |-> Conflict(r)]
  <1>1. r.phase \in {"compare", "again"} /\ r.phase \in Working /\ Elsewhere
    BY DEF Compare, Working, Phase
  <1>2. Compared(r) \in Document /\ stored \in Document
    BY <1>1, Served DEF Compared
  <1>3. Discarded(Compared(r), stored) \in Seq(Entry)
    BY <1>2, DiscardedNames
  <1>4. CASE r.phase = "compare" /\ GoesOn(r) /\ Step(p, force) /\ UNCHANGED <<stored, version>>
    <2>1. /\ force \in Asked /\ force.phase = "force"
          /\ force.overwrote = Discarded(Compared(r), stored)
          /\ force.command = r.command /\ force.prior = r.prior /\ force.base = r.base
          /\ force.acknowledged = r.acknowledged /\ force.seen = r.seen
      <3>1. r \in Asked /\ "force" \in Working
        BY <1>1, Served, Phases
      <3>2. QED
        BY <1>3, <3>1 DEF Asked, Working
    <2> HIDE DEF force
    <2>2. r.acknowledged = version => Names(force.overwrote, force.prior.document, stored)
      <3>1. SUFFICES ASSUME r.acknowledged = version
                     PROVE  Names(force.overwrote, force.prior.document, stored)
        OBVIOUS
      <3>2. r.command # "approve"
        BY <1>1, <1>4, <3>1, Served DEF AskedInv
      <3>3. Names(Discarded(r.prior.document, stored), r.prior.document, stored)
        BY <1>1, <1>2, <1>4, <3>2, DiscardedNames DEF GoesOn, Compared
      <3>4. force.overwrote = Discarded(r.prior.document, stored)
            /\ force.prior.document = r.prior.document
        BY <2>1, <3>2 DEF Compared
      <3>5. QED
        BY <3>3, <3>4
    <2>3. AskedInv(force, stored, version)
      BY <1>1, <1>4, <2>1, <2>2, Served DEF AskedInv
    <2>5. force \in Request /\ RequestInv(force, stored, version)
      BY <2>1, <2>3, Lawful
    <2>6. QED
      BY <1>1, <1>4, <2>5, ServerStep DEF Stays
  <1>5. CASE Step(p, warn) /\ UNCHANGED <<stored, version>>
    <2>1. Conflict(r) \in Warning
      BY <1>1, <1>2, <1>3, Served, ComparisonType DEF Conflict, Warning, Document
    <2>2. Apt(Conflict(r), stored, version)
      BY <1>1, Served DEF Conflict, Apt
    <2>3. warn \in Request /\ RequestInv(warn, stored, version)
      BY <2>1, <2>2 DEF Request, RequestInv, Working
    <2>4. QED
      BY <1>1, <1>5, <2>3, ServerStep DEF Stays
  <1>6. QED
    BY <1>4, <1>5 DEF Compare

LEMMA OverwriteKeeps ==
  ASSUME WriterInv, NEW p \in Page, Overwrite(p)
  PROVE  WriterInv'
  <1> DEFINE r == request[p]
             new == [r EXCEPT !.phase = "again"]
  <1>1. r.phase = "force" /\ r.phase \in Working /\ Elsewhere
    BY DEF Overwrite, Working, Phase
  <1>2. CASE Store(Proposed(p)) /\ Step(p, Saved)
    BY <1>1, <1>2, ServerStep, Answers, ProposedDocument DEF Store, Renewed
  <1>3. CASE Step(p, new) /\ UNCHANGED <<stored, version>>
    <2>1. /\ new \in Asked /\ new.phase = "again"
          /\ new.command = r.command /\ new.prior = r.prior /\ new.base = r.base
          /\ new.acknowledged = r.acknowledged /\ new.seen = r.seen
      BY <1>1, Served, Phases, Rephased
    <2> HIDE DEF new
    <2>2. AskedInv(new, stored, version)
      BY <1>1, <2>1, Served DEF AskedInv
    <2>3. new \in Request /\ RequestInv(new, stored, version)
      BY <2>1, <2>2, Lawful
    <2>4. QED
      BY <1>1, <1>3, <2>3, ServerStep DEF Stays
  <1>4. QED
    BY <1>2, <1>3 DEF Overwrite

LEMMA ReceivePublishKeeps ==
  ASSUME WriterInv, NEW p \in Page, ReceivePublish(p)
  PROVE  WriterInv'
  <1> DEFINE r == request[p]
             next == IF stored.revision.state = "draft" THEN "approve" ELSE "reserve"
             new == [r EXCEPT !.base = Current, !.phase = next]
  <1>1. r.phase = "sent" /\ r.phase \in Working /\ Stays(stored, version) /\ Elsewhere
    BY DEF ReceivePublish, Stays, Working, Phase
  <1>2. next \in {"approve", "reserve"}
    OBVIOUS
  <1>3. Step(p, new) \/ Step(p, Refused)
    BY DEF ReceivePublish
  <1>4. new \in Request /\ RequestInv(new, stored, version)
    <2> HIDE DEF next
    <2>1. /\ new \in Asked /\ new.phase = next /\ new.base = Current
          /\ new.command = r.command /\ new.prior = r.prior
          /\ new.acknowledged = r.acknowledged /\ new.seen = r.seen
      <3>1. r \in Asked /\ Current \in Reading /\ next \in Working
        BY <1>1, <1>2, Served, Phases
      <3> HIDE DEF r
      <3>2. QED
        BY <3>1 DEF Asked, Working
    <2> HIDE DEF new
    <2>2. AskedInv(new, stored, version)
      BY <1>1, <1>2, <2>1, Served DEF AskedInv, Sound, Current
    <2>3. QED
      BY <2>1, <2>2, Lawful
  <1>5. QED
    BY <1>1, <1>3, <1>4, ServerStep, Answers DEF Stays

LEMMA DrivenDocument ==
  ASSUME NEW d \in Document, NEW c \in Command, NEW a \in Actor
  PROVE  Driven(d, c, a) \in Document
  BY MovedDocument DEF Driven, NoRevision

LEMMA ApproveKeeps ==
  ASSUME WriterInv, NEW p \in Page, Approve(p)
  PROVE  WriterInv'
  <1> DEFINE r == request[p]
             go == [r EXCEPT !.phase = "reserve"]
             stop == [r EXCEPT !.phase = "compare"]
  <1>1. r.phase = "approve" /\ r.phase \in Working /\ Elsewhere
    BY DEF Approve, Working, Phase
  <1>2. /\ go \in Asked /\ go.phase = "reserve"
        /\ go.command = r.command /\ go.prior = r.prior /\ go.base = r.base
        /\ go.acknowledged = r.acknowledged /\ go.seen = r.seen
    BY <1>1, Served, Phases, Rephased
  <1>6. /\ stop \in Asked /\ stop.phase = "compare"
        /\ stop.command = r.command /\ stop.prior = r.prior /\ stop.base = r.base
        /\ stop.acknowledged = r.acknowledged /\ stop.seen = r.seen
    BY <1>1, Served, Phases, Rephased
  <1>3. CASE /\ Store(Driven(r.base.document, "approve", ActorOf[p]))
             /\ Step(p, go)
    <2>1. Driven(r.base.document, "approve", ActorOf[p]) \in Document
      BY <1>1, Served, DrivenDocument DEF Command
    <2> HIDE DEF go
    <2>2. AskedInv(go, stored, version)
      BY <1>1, <1>2, Served DEF AskedInv
    <2>3. go \in Request /\ RequestInv(go, stored, version)
      BY <1>2, <2>2, Lawful
    <2>4. stored' \in Document /\ version' = version + 1
      BY <1>3, <2>1 DEF Store
    <2>5. RequestInv(go, stored', version')
      BY <1>1, <2>3, <2>4, RequestStays, Served
    <2>6. QED
      BY <1>1, <1>3, <2>3, <2>4, <2>5, ServerStep DEF Renewed
  <1>4. CASE version # r.base.tag /\ Step(p, stop) /\ UNCHANGED <<stored, version>>
    <2> HIDE DEF stop
    <2>1. AskedInv(stop, stored, version)
      BY <1>1, <1>4, <1>6, Served DEF AskedInv
    <2>2. stop \in Request /\ RequestInv(stop, stored, version)
      BY <1>6, <2>1, Lawful
    <2>3. QED
      BY <1>1, <1>4, <2>2, ServerStep DEF Stays
  <1>5. QED
    BY <1>3, <1>4 DEF Approve

LEMMA ReserveKeeps ==
  ASSUME WriterInv, NEW p \in Page, Reserve(p)
  PROVE  WriterInv'
  <1> DEFINE r == request[p]
             new == [r EXCEPT !.base = Current, !.phase = "start"]
  <1>1. r.phase = "reserve" /\ r.phase \in Working /\ Stays(stored, version) /\ Elsewhere
    BY DEF Reserve, Stays, Working, Phase
  <1>2. Step(p, new) \/ Step(p, Refused)
    BY DEF Reserve
  <1>3. /\ new \in Asked /\ new.phase = "start" /\ new.base = Current
        /\ new.command = r.command /\ new.prior = r.prior
        /\ new.acknowledged = r.acknowledged /\ new.seen = r.seen
    <2>1. r \in Asked /\ Current \in Reading /\ "start" \in Working
      BY <1>1, Served, Phases
    <2> HIDE DEF r
    <2>2. QED
      BY <2>1 DEF Asked, Working
  <1> HIDE DEF new
  <1>4. AskedInv(new, stored, version)
    BY <1>1, <1>3, Served DEF AskedInv, Sound, Current
  <1>5. new \in Request /\ RequestInv(new, stored, version)
    BY <1>3, <1>4, Lawful
  <1>6. QED
    BY <1>1, <1>2, <1>5, ServerStep, Answers DEF Stays

\* A write of a publication, and what the request holds after it.
LEMMA AdvanceKeeps ==
  ASSUME WriterInv, NEW p \in Page, request[p].phase \in Working, Elsewhere,
         NEW document \in Document, NEW next \in Request, Advance(p, document, next),
         version = request[p].base.tag => RequestInv(next, document, version + 1)
  PROVE  WriterInv'
  <1>1. CASE version = request[p].base.tag /\ Store(document) /\ Step(p, next)
    <2>1. stored' = document /\ version' = version + 1
      BY <1>1 DEF Store
    <2>2. QED
      BY <1>1, <2>1, ServerStep DEF Renewed
  <1>2. CASE Step(p, Refused) /\ UNCHANGED <<stored, version>>
    BY <1>2, ServerStep, Answers DEF Stays
  <1>3. QED
    BY <1>1, <1>2 DEF Advance

LEMMA HeldKeeps ==
  ASSUME WriterInv, NEW p \in Page, request[p].phase \in Working,
         NEW document \in Document, NEW phase \in {"deliver", "finish"}
  PROVE  /\ Held(request[p], document, phase) \in Request
         /\ RequestInv(Held(request[p], document, phase), document, version + 1)
  <1> DEFINE r == request[p]
             new == Held(r, document, phase)
             base == [document |-> document, tag |-> version + 1]
  <1>1. base \in Reading /\ base.document = document /\ base.tag = version + 1
    BY Served DEF Reading
  <1>2. /\ new \in Asked /\ new.phase = phase /\ new.base = base
        /\ new.prior = r.prior /\ new.acknowledged = r.acknowledged
    <2>1. r \in Asked /\ phase \in Working
      BY Served, Phases
    <2> HIDE DEF base
    <2>2. new = [r EXCEPT !.base = base, !.phase = phase]
      BY DEF Held, base
    <2> HIDE DEF new, r
    <2>3. QED
      BY <1>1, <2>1, <2>2 DEF Asked, Working
  <1>3. Continues(document, document)
    BY DEF Continues, Document
  <1>4. AskedInv(new, document, version + 1)
    <2> HIDE DEF new, base
    <2>1. QED
      BY <1>1, <1>2, <1>3, Served DEF AskedInv, Sound
  <1>5. QED
    BY <1>2, <1>4, Lawful

LEMMA StartKeeps ==
  ASSUME WriterInv, NEW p \in Page, Start(p)
  PROVE  WriterInv'
  <1> DEFINE published == Driven(request[p].base.document, "publish", ActorOf[p])
  <1>1. request[p].phase \in Working /\ Elsewhere
    BY DEF Start, Working, Phase
  <1>2. published \in Document
    BY <1>1, Served, DrivenDocument DEF Command
  <1>3. Advance(p, published, Held(request[p], published, "deliver"))
    BY DEF Start
  <1> HIDE DEF published
  <1>4. QED
    BY <1>1, <1>2, <1>3, HeldKeeps, AdvanceKeeps

LEMMA DeliverKeeps ==
  ASSUME WriterInv, NEW p \in Page, Deliver(p)
  PROVE  WriterInv'
  <1>1. request[p].phase \in Working /\ Elsewhere
    BY DEF Deliver, Working, Phase
  <1>2. request[p].base.document \in Document
    BY <1>1, Served
  <1>3. QED
    BY <1>1, <1>2, HeldKeeps, AdvanceKeeps DEF Deliver

LEMMA FinishKeeps ==
  ASSUME WriterInv, NEW p \in Page, Finish(p)
  PROVE  WriterInv'
  <1> DEFINE d == request[p].base.document
             command == IF FullyVerified(d.revision) THEN "complete" ELSE "fail"
             done == Moved(d, command, ActorOf[p], Contextual(ActorOf[p], NoRevision, Number))
  <1>1. request[p].phase \in Working /\ Elsewhere
    BY DEF Finish, Working, Phase
  <1>2. done \in Document
    <2>1. command \in Command
      BY DEF Command
    <2> HIDE DEF command
    <2>2. QED
      BY <1>1, <2>1, Served, MovedDocument DEF NoRevision
  <1>3. Advance(p, done, Saved)
    BY DEF Finish
  <1> HIDE DEF done
  <1>4. QED
    BY <1>1, <1>2, <1>3, AdvanceKeeps, Answers

\* What continues a document and has one more report still continues it.
LEMMA ContinuesOn ==
  ASSUME NEW d \in Document, NEW e \in Document, NEW s \in Document, Continues(d, s),
         Len(e.history) = Len(d.history) + 1,
         \A i \in 1..Len(d.history) : e.history[i] = d.history[i],
         e.history[Len(d.history) + 1].command = "target-outcome"
  PROVE  Continues(e, s)
  <1>1. Len(d.history) \in Nat /\ Len(s.history) \in Nat /\ Len(d.history) >= Len(s.history)
    BY DEF Document, Continues
  <1>2. \A i \in 1..Len(s.history) : e.history[i] = s.history[i]
    BY <1>1 DEF Continues
  <1>3. e.history[Len(s.history) + 1].command = "target-outcome"
    <2>1. CASE Len(d.history) = Len(s.history)
      BY <2>1
    <2>2. CASE Len(d.history) > Len(s.history)
      BY <1>1, <2>2 DEF Continues
    <2>3. QED
      BY <1>1, <2>1, <2>2
  <1>4. QED
    BY <1>1, <1>2, <1>3 DEF Continues

LEMMA ReportKeeps ==
  ASSUME WriterInv, NEW p \in Page, Report(p)
  PROVE  WriterInv'
  <1> DEFINE r == request[p]
  <1>1. r.phase = "deliver" /\ r.phase \in Working /\ Stays(stored, version) /\ Elsewhere
    BY DEF Report, Stays, Working, Phase
  <1>2. PICK t \in Pending(r.base.document.revision), outcome \in {"verified", "failed"} :
          Step(p, [r EXCEPT !.base.document = Reported(@, t, outcome)])
    BY DEF Report
  <1> DEFINE d == r.base.document
             e == Reported(d, t, outcome)
             new == [r EXCEPT !.base.document = Reported(@, t, outcome)]
  <1>3. t \in Target /\ outcome \in Outcome /\ d \in Document /\ stored \in Document
    BY <1>1, Served DEF Pending, Outcome
  <1>4. /\ e \in Document
        /\ Len(e.history) = Len(d.history) + 1
        /\ \A i \in 1..Len(d.history) : e.history[i] = d.history[i]
        /\ e.history[Len(d.history) + 1].command = "target-outcome"
    <2>1. ASSUME NEW x, x = e
          PROVE  /\ x \in Document
                 /\ Len(x.history) = Len(d.history) + 1
                 /\ \A i \in 1..Len(d.history) : x.history[i] = d.history[i]
                 /\ x.history[Len(d.history) + 1].command = "target-outcome"
      <3> HIDE DEF d
      <3>1. QED
        BY <1>3, <2>1, ReportedDocument
    <2> HIDE DEF e
    <2>2. QED
      BY <2>1
  <1>5. new = [r EXCEPT !.base = [document |-> e, tag |-> r.base.tag]]
    BY <1>1, Served DEF Asked, Reading
  <1> DEFINE base == [document |-> e, tag |-> r.base.tag]
  <1> HIDE DEF e, new
  <1>6. base \in Reading /\ base.document = e /\ base.tag = r.base.tag
    BY <1>1, <1>4, Served DEF Reading
  <1>7. /\ new \in Asked /\ new.phase = "deliver" /\ new.base = base
        /\ new.prior = r.prior /\ new.acknowledged = r.acknowledged /\ new.seen = r.seen
    <2>1. r \in Asked /\ new = [r EXCEPT !.base = base]
      BY <1>1, <1>5, Served
    <2> HIDE DEF base
    <2>2. QED
      BY <1>1, <1>6, <2>1, Rewritten
  <1> HIDE DEF base
  <1>8. Continues(d, stored) => Continues(e, stored)
    <2> HIDE DEF d
    <2>1. QED
      BY <1>3, <1>4, ContinuesOn
  <1>9. AskedInv(new, stored, version)
    BY <1>1, <1>6, <1>7, <1>8, Served DEF AskedInv
  <1>10. new \in Request /\ RequestInv(new, stored, version)
    BY <1>7, <1>9, Lawful
  <1>11. Step(p, new)
    BY <1>2 DEF new
  <1>12. QED
    BY <1>1, <1>10, <1>11, ServerStep DEF Stays

-----------------------------------------------------------------------------
(***************************************************************************)
(* A step of a page leaves the store alone: what it holds afterwards it    *)
(* held before, or was told of just now.                                   *)
(***************************************************************************)
LEMMA PageStep ==
  ASSUME WriterInv, UNCHANGED <<stored, version>>, sent' \in 0..MaxRequest,
         held' \in [Page -> SUBSET Reading], arriving' \in [Page -> SUBSET Reading],
         warning' \in [Page -> SUBSET Warning], request' \in [Page -> Request],
         \A q \in Page : held'[q] \cup arriving'[q] \subseteq held[q] \cup arriving[q] \cup {Current},
         \A q \in Page : \A w \in warning'[q] :
           \/ w \in warning[q]
           \/ request[q].phase = "conflict" /\ w = request[q].warning,
         \A q \in Page : request'[q] = request[q] \/ RequestInv(request'[q], stored, version)
  PROVE  WriterInv'
  <1>1. stored' = stored /\ version' = version /\ version \in Nat
    BY DEF WriterInv, TypeOK
  <1>2. TypeOK'
    BY DEF WriterInv, TypeOK
  <1>3. ASSUME NEW q \in Page, NEW x \in held'[q] \cup arriving'[q]
        PROVE  Sound(x, stored, version)
    <2>1. CASE x = Current
      BY <1>1, <2>1 DEF Sound, Current
    <2>2. CASE x \in held[q] \cup arriving[q]
      BY <2>2 DEF WriterInv
    <2>3. QED
      BY <1>3, <2>1, <2>2
  <1>4. ASSUME NEW q \in Page, NEW w \in warning'[q]
        PROVE  Apt(w, stored, version)
    <2>1. RequestInv(request[q], stored, version) /\ \A u \in warning[q] : Apt(u, stored, version)
      BY DEF WriterInv
    <2>2. QED
      BY <1>4, <2>1 DEF RequestInv
  <1>5. ASSUME NEW q \in Page
        PROVE  RequestInv(request'[q], stored, version)
    BY DEF WriterInv
  <1>6. QED
    BY <1>1, <1>2, <1>3, <1>4, <1>5 DEF WriterInv

LEMMA CurrentReading ==
  ASSUME TypeOK
  PROVE  Current \in Reading
  BY DEF TypeOK, Current, Reading

LEMMA LoadKeeps ==
  ASSUME WriterInv, NEW p \in Page, Load(p)
  PROVE  WriterInv'
  <1>1. TypeOK /\ Current \in Reading
    BY CurrentReading DEF WriterInv
  <1>2. /\ warning' = [warning EXCEPT ![p] = {}]
        /\ held' = [held EXCEPT ![p] = {}]
        /\ \/ arriving' = [arriving EXCEPT ![p] = @ \cup {Current}]
           \/ arriving' = [arriving EXCEPT ![p] = @]
        /\ UNCHANGED <<stored, version, request, sent>>
    BY DEF Load
  <1>3. /\ held' \in [Page -> SUBSET Reading] /\ arriving' \in [Page -> SUBSET Reading]
        /\ warning' \in [Page -> SUBSET Warning]
    BY <1>1, <1>2 DEF TypeOK
  <1>4. ASSUME NEW q \in Page
        PROVE  /\ held'[q] \cup arriving'[q] \subseteq held[q] \cup arriving[q] \cup {Current}
               /\ warning'[q] \subseteq warning[q]
    BY <1>1, <1>2 DEF TypeOK
  <1>5. QED
    BY <1>1, <1>2, <1>3, <1>4, PageStep DEF TypeOK

LEMMA ArriveKeeps ==
  ASSUME WriterInv, NEW p \in Page, Arrive(p)
  PROVE  WriterInv'
  <1>1. TypeOK
    BY DEF WriterInv
  <1>2. PICK x \in arriving[p] :
          /\ arriving' = [arriving EXCEPT ![p] = @ \ {x}]
          /\ held' = [held EXCEPT ![p] = {x}]
          /\ UNCHANGED <<stored, version, warning, request, sent>>
    BY DEF Arrive
  <1>3. held' \in [Page -> SUBSET Reading] /\ arriving' \in [Page -> SUBSET Reading]
    BY <1>1, <1>2 DEF TypeOK
  <1>4. ASSUME NEW q \in Page
        PROVE  held'[q] \cup arriving'[q] \subseteq held[q] \cup arriving[q]
    BY <1>1, <1>2 DEF TypeOK
  <1>5. QED
    BY <1>1, <1>2, <1>3, <1>4, PageStep DEF TypeOK

\* A request says what its page read, and what its page was warned of.
LEMMA SendKeeps ==
  ASSUME WriterInv, NEW p \in Page, NEW command \in Command, NEW previous \in Nat,
         NEW x \in held[p], NEW acknowledged \in Nat, NEW seen \in Seq(Entry),
         acknowledged <= version, acknowledged = version => seen = stored.history,
         Send(p, command, previous, x, acknowledged, seen)
  PROVE  WriterInv'
  <1> DEFINE new == [phase |-> "sent", command |-> command, previous |-> previous, prior |-> x,
                     acknowledged |-> acknowledged, seen |-> seen, base |-> x,
                     overwrote |-> <<>>]
  <1>1. TypeOK /\ x \in Reading /\ Sound(x, stored, version)
    BY DEF WriterInv, TypeOK
  <1>2. /\ request' = [request EXCEPT ![p] = new]
        /\ sent' = sent + 1 /\ sent < MaxRequest
        /\ warning' = [warning EXCEPT ![p] = {}]
        /\ UNCHANGED <<stored, version, held, arriving>>
    BY DEF Send
  <1>3. new \in Asked
    <2>1. "sent" \in Phase \ {"idle", "conflict", "saved", "refused"} /\ <<>> \in Seq(Entry)
      BY DEF Phase
    <2>2. QED
      BY <1>1, <2>1 DEF Asked
  <1>4. AskedInv(new, stored, version)
    BY <1>1 DEF AskedInv, Sound
  <1>5. new \in Request /\ RequestInv(new, stored, version)
    <2> HIDE DEF new
    <2>1. QED
      BY <1>3, <1>4, Lawful
  <1> HIDE DEF new
  <1>6. /\ request' \in [Page -> Request] /\ warning' \in [Page -> SUBSET Warning]
        /\ sent' \in 0..MaxRequest
    BY <1>1, <1>2, <1>5, BoundAssumption DEF TypeOK
  <1>7. ASSUME NEW q \in Page
        PROVE  /\ request'[q] = request[q] \/ RequestInv(request'[q], stored, version)
               /\ warning'[q] \subseteq warning[q]
    BY <1>1, <1>2, <1>5 DEF TypeOK
  <1>8. held' = held /\ arriving' = arriving
    BY <1>2
  <1>9. QED
    BY <1>1, <1>2, <1>6, <1>7, <1>8, PageStep DEF TypeOK

LEMMA SaveKeeps ==
  ASSUME WriterInv, NEW p \in Page, Save(p)
  PROVE  WriterInv'
  <1>1. PICK x \in held[p], previous \in {NoRevision, Other} :
          \E command \in Offered(x.document.revision, ActorOf[p]) :
            Send(p, command, previous, x, 0, <<>>)
    BY DEF Save
  <1> PICK command \in Offered(x.document.revision, ActorOf[p]) :
        Send(p, command, previous, x, 0, <<>>)
    BY <1>1
  <1>2. command \in Command /\ previous \in Nat /\ <<>> \in Seq(Entry)
    BY <1>1 DEF Offered, AvailableCommands, NoRevision, Other
  <1>3. 0 <= version /\ 0 # version
    BY DEF WriterInv, TypeOK
  <1>4. QED
    BY <1>1, <1>2, <1>3, SendKeeps

LEMMA ConfirmKeeps ==
  ASSUME WriterInv, NEW p \in Page, Confirm(p)
  PROVE  WriterInv'
  <1>1. PICK w \in warning[p], x \in held[p] : Send(p, w.command, w.previous, x, w.tag, w.seen)
    BY DEF Confirm
  <1>2. w \in Warning /\ Apt(w, stored, version)
    BY DEF WriterInv, TypeOK
  <1>3. /\ w.command \in Command /\ w.previous \in Nat /\ w.tag \in Nat /\ w.seen \in Seq(Entry)
    BY <1>2 DEF Warning
  <1>4. QED
    BY <1>1, <1>2, <1>3, SendKeeps DEF Apt

\* The answer a page takes back leaves it idle.
LEMMA Answered ==
  ASSUME TypeOK, NEW p \in Page, Step(p, Idle)
  PROVE  /\ request' \in [Page -> Request]
         /\ \A q \in Page : request'[q] = request[q] \/ RequestInv(request'[q], stored, version)
  BY Answers DEF Step, TypeOK

LEMMA WarnKeeps ==
  ASSUME WriterInv, NEW p \in Page, Warn(p)
  PROVE  WriterInv'
  <1>1. /\ request[p].phase = "conflict" /\ Step(p, Idle)
        /\ warning' = [warning EXCEPT ![p] = {request[p].warning}]
        /\ UNCHANGED <<stored, version, held, arriving, sent>>
    BY DEF Warn
  <1>2. TypeOK /\ request[p].warning \in Warning
    BY <1>1, AskedType DEF WriterInv, TypeOK
  <1>3. warning' \in [Page -> SUBSET Warning]
    BY <1>1, <1>2 DEF TypeOK
  <1>4. ASSUME NEW q \in Page, NEW w \in warning'[q]
        PROVE  \/ w \in warning[q]
               \/ request[q].phase = "conflict" /\ w = request[q].warning
    BY <1>1, <1>2, <1>4 DEF TypeOK
  <1>5. QED
    BY <1>1, <1>2, <1>3, <1>4, Answered, PageStep DEF TypeOK

LEMMA ReloadKeeps ==
  ASSUME WriterInv, NEW p \in Page, Reload(p)
  PROVE  WriterInv'
  <1>1. TypeOK /\ Current \in Reading
    BY CurrentReading DEF WriterInv
  <1>2. /\ warning' = [warning EXCEPT ![p] = {}]
        /\ held' = [held EXCEPT ![p] = {}]
        /\ \/ arriving' = [arriving EXCEPT ![p] = @ \cup {Current}]
           \/ arriving' = [arriving EXCEPT ![p] = @]
        /\ Step(p, Idle)
        /\ UNCHANGED <<stored, version, sent>>
    BY DEF Reload
  <1>3. /\ held' \in [Page -> SUBSET Reading] /\ arriving' \in [Page -> SUBSET Reading]
        /\ warning' \in [Page -> SUBSET Warning]
    BY <1>1, <1>2 DEF TypeOK
  <1>4. ASSUME NEW q \in Page
        PROVE  /\ held'[q] \cup arriving'[q] \subseteq held[q] \cup arriving[q] \cup {Current}
               /\ warning'[q] \subseteq warning[q]
    BY <1>1, <1>2 DEF TypeOK
  <1>5. QED
    BY <1>1, <1>2, <1>3, <1>4, Answered, PageStep DEF TypeOK

LEMMA UnansweredKeeps ==
  ASSUME WriterInv, NEW p \in Page, Unanswered(p)
  PROVE  WriterInv'
  <1>1. TypeOK /\ Step(p, Idle) /\ UNCHANGED <<stored, version, held, arriving, warning, sent>>
    BY DEF WriterInv, Unanswered
  <1>2. QED
    BY <1>1, Answered, PageStep DEF TypeOK

-----------------------------------------------------------------------------
LEMMA InitWriterInv == Init => WriterInv
  <1> SUFFICES ASSUME Init PROVE WriterInv
    OBVIOUS
  <1>1. stored \in Document /\ version = 1
    BY SeedsType DEF Init
  <1>2. Current \in Reading /\ Sound(Current, stored, version)
    BY <1>1 DEF Current, Reading, Sound
  <1>3. TypeOK
    BY <1>1, <1>2, Answers, BoundAssumption DEF Init, TypeOK
  <1>4. QED
    BY <1>2, <1>3, Answers DEF Init, WriterInv

LEMMA StepWriterInv ==
  ASSUME WriterInv, [Next]_vars
  PROVE  WriterInv'
  <1>1. CASE UNCHANGED vars
    <2>1. Stays(stored, version) /\ held' = held /\ arriving' = arriving
          /\ warning' = warning /\ request' = request /\ sent' = sent
      BY <1>1 DEF vars, Stays
    <2>2. QED
      BY <2>1 DEF WriterInv, TypeOK, Stays
  <1>2. ASSUME NEW p \in Page, Screen(p)
        PROVE  WriterInv'
    BY <1>2, LoadKeeps, ArriveKeeps, SaveKeeps, ConfirmKeeps, WarnKeeps, ReloadKeeps,
       UnansweredKeeps DEF Screen
  <1>3. ASSUME NEW p \in Page, Saving(p)
        PROVE  WriterInv'
    BY <1>3, ReceiveKeeps, PutKeeps, CompareKeeps, OverwriteKeeps DEF Saving
  <1>4. ASSUME NEW p \in Page, Publishing(p)
        PROVE  WriterInv'
    BY <1>4, ReceivePublishKeeps, ApproveKeeps, ReserveKeeps, StartKeeps, ReportKeeps,
       DeliverKeeps, FinishKeeps DEF Publishing
  <1>5. QED
    BY <1>1, <1>2, <1>3, <1>4 DEF Next

\* Whatever the pages and the server's requests hold, and in whatever order
\* their steps come: what is held under the store's tag is what is stored.
THEOREM WriterInvariant == Spec => []WriterInv
  BY InitWriterInv, StepWriterInv, PTL DEF Spec

\* The store, the readings, the warnings and the requests keep their types: a
\* conflict shows entries, and a request works on a document it was given.
THEOREM WriterTypes == Spec => []TypeOK
  <1>1. WriterInv => TypeOK
    BY DEF WriterInv
  <1>2. QED
    BY <1>1, WriterInvariant, PTL

-----------------------------------------------------------------------------
(***************************************************************************)
(* Nobody's work is lost.  A document that is written was made from one    *)
(* that was held under the tag it replaces, which is therefore what was    *)
(* stored.                                                                 *)
(***************************************************************************)
\* What LandsOnCurrent says of one step.
Lands ==
  stored' # stored =>
    LET n == Len(stored.history) IN
    /\ Len(stored'.history) > n
    /\ \A i \in 1..n : stored'.history[i] = stored.history[i]
    /\ stored'.history[n + 1].command # "target-outcome" =>
         stored'.history[n + 1].from = stored.revision.state

\* A command of the reducer applied to what is stored lands on it.
LEMMA MovedLands ==
  ASSUME NEW d \in Document, d = stored, NEW c \in Command, NEW a \in Actor,
         NEW previous \in Nat, NEW publishing,
         stored' = Moved(d, c, a, Contextual(a, previous, publishing))
  PROVE  Lands
  <1>1. /\ Len(stored'.history) = Len(stored.history) + 1
        /\ \A i \in 1..Len(stored.history) : stored'.history[i] = stored.history[i]
        /\ stored'.history[Len(stored.history) + 1].from = stored.revision.state
    BY MovedDocument
  <1>2. Len(stored.history) \in Nat
    BY DEF Document
  <1>3. QED
    BY <1>1, <1>2 DEF Lands

LEMMA DrivenLands ==
  ASSUME NEW d \in Document, d = stored, NEW c \in Command, NEW a \in Actor,
         stored' = Driven(d, c, a)
  PROVE  Lands
  BY MovedLands DEF Driven, NoRevision

LEMMA PutLands ==
  ASSUME WriterInv, NEW p \in Page, Put(p)
  PROVE  Lands
  <1> DEFINE r == request[p]
  <1>1. r.phase = "put" /\ r.phase \in Working
    BY DEF Put, Working, Phase
  <1>2. CASE version = r.prior.tag /\ Store(Proposed(p))
    <2>1. r.base.document = stored
      BY <1>1, <1>2, Served DEF AskedInv, Sound
    <2>2. stored' = Proposed(p)
      BY <1>2 DEF Store
    <2>3. QED
      BY <1>1, <2>1, <2>2, Served, MovedLands DEF Proposed
  <1>3. CASE UNCHANGED <<stored, version>>
    BY <1>3 DEF Lands
  <1>4. QED
    BY <1>2, <1>3 DEF Put

LEMMA OverwriteLands ==
  ASSUME WriterInv, NEW p \in Page, Overwrite(p)
  PROVE  Lands
  <1> DEFINE r == request[p]
  <1>1. r.phase = "force" /\ r.phase \in Working
    BY DEF Overwrite, Working, Phase
  <1>2. CASE version = Under(r) /\ Store(Proposed(p))
    <2>1. r.base.document = stored
      BY <1>1, <1>2, Served DEF AskedInv, Sound, Under
    <2>2. stored' = Proposed(p)
      BY <1>2 DEF Store
    <2>3. QED
      BY <1>1, <2>1, <2>2, Served, MovedLands DEF Proposed
  <1>3. CASE UNCHANGED <<stored, version>>
    BY <1>3 DEF Lands
  <1>4. QED
    BY <1>2, <1>3 DEF Overwrite

LEMMA ApproveLands ==
  ASSUME WriterInv, NEW p \in Page, Approve(p)
  PROVE  Lands
  <1> DEFINE r == request[p]
  <1>1. r.phase = "approve" /\ r.phase \in Working
    BY DEF Approve, Working, Phase
  <1>2. CASE version = r.base.tag /\ Store(Driven(r.base.document, "approve", ActorOf[p]))
    <2>1. r.base.document = stored /\ "approve" \in Command
      BY <1>1, <1>2, Served DEF AskedInv, Sound, Command
    <2>2. stored' = Driven(r.base.document, "approve", ActorOf[p])
      BY <1>2 DEF Store
    <2>3. QED
      BY <1>1, <2>1, <2>2, Served, DrivenLands
  <1>3. CASE UNCHANGED <<stored, version>>
    BY <1>3 DEF Lands
  <1>4. QED
    BY <1>2, <1>3 DEF Approve

\* A write of a publication replaces what the request holds under the store's tag.
LEMMA AdvanceLands ==
  ASSUME NEW p \in Page, NEW document, NEW next, Advance(p, document, next),
         version = request[p].base.tag /\ stored' = document => Lands
  PROVE  Lands
  BY DEF Advance, Store, Lands

LEMMA StartLands ==
  ASSUME WriterInv, NEW p \in Page, Start(p)
  PROVE  Lands
  <1> DEFINE r == request[p]
             published == Driven(r.base.document, "publish", ActorOf[p])
  <1>1. r.phase = "start" /\ r.phase \in Working
    BY DEF Start, Working, Phase
  <1>2. ASSUME version = r.base.tag, stored' = published
        PROVE  Lands
    <2>1. r.base.document = stored /\ "publish" \in Command
      BY <1>1, <1>2, Served DEF AskedInv, Sound, Command
    <2>2. QED
      BY <1>1, <1>2, <2>1, Served, DrivenLands
  <1>3. Advance(p, published, Held(r, published, "deliver"))
    BY DEF Start
  <1> HIDE DEF published
  <1>4. QED
    BY <1>2, <1>3, AdvanceLands

\* What a publication delivers is what it started from, with its reports.
LEMMA DeliverLands ==
  ASSUME WriterInv, NEW p \in Page, Deliver(p)
  PROVE  Lands
  <1> DEFINE r == request[p]
             d == r.base.document
  <1>1. r.phase = "deliver" /\ r.phase \in Working
    BY DEF Deliver, Working, Phase
  <1>2. ASSUME version = r.base.tag, stored' = d
        PROVE  Lands
    <2>1. Continues(d, stored) /\ d \in Document /\ stored \in Document
      BY <1>1, <1>2, Served DEF AskedInv
    <2>2. Len(d.history) \in Nat /\ Len(stored.history) \in Nat
      BY <2>1 DEF Document
    <2>3. QED
      BY <1>2, <2>1, <2>2 DEF Continues, Lands
  <1>3. Advance(p, d, Held(r, d, "finish"))
    BY DEF Deliver
  <1>4. QED
    BY <1>2, <1>3, AdvanceLands

LEMMA FinishLands ==
  ASSUME WriterInv, NEW p \in Page, Finish(p)
  PROVE  Lands
  <1> DEFINE r == request[p]
             command == IF FullyVerified(r.base.document.revision) THEN "complete" ELSE "fail"
             done == Moved(r.base.document, command, ActorOf[p],
                           Contextual(ActorOf[p], NoRevision, Number))
  <1>1. r.phase = "finish" /\ r.phase \in Working
    BY DEF Finish, Working, Phase
  <1>2. ASSUME version = r.base.tag, stored' = done
        PROVE  Lands
    <2>1. r.base.document = stored /\ command \in Command /\ NoRevision \in Nat
      BY <1>1, <1>2, Served DEF AskedInv, Sound, Command, NoRevision
    <2> HIDE DEF command
    <2>2. QED
      BY <1>1, <1>2, <2>1, Served, MovedLands
  <1>3. Advance(p, done, Saved)
    BY DEF Finish
  <1> HIDE DEF done
  <1>4. QED
    BY <1>2, <1>3, AdvanceLands

LEMMA StepLands ==
  ASSUME WriterInv, [Next]_vars
  PROVE  Lands
  <1>1. CASE UNCHANGED vars
    BY <1>1 DEF vars, Lands
  <1>2. ASSUME NEW p \in Page, Screen(p)
        PROVE  Lands
    BY <1>2 DEF Screen, Load, Arrive, Save, Confirm, Send, Warn, Reload, Unanswered, Lands
  <1>3. ASSUME NEW p \in Page, Saving(p)
        PROVE  Lands
    <2>1. CASE Receive(p) \/ Compare(p)
      BY <2>1 DEF Receive, Compare, Lands
    <2>2. QED
      BY <1>3, <2>1, PutLands, OverwriteLands DEF Saving
  <1>4. ASSUME NEW p \in Page, Publishing(p)
        PROVE  Lands
    <2>1. CASE ReceivePublish(p) \/ Reserve(p) \/ Report(p)
      BY <2>1 DEF ReceivePublish, Reserve, Report, Lands
    <2>2. QED
      BY <1>4, <2>1, ApproveLands, StartLands, DeliverLands, FinishLands DEF Publishing
  <1>5. QED
    BY <1>1, <1>2, <1>3, <1>4 DEF Next

\* Whatever is stored next continues the audit history of what was stored, and
\* its first new entry was made from the state that was stored.
THEOREM WriterLands == Spec => LandsOnCurrent
  <1>1. WriterInv /\ [Next]_vars =>
          (stored' # stored =>
             LET n == Len(stored.history) IN
             /\ Len(stored'.history) > n
             /\ \A i \in 1..n : stored'.history[i] = stored.history[i]
             /\ stored'.history[n + 1].command # "target-outcome" =>
                  stored'.history[n + 1].from = stored.revision.state)
    BY StepLands DEF Lands
  <1>2. QED
    BY <1>1, WriterInvariant, PTL DEF Spec, LandsOnCurrent

-----------------------------------------------------------------------------
(***************************************************************************)
(* Consent to an overwrite is consent to something seen.                   *)
(***************************************************************************)
\* What OverwriteIsInformed says of one page in one step.
Informed(p) ==
  LET r == request[p] IN
  r.phase \in {"put", "force"} /\ request'[p].phase = "saved" =>
    \/ r.phase = "put" /\ stored.history = r.prior.document.history
    \/ /\ r.phase = "force" /\ stored.history = r.seen
       /\ \A i \in 1..Len(r.overwrote) :
            r.overwrote[i] = stored.history[Len(r.prior.document.history) + i]
       /\ Len(r.prior.document.history) + Len(r.overwrote) = Len(stored.history)

\* A step concerns the request of one page, and a save that ends is a write.
LEMMA SavedByWrite ==
  ASSUME WriterInv, [Next]_vars, NEW p \in Page, request[p].phase \in {"put", "force"},
         request'[p].phase = "saved"
  PROVE  \/ request[p].phase = "put" /\ version = request[p].prior.tag
         \/ request[p].phase = "force" /\ version = request[p].acknowledged
  <1>1. request \in [Page -> Request]
    BY DEF WriterInv, TypeOK
  <1>2. request'[p] # request[p]
    OBVIOUS
  <1>3. PICK q \in Page : Screen(q) \/ Saving(q) \/ Publishing(q)
    BY <1>2 DEF Next, vars
  <1>4. q = p
    <2>1. SUFFICES ASSUME q # p PROVE request'[p] = request[p]
      BY <1>2
    <2>2. CASE Screen(q)
      BY <1>1, <2>1, <2>2 DEF Screen, Load, Arrive, Save, Confirm, Send, Warn, Reload, Unanswered, Step
    <2>3. CASE Saving(q)
      BY <1>1, <2>1, <2>3 DEF Saving, Receive, Put, Compare, Overwrite, Step
    <2>4. CASE Publishing(q)
      BY <1>1, <2>1, <2>4 DEF Publishing, ReceivePublish, Approve, Reserve, Start, Report, Deliver,
         Finish, Advance, Step
    <2>5. QED
      BY <1>3, <2>2, <2>3, <2>4
  <1>5. ~Screen(p)
    BY <1>2 DEF Screen, Load, Arrive, Save, Confirm, Send, Warn, Reload, Unanswered, Idle
  <1>6. ~Publishing(p)
    BY DEF Publishing, ReceivePublish, Approve, Reserve, Start, Report, Deliver, Finish
  <1>7. Put(p) \/ Overwrite(p)
    BY <1>3, <1>4, <1>5, <1>6 DEF Saving, Receive, Compare
  <1>8. CASE Put(p)
    <2>1. CASE version = request[p].prior.tag
      BY <1>8, <2>1 DEF Put
    <2>2. CASE Step(p, [request[p] EXCEPT !.phase = "compare"])
      <3>1. request[p] \in Asked
        BY <1>1, AskedType DEF Working, Phase
      <3>2. request'[p].phase = "compare"
        BY <1>1, <2>2, <3>1 DEF Step, Asked
      <3>3. QED
        BY <3>2
    <2>3. QED
      BY <1>8, <2>1, <2>2 DEF Put
  <1>9. CASE Overwrite(p)
    <2>1. CASE version = Under(request[p])
      BY <1>9, <2>1 DEF Overwrite, Under
    <2>2. CASE Step(p, [request[p] EXCEPT !.phase = "again"])
      <3>1. request[p] \in Asked
        BY <1>1, AskedType DEF Working, Phase
      <3>2. request'[p].phase = "again"
        BY <1>1, <2>2, <3>1 DEF Step, Asked
      <3>3. QED
        BY <3>2
    <2>3. QED
      BY <1>9, <2>1, <2>2 DEF Overwrite
  <1>10. QED
    BY <1>7, <1>8, <1>9

LEMMA StepInformed ==
  ASSUME WriterInv, [Next]_vars, NEW p \in Page
  PROVE  Informed(p)
  <1> DEFINE r == request[p]
  <1>1. SUFFICES ASSUME r.phase \in {"put", "force"}, request'[p].phase = "saved"
                 PROVE  \/ r.phase = "put" /\ stored.history = r.prior.document.history
                        \/ /\ r.phase = "force" /\ stored.history = r.seen
                           /\ Names(r.overwrote, r.prior.document, stored)
    BY DEF Informed, Names
  <1>2. r.phase \in Working
    BY <1>1 DEF Working, Phase
  <1>3. CASE r.phase = "put" /\ version = r.prior.tag
    BY <1>2, <1>3, Served DEF AskedInv, Sound
  <1>4. CASE r.phase = "force" /\ version = r.acknowledged
    BY <1>2, <1>4, Served DEF AskedInv
  <1>5. QED
    BY <1>1, <1>3, <1>4, SavedByWrite

\* A save replaces only the version its page had read, or the version it was
\* warned about, and the record of an overwrite names all that happened since.
THEOREM WriterInformed == Spec => OverwriteIsInformed
  <1>1. WriterInv /\ [Next]_vars =>
          \A p \in Page :
            LET r == request[p] IN
            r.phase \in {"put", "force"} /\ request'[p].phase = "saved" =>
              \/ r.phase = "put" /\ stored.history = r.prior.document.history
              \/ /\ r.phase = "force" /\ stored.history = r.seen
                 /\ \A i \in 1..Len(r.overwrote) :
                      r.overwrote[i] = stored.history[Len(r.prior.document.history) + i]
                 /\ Len(r.prior.document.history) + Len(r.overwrote) = Len(stored.history)
    BY StepInformed DEF Informed
  <1>2. QED
    BY <1>1, WriterInvariant, PTL DEF Spec, OverwriteIsInformed
==============================================================================
