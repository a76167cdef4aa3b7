----------------------- MODULE NotificationLedgerProofs -----------------------
(***************************************************************************)
(* The safety of NotificationLedger and NotificationChannel for every set  *)
(* of notifications, workers and recipients, every limit, wait and         *)
(* retention, and every bound.  LedgerInv is inductive: what a worker      *)
(* holds under a tag that is still current agrees with the record stored   *)
(* under it.  FlightInv adds how often was sent, ChannelInv to whom.       *)
(***************************************************************************)
EXTENDS NotificationChannel, FiniteSetTheorems, TLAPS

\* What a record of k never contradicts.
Good(k, doc) ==
  /\ doc.attempts <= MaxAttempts
  /\ doc.attempts = MaxAttempts => doc.delivery # "pending"
  /\ doc.delivery = "delivered" => k \in accepted
  /\ doc.acknowledged => doc.delivery # "pending"

\* An outcome is written over the pending record it was computed from.
OutcomeHeld(d) ==
  /\ dispatcher[d].phase \in {"reading", "writing"} =>
       /\ dispatcher[d].key \in Key
       /\ dispatcher[d].outcome \in {"delivered", "failed"}
       /\ dispatcher[d].outcome = "delivered" => dispatcher[d].key \in accepted
  /\ dispatcher[d].phase = "writing" =>
       /\ dispatcher[d].doc \in Record
       /\ Good(dispatcher[d].key, dispatcher[d].doc)
       /\ ~dispatcher[d].doc.acknowledged
       /\ dispatcher[d].tag <= version[dispatcher[d].key]
       /\ TagHolds(dispatcher[d].key, dispatcher[d].tag) =>
            TakesAttempt(record[dispatcher[d].key])

\* An acknowledgement is written over the settled record it was computed from.
AcknowledgementHeld(o) ==
  operator[o].phase = "writing" =>
    /\ operator[o].key \in Key
    /\ operator[o].doc \in Record
    /\ Good(operator[o].key, operator[o].doc)
    /\ operator[o].tag <= version[operator[o].key]
    /\ TagHolds(operator[o].key, operator[o].tag) =>
         /\ MayAcknowledge(record[operator[o].key])
         /\ operator[o].doc.delivery = record[operator[o].key].delivery
         /\ operator[o].doc.attempts = record[operator[o].key].attempts

RemovalHeld(s) == sweeper[s].phase = "deleting" => sweeper[s].key \in Key

LedgerInv ==
  /\ TypeOK
  /\ \A k \in Stored : Good(k, record[k])
  /\ \A d \in Dispatcher : OutcomeHeld(d)
  /\ \A o \in Operator : AcknowledgementHeld(o)
  /\ \A s \in Sweeper : RemovalHeld(s)

\* What a retention pass is about to remove is acknowledged and expired for as
\* long as it is the record the pass decided about.
Decided(s) ==
  /\ sweeper[s].phase # "idle" =>
       \A k \in sweeper[s].batch :
         /\ sweeper[s].planned[k] <= raises[k]
         /\ record[k] # NoRecord /\ sweeper[s].planned[k] = raises[k] => Expired(record[k], clock)
  /\ sweeper[s].phase = "deleting" => sweeper[s].key \in sweeper[s].batch

-----------------------------------------------------------------------------
(* Records *)

LEMMA SaturatedType ==
  ASSUME NEW instant \in Int
  PROVE  Saturated(instant) \in Int
  BY NotificationBound DEF Saturated

LEMMA BackoffType ==
  ASSUME NEW n \in Nat \ {0}
  PROVE  Backoff(n) \in Int
  <1>1. n - 1 \in Nat
    OBVIOUS
  <1>2. 2 ^ (n - 1) \in Int
    BY <1>1
  <1>3. QED
    BY <1>2, LimitAssumption DEF Backoff

LEMMA RaisedRecord ==
  ASSUME NEW now \in Int, NEW k
  PROVE  Raised(now) \in Record /\ Good(k, Raised(now))
  BY LimitAssumption DEF Raised, Record, Good

\* An attempt moves a pending record one attempt on, settled at the limit.
LEMMA AttemptedRecord ==
  ASSUME NEW k, NEW doc \in Record, TakesAttempt(doc), Good(k, doc),
         NEW outcome \in {"delivered", "failed"}, outcome = "delivered" => k \in accepted,
         NEW at \in Int,
         NEW new, new = Attempted(doc, outcome, at)
  PROVE  new \in Record /\ Good(k, new) /\ ~new.acknowledged
  <1>1. PICK tried : tried = doc.attempts + 1
    OBVIOUS
  <1>2. /\ doc.attempts \in Nat /\ doc.attempts < MaxAttempts /\ ~doc.acknowledged
        /\ tried \in Nat \ {0} /\ doc.closedAt \in Int
    BY <1>1, LimitAssumption DEF Record, TakesAttempt, Good
  <1>3. PICK next : next = Saturated(at + Backoff(tried))
    OBVIOUS
  <1>4. next \in Int
    <2>1. Backoff(tried) \in Int
      BY <1>2, BackoffType
    <2>2. at + Backoff(tried) \in Int
      BY <2>1
    <2>3. QED
      BY <1>3, <2>2, SaturatedType
  <1>5. CASE outcome = "delivered"
    <2>1. new = [doc EXCEPT !.attempts = tried, !.delivery = "delivered", !.nextAt = 0]
      BY <1>1, <1>5 DEF Attempted
    <2>2. new = [delivery |-> "delivered", attempts |-> tried, nextAt |-> 0,
                 acknowledged |-> doc.acknowledged, closedAt |-> doc.closedAt]
      BY <2>1 DEF Record
    <2>3. /\ new.attempts = tried /\ new.delivery = "delivered" /\ ~new.acknowledged
          /\ new \in Record
      BY <1>2, <2>2 DEF Record
    <2>4. QED
      BY <1>1, <1>2, <1>5, <2>3, LimitAssumption DEF Good, TakesAttempt
  <1>6. CASE outcome # "delivered" /\ tried >= MaxAttempts
    <2>1. new = [doc EXCEPT !.attempts = tried, !.delivery = "failed", !.nextAt = 0]
      BY <1>1, <1>6 DEF Attempted
    <2>2. new = [delivery |-> "failed", attempts |-> tried, nextAt |-> 0,
                 acknowledged |-> doc.acknowledged, closedAt |-> doc.closedAt]
      BY <2>1 DEF Record
    <2>3. /\ new.attempts = tried /\ new.delivery = "failed" /\ ~new.acknowledged
          /\ new \in Record
      BY <1>2, <2>2 DEF Record
    <2>4. QED
      BY <1>1, <1>2, <1>6, <2>3, LimitAssumption DEF Good, TakesAttempt
  <1>7. CASE outcome # "delivered" /\ ~(tried >= MaxAttempts)
    <2>1. new = [doc EXCEPT !.attempts = tried, !.nextAt = next]
      BY <1>1, <1>3, <1>7 DEF Attempted
    <2>2. /\ new.attempts = tried /\ new.delivery = doc.delivery /\ ~new.acknowledged
          /\ new \in Record
      BY <1>2, <1>4, <2>1 DEF Record
    <2>3. QED
      BY <1>1, <1>2, <1>7, <2>2, LimitAssumption DEF Good, TakesAttempt
  <1>8. QED
    BY <1>5, <1>6, <1>7

LEMMA AcknowledgedRecord ==
  ASSUME NEW k, NEW doc \in Record, MayAcknowledge(doc), Good(k, doc), NEW at \in Int,
         NEW new, new = Acknowledged(doc, at)
  PROVE  /\ new \in Record /\ Good(k, new)
         /\ new.delivery = doc.delivery /\ new.attempts = doc.attempts
  BY DEF Acknowledged, MayAcknowledge, Record, Good

-----------------------------------------------------------------------------
(* What a step leaves alone *)

\* Every write moves its document's tag on, and acceptance is not taken back.
Versioned ==
  /\ accepted \subseteq accepted'
  /\ \A k \in Key : \/ record'[k] = record[k] /\ version'[k] = version[k]
                    \/ version'[k] = version[k] + 1

LEMMA GoodStays ==
  ASSUME NEW k, NEW doc, Good(k, doc), accepted \subseteq accepted'
  PROVE  Good(k, doc)'
  BY DEF Good

LEMMA OutcomeStays ==
  ASSUME LedgerInv, Versioned, NEW d \in Dispatcher, dispatcher'[d] = dispatcher[d]
  PROVE  OutcomeHeld(d)'
  <1>1. PICK p \in Dispatching : p = dispatcher[d]
    BY DEF LedgerInv, TypeOK
  <1>2. CASE p.phase = "writing"
    <2>1. PICK k \in Key : k = p.key
      BY <1>1, <1>2 DEF LedgerInv, OutcomeHeld
    <2>2. /\ p.doc \in Record /\ Good(k, p.doc) /\ ~p.doc.acknowledged
          /\ p.outcome \in {"delivered", "failed"}
          /\ p.outcome = "delivered" => k \in accepted
          /\ p.tag <= version[k] /\ p.tag \in Nat /\ version[k] \in Nat
          /\ record[k] # NoRecord /\ version[k] = p.tag => TakesAttempt(record[k])
      BY <1>1, <1>2, <2>1 DEF LedgerInv, OutcomeHeld, TagHolds, TypeOK, Dispatching
    <2>3. Good(k, p.doc)'
      BY <2>2, GoodStays DEF Versioned
    <2>4. /\ p.tag <= version'[k]
          /\ record'[k] # NoRecord /\ version'[k] = p.tag => TakesAttempt(record'[k])
      BY <2>2 DEF Versioned
    <2>5. QED
      BY <1>1, <1>2, <2>1, <2>2, <2>3, <2>4 DEF OutcomeHeld, TagHolds, Versioned
  <1>3. CASE p.phase # "writing"
    BY <1>1, <1>3 DEF LedgerInv, OutcomeHeld, Versioned
  <1>4. QED
    BY <1>2, <1>3

LEMMA AcknowledgementStays ==
  ASSUME LedgerInv, Versioned, NEW o \in Operator, operator'[o] = operator[o]
  PROVE  AcknowledgementHeld(o)'
  <1>1. PICK p \in Acknowledging : p = operator[o]
    BY DEF LedgerInv, TypeOK
  <1>2. CASE p.phase = "writing"
    <2>1. PICK k \in Key : k = p.key
      BY <1>1, <1>2 DEF LedgerInv, AcknowledgementHeld
    <2>2. /\ p.doc \in Record /\ Good(k, p.doc)
          /\ p.tag <= version[k] /\ p.tag \in Nat /\ version[k] \in Nat
          /\ record[k] # NoRecord /\ version[k] = p.tag =>
               /\ MayAcknowledge(record[k])
               /\ p.doc.delivery = record[k].delivery
               /\ p.doc.attempts = record[k].attempts
      BY <1>1, <1>2, <2>1 DEF LedgerInv, AcknowledgementHeld, TagHolds, TypeOK, Acknowledging
    <2>3. Good(k, p.doc)'
      BY <2>2, GoodStays DEF Versioned
    <2>4. /\ p.tag <= version'[k]
          /\ record'[k] # NoRecord /\ version'[k] = p.tag =>
               /\ MayAcknowledge(record'[k])
               /\ p.doc.delivery = record'[k].delivery
               /\ p.doc.attempts = record'[k].attempts
      BY <2>2 DEF Versioned
    <2>5. QED
      BY <1>1, <1>2, <2>1, <2>2, <2>3, <2>4 DEF AcknowledgementHeld, TagHolds
  <1>3. CASE p.phase # "writing"
    BY <1>1, <1>3 DEF AcknowledgementHeld
  <1>4. QED
    BY <1>2, <1>3

LEMMA RecordsStay ==
  ASSUME LedgerInv, UNCHANGED record, accepted \subseteq accepted'
  PROVE  \A k \in Stored' : Good(k, record[k])'
  BY GoodStays DEF LedgerInv, Stored

\* A record written under a current tag or created leaves the others alone.
LEMMA WriteEffect ==
  ASSUME TypeOK, NEW k \in Key, NEW doc \in Record \cup {NoRecord}, Write(k, doc)
  PROVE  /\ record' \in [Key -> Record \cup {NoRecord}]
         /\ version' \in [Key -> Nat]
         /\ record'[k] = doc /\ version'[k] = version[k] + 1
         /\ \A j \in Key \ {k} : record'[j] = record[j] /\ version'[j] = version[j]
         /\ version[k] \in Nat
  BY DEF TypeOK, Write

LEMMA WriteVersioned ==
  ASSUME TypeOK, NEW k \in Key, NEW doc \in Record \cup {NoRecord}, Write(k, doc),
         UNCHANGED accepted
  PROVE  Versioned
  BY WriteEffect DEF Versioned

LEMMA WrittenGood ==
  ASSUME LedgerInv, NEW k \in Key, NEW doc \in Record \cup {NoRecord}, Write(k, doc),
         doc # NoRecord => Good(k, doc), UNCHANGED accepted
  PROVE  \A j \in Stored' : Good(j, record[j])'
  <1>1. TAKE j \in Stored'
  <1>2. j \in Key /\ record'[j] # NoRecord
    BY DEF Stored
  <1>3. CASE j = k
    BY <1>2, <1>3, WriteEffect, GoodStays DEF LedgerInv
  <1>4. CASE j # k
    <2>1. record'[j] = record[j] /\ Good(j, record[j])
      BY <1>2, <1>4, WriteEffect DEF LedgerInv, Stored
    <2>2. QED
      BY <2>1, GoodStays
  <1>5. QED
    BY <1>3, <1>4

\* What no record contradicts, TypeOK says of every record.
LEMMA LimitKept ==
  ASSUME \A k \in Stored : Good(k, record[k])
  PROVE  \A k \in Stored : /\ record[k].attempts <= MaxAttempts
                            /\ record[k].attempts = MaxAttempts => record[k].delivery # "pending"
  BY DEF Good

-----------------------------------------------------------------------------
(* Initial states and the steps that write nothing *)

LEMMA IdleTypes ==
  /\ IdleDispatcher \in Dispatching /\ IdleOperator \in Acknowledging
  /\ IdleSweeper \in Retaining
  BY DEF IdleDispatcher, IdleOperator, IdleSweeper, Dispatching, Acknowledging, Retaining

LEMMA InitInv == Init => LedgerInv
  <1> SUFFICES ASSUME Init PROVE LedgerInv
    OBVIOUS
  <1>1. /\ \A k \in Key : record[k] = NoRecord
        /\ \A d \in Dispatcher : dispatcher[d] = IdleDispatcher
        /\ \A o \in Operator : operator[o] = IdleOperator
        /\ \A s \in Sweeper : sweeper[s] = IdleSweeper
    BY DEF Init
  <1>3. Stored = {}
    BY <1>1 DEF Stored
  <1>4. TypeOK
    <2>1. /\ dispatcher \in [Dispatcher -> Dispatching] /\ operator \in [Operator -> Acknowledging]
          /\ sweeper \in [Sweeper -> Retaining]
      BY IdleTypes DEF Init
    <2>2. /\ record \in [Key -> Record \cup {NoRecord}] /\ version \in [Key -> Nat]
          /\ raises \in [Key -> Nat] /\ sends \in [Key -> Nat] /\ accepted \subseteq Key
          /\ clock \in 0 .. MaxClock /\ crashes \in 0 .. MaxCrash
      BY NotificationBound DEF Init
    <2>3. QED
      BY <1>3, <2>1, <2>2 DEF TypeOK
  <1>5. /\ \A d \in Dispatcher : OutcomeHeld(d)
        /\ \A o \in Operator : AcknowledgementHeld(o)
        /\ \A s \in Sweeper : RemovalHeld(s)
    BY <1>1 DEF OutcomeHeld, AcknowledgementHeld, RemovalHeld, IdleDispatcher, IdleOperator,
                IdleSweeper
  <1>6. QED
    BY <1>3, <1>4, <1>5 DEF LedgerInv

\* A step that writes no document keeps the invariant when the workers it
\* moves keep theirs.
LEMMA QuietStep ==
  ASSUME LedgerInv, UNCHANGED <<record, version>>,
         accepted \subseteq accepted', accepted' \subseteq Key,
         clock' \in 0 .. MaxClock, crashes' \in 0 .. MaxCrash,
         raises' \in [Key -> Nat], sends' \in [Key -> Nat],
         dispatcher' \in [Dispatcher -> Dispatching],
         operator' \in [Operator -> Acknowledging], sweeper' \in [Sweeper -> Retaining],
         \A d \in Dispatcher : dispatcher'[d] = dispatcher[d] \/ OutcomeHeld(d)',
         \A o \in Operator : operator'[o] = operator[o] \/ AcknowledgementHeld(o)',
         \A s \in Sweeper : sweeper'[s] = sweeper[s] \/ RemovalHeld(s)'
  PROVE  LedgerInv'
  <1>1. Versioned
    BY DEF Versioned
  <1>2. \A k \in Stored' : Good(k, record[k])'
    BY RecordsStay
  <1>3. /\ \A d \in Dispatcher : OutcomeHeld(d)'
        /\ \A o \in Operator : AcknowledgementHeld(o)'
    BY <1>1, OutcomeStays, AcknowledgementStays
  <1>4. \A s \in Sweeper : RemovalHeld(s)'
    BY DEF LedgerInv, RemovalHeld
  <1>5. TypeOK'
    BY <1>2 DEF LedgerInv, TypeOK, Good
  <1>6. QED
    BY <1>2, <1>3, <1>4, <1>5 DEF LedgerInv

\* The same of a step that writes one document.
LEMMA WriteStep ==
  ASSUME LedgerInv, NEW k \in Key, NEW doc \in Record \cup {NoRecord}, Write(k, doc),
         doc # NoRecord => Good(k, doc),
         UNCHANGED <<accepted, clock, crashes>>,
         raises' \in [Key -> Nat], sends' \in [Key -> Nat],
         dispatcher' \in [Dispatcher -> Dispatching],
         operator' \in [Operator -> Acknowledging], sweeper' \in [Sweeper -> Retaining],
         \A d \in Dispatcher : dispatcher'[d] = dispatcher[d] \/ OutcomeHeld(d)',
         \A o \in Operator : operator'[o] = operator[o] \/ AcknowledgementHeld(o)',
         \A s \in Sweeper : sweeper'[s] = sweeper[s] \/ RemovalHeld(s)'
  PROVE  LedgerInv'
  <1>1. Versioned
    BY WriteVersioned DEF LedgerInv
  <1>2. \A j \in Stored' : Good(j, record[j])'
    BY WrittenGood
  <1>3. /\ \A d \in Dispatcher : OutcomeHeld(d)'
        /\ \A o \in Operator : AcknowledgementHeld(o)'
    BY <1>1, OutcomeStays, AcknowledgementStays
  <1>4. \A s \in Sweeper : RemovalHeld(s)'
    BY DEF LedgerInv, RemovalHeld
  <1>5. TypeOK'
    <2>1. /\ record' \in [Key -> Record \cup {NoRecord}] /\ version' \in [Key -> Nat]
      BY WriteEffect DEF LedgerInv
    <2>2. QED
      BY <1>2, <2>1 DEF LedgerInv, TypeOK, Good
  <1>6. QED
    BY <1>2, <1>3, <1>4, <1>5 DEF LedgerInv

LEMMA AdvanceInv == ASSUME LedgerInv, Advance PROVE LedgerInv'
  <1>1. clock' \in 0 .. MaxClock
    BY NotificationBound DEF LedgerInv, TypeOK, Advance
  <1>2. QED
    BY <1>1, QuietStep DEF LedgerInv, TypeOK, Advance, Unwritten

LEMMA CrashInv == ASSUME LedgerInv, Crash PROVE LedgerInv'
  <1>1. /\ crashes' \in 0 .. MaxCrash
        /\ UNCHANGED <<record, version, clock, raises, sends, accepted>>
    BY NotificationBound DEF LedgerInv, TypeOK, Crash, Unwritten
  <1>2. /\ dispatcher' \in [Dispatcher -> Dispatching]
        /\ operator' \in [Operator -> Acknowledging]
        /\ sweeper' \in [Sweeper -> Retaining]
    BY IdleTypes DEF LedgerInv, TypeOK, Crash
  <1>3. \A d \in Dispatcher : dispatcher'[d] = dispatcher[d] \/ OutcomeHeld(d)'
    BY DEF LedgerInv, TypeOK, Crash, OutcomeHeld, IdleDispatcher
  <1>4. \A o \in Operator : operator'[o] = operator[o] \/ AcknowledgementHeld(o)'
    BY DEF LedgerInv, TypeOK, Crash, AcknowledgementHeld, IdleOperator
  <1>5. \A s \in Sweeper : sweeper'[s] = sweeper[s] \/ RemovalHeld(s)'
    BY DEF LedgerInv, TypeOK, Crash, RemovalHeld, IdleSweeper
  <1>6. QED
    BY <1>1, <1>2, <1>3, <1>4, <1>5, QuietStep DEF LedgerInv, TypeOK

-----------------------------------------------------------------------------
(* Raising and dispatching *)

LEMMA RaiseInv == ASSUME LedgerInv, NEW k \in Key, Raise(k) PROVE LedgerInv'
  <1>1. PICK doc : doc = Raised(clock)
    OBVIOUS
  <1>2. doc \in Record /\ Good(k, doc) /\ Write(k, doc)
    BY <1>1, RaisedRecord DEF Raise, LedgerInv, TypeOK
  <1>3. raises' \in [Key -> Nat] /\ sends' \in [Key -> Nat]
    BY DEF LedgerInv, TypeOK, Raise
  <1>4. QED
    BY <1>2, <1>3, WriteStep DEF LedgerInv, TypeOK, Raise

\* Nothing is held under a tag between two notifications of a batch.
LEMMA NextKeyHeld ==
  ASSUME LedgerInv, NEW d \in Dispatcher, NextKey(d)
  PROVE  /\ dispatcher' \in [Dispatcher -> Dispatching]
         /\ OutcomeHeld(d)'
         /\ \A e \in Dispatcher \ {d} : dispatcher'[e] = dispatcher[e]
  <1>1. PICK p \in Dispatching : p = dispatcher[d]
    BY DEF LedgerInv, TypeOK
  <1>2. PICK q : q = IF p.batch \ {p.key} = {} THEN IdleDispatcher
                     ELSE [IdleDispatcher EXCEPT !.phase = "sending", !.batch = p.batch \ {p.key},
                                                 !.now = p.now]
    OBVIOUS
  <1>3. q \in Dispatching /\ q.phase \in {"idle", "sending"}
    BY <1>2, IdleTypes DEF Dispatching, IdleDispatcher
  <1>4. dispatcher' = [dispatcher EXCEPT ![d] = q]
    BY <1>1, <1>2 DEF NextKey
  <1>5. QED
    BY <1>3, <1>4 DEF LedgerInv, TypeOK, OutcomeHeld

LEMMA DispatchInv == ASSUME LedgerInv, NEW d \in Dispatcher, Dispatch(d) PROVE LedgerInv'
  <1>1. PICK due : due = { k \in Key : IsDue(k, clock) }
    OBVIOUS
  <1>2. due \in SUBSET Key /\ clock \in Int
    BY <1>1 DEF LedgerInv, TypeOK
  <1>3. PICK p \in Dispatching : p = dispatcher[d]
    BY DEF LedgerInv, TypeOK
  <1>4. PICK q : q = [p EXCEPT !.phase = "sending", !.now = clock, !.batch = due]
    OBVIOUS
  <1>5. q \in Dispatching /\ q.phase = "sending"
    BY <1>2, <1>4 DEF Dispatching
  <1>6. dispatcher' = [dispatcher EXCEPT ![d] = q]
    BY <1>1, <1>3, <1>4 DEF Dispatch, LedgerInv, TypeOK
  <1>7. /\ dispatcher' \in [Dispatcher -> Dispatching] /\ OutcomeHeld(d)'
        /\ \A e \in Dispatcher \ {d} : dispatcher'[e] = dispatcher[e]
    BY <1>5, <1>6 DEF LedgerInv, TypeOK, OutcomeHeld
  <1>8. QED
    BY <1>7, QuietStep DEF Dispatch, Unwritten, LedgerInv, TypeOK

LEMMA QuitInv == ASSUME LedgerInv, NEW d \in Dispatcher, Quit(d) PROVE LedgerInv'
  <1>1. /\ dispatcher' \in [Dispatcher -> Dispatching]
        /\ UNCHANGED <<record, version, clock, crashes, raises, sends, accepted, operator, sweeper>>
    BY IdleTypes DEF LedgerInv, TypeOK, Quit, Unwritten
  <1>2. \A e \in Dispatcher : dispatcher'[e] = dispatcher[e] \/ OutcomeHeld(e)'
    BY DEF LedgerInv, TypeOK, Quit, OutcomeHeld, IdleDispatcher
  <1>3. QED
    BY <1>1, <1>2, QuietStep DEF LedgerInv, TypeOK

LEMMA SendInv == ASSUME LedgerInv, NEW d \in Dispatcher, Send(d) PROVE LedgerInv'
  <1>1. PICK k \in dispatcher[d].batch, outcome \in {"delivered", "failed"} :
          /\ dispatcher' = [dispatcher EXCEPT ![d].phase = "reading", ![d].key = k,
                                              ![d].outcome = outcome]
          /\ sends' = [sends EXCEPT ![k] = IF raises[k] = 1 THEN @ + 1 ELSE @]
          /\ accepted' = IF outcome = "delivered" THEN accepted \cup {k} ELSE accepted
    BY DEF Send
  <1>2. k \in Key
    BY DEF LedgerInv, TypeOK, Dispatching
  <1>3. PICK p \in Dispatching : p = dispatcher[d]
    BY DEF LedgerInv, TypeOK
  <1>4. PICK q : q = [p EXCEPT !.phase = "reading", !.key = k, !.outcome = outcome]
    OBVIOUS
  <1>5. q \in Dispatching
    BY <1>2, <1>4 DEF Dispatching
  <1>6. dispatcher' = [dispatcher EXCEPT ![d] = q]
    BY <1>1, <1>3, <1>4 DEF LedgerInv, TypeOK
  <1>7. /\ dispatcher' \in [Dispatcher -> Dispatching]
        /\ \A e \in Dispatcher \ {d} : dispatcher'[e] = dispatcher[e]
    BY <1>5, <1>6 DEF LedgerInv, TypeOK
  <1>8. /\ dispatcher'[d].phase = "reading" /\ dispatcher'[d].key = k
        /\ dispatcher'[d].outcome = outcome
    BY <1>1 DEF LedgerInv, TypeOK, Dispatching
  <1>9. OutcomeHeld(d)'
    BY <1>1, <1>2, <1>8 DEF OutcomeHeld
  <1>10. /\ sends' \in [Key -> Nat] /\ accepted \subseteq accepted' /\ accepted' \subseteq Key
    BY <1>1, <1>2 DEF LedgerInv, TypeOK
  <1>11. QED
    BY <1>7, <1>9, <1>10, QuietStep DEF Send, Unwritten, LedgerInv, TypeOK

LEMMA ReadOutcomeInv == ASSUME LedgerInv, NEW d \in Dispatcher, ReadOutcome(d) PROVE LedgerInv'
  <1>1. PICK p \in Dispatching : p = dispatcher[d]
    BY DEF LedgerInv, TypeOK
  <1>2. PICK k \in Key : k = p.key
    BY <1>1 DEF ReadOutcome, LedgerInv, OutcomeHeld
  <1>3. CASE record[k] # NoRecord /\ TakesAttempt(record[k])
    <2>1. PICK new : new = Attempted(record[k], p.outcome, p.now)
      OBVIOUS
    <2>2. dispatcher' = [dispatcher EXCEPT ![d].phase = "writing", ![d].tag = version[k], ![d].doc = new]
      BY <1>1, <1>2, <1>3, <2>1 DEF ReadOutcome
    <2>3. /\ record[k] \in Record /\ Good(k, record[k]) /\ p.now \in Int
          /\ p.phase = "reading" /\ version[k] \in Nat
          /\ p.outcome = "delivered" => k \in accepted
      BY <1>1, <1>2, <1>3 DEF LedgerInv, TypeOK, Stored, ReadOutcome, OutcomeHeld, Dispatching
    <2>4. p.outcome \in {"delivered", "failed"}
      BY <1>1 DEF LedgerInv, OutcomeHeld, ReadOutcome
    <2>5. new \in Record /\ Good(k, new) /\ ~new.acknowledged
      BY <1>3, <2>1, <2>3, <2>4, AttemptedRecord
    <2>6. /\ dispatcher' \in [Dispatcher -> Dispatching]
          /\ \A e \in Dispatcher \ {d} : dispatcher'[e] = dispatcher[e]
          /\ dispatcher'[d].phase = "writing" /\ dispatcher'[d].key = k
          /\ dispatcher'[d].tag = version[k] /\ dispatcher'[d].doc = new
          /\ dispatcher'[d].outcome = p.outcome
      BY <1>1, <1>2, <2>2, <2>3, <2>5 DEF LedgerInv, TypeOK, Dispatching
    <2>7. UNCHANGED <<record, version, accepted>>
      BY DEF ReadOutcome, Unwritten
    <2>8. Good(k, new)'
      BY <2>5, <2>7, GoodStays
    <2>9. OutcomeHeld(d)'
      BY <1>3, <2>3, <2>4, <2>5, <2>6, <2>7, <2>8 DEF OutcomeHeld, TagHolds
    <2>10. QED
      BY <2>6, <2>9, QuietStep DEF ReadOutcome, Unwritten, LedgerInv, TypeOK
  <1>4. CASE ~(record[k] # NoRecord /\ TakesAttempt(record[k]))
    <2>1. NextKey(d)
      BY <1>1, <1>2, <1>4 DEF ReadOutcome
    <2>2. QED
      BY <2>1, NextKeyHeld, QuietStep DEF ReadOutcome, Unwritten, LedgerInv, TypeOK
  <1>5. QED
    BY <1>3, <1>4

LEMMA WriteOutcomeInv == ASSUME LedgerInv, NEW d \in Dispatcher, WriteOutcome(d) PROVE LedgerInv'
  <1>1. PICK p \in Dispatching : p = dispatcher[d]
    BY DEF LedgerInv, TypeOK
  <1>2. PICK k \in Key : k = p.key
    BY <1>1 DEF WriteOutcome, LedgerInv, OutcomeHeld
  <1>3. p.phase = "writing" /\ p.doc \in Record /\ Good(k, p.doc)
    BY <1>1, <1>2 DEF WriteOutcome, LedgerInv, OutcomeHeld
  <1>4. CASE TagHolds(k, p.tag)
    <2>1. Write(k, p.doc) /\ NextKey(d)
      BY <1>1, <1>2, <1>4 DEF WriteOutcome
    <2>2. QED
      BY <1>3, <2>1, NextKeyHeld, WriteStep DEF WriteOutcome, LedgerInv, TypeOK
  <1>5. CASE ~TagHolds(k, p.tag) /\ NextKey(d)
    BY <1>1, <1>2, <1>5, NextKeyHeld, QuietStep DEF WriteOutcome, Unwritten, LedgerInv, TypeOK
  <1>6. CASE ~TagHolds(k, p.tag) /\ dispatcher' = [dispatcher EXCEPT ![d] = IdleDispatcher]
    <2>1. /\ dispatcher' \in [Dispatcher -> Dispatching]
          /\ \A e \in Dispatcher \ {d} : dispatcher'[e] = dispatcher[e]
          /\ OutcomeHeld(d)'
      BY <1>6, IdleTypes DEF LedgerInv, TypeOK, OutcomeHeld, IdleDispatcher
    <2>2. QED
      BY <1>1, <1>2, <1>6, <2>1, QuietStep DEF WriteOutcome, Unwritten, LedgerInv, TypeOK
  <1>7. QED
    BY <1>1, <1>2, <1>4, <1>5, <1>6 DEF WriteOutcome

-----------------------------------------------------------------------------
(* Acknowledging and removing *)

LEMMA ReadToAcknowledgeInv ==
  ASSUME LedgerInv, NEW o \in Operator, ReadToAcknowledge(o)
  PROVE  LedgerInv'
  <1>1. PICK k \in Stored :
          /\ MayAcknowledge(record[k])
          /\ operator' = [operator EXCEPT
               ![o] = [phase |-> "writing", key |-> k, tag |-> version[k],
                       doc |-> Acknowledged(record[k], clock)]]
    BY DEF ReadToAcknowledge
  <1>2. PICK new : new = Acknowledged(record[k], clock)
    OBVIOUS
  <1>3. k \in Key /\ record[k] \in Record /\ Good(k, record[k]) /\ clock \in Int /\ version[k] \in Nat
    BY DEF LedgerInv, TypeOK, Stored
  <1>4. /\ new \in Record /\ Good(k, new)
        /\ new.delivery = record[k].delivery /\ new.attempts = record[k].attempts
    BY <1>1, <1>2, <1>3, AcknowledgedRecord
  <1>5. PICK q : q = [phase |-> "writing", key |-> k, tag |-> version[k], doc |-> new]
    OBVIOUS
  <1>6. q \in Acknowledging /\ operator' = [operator EXCEPT ![o] = q]
    BY <1>1, <1>2, <1>3, <1>4, <1>5 DEF Acknowledging
  <1>7. /\ operator' \in [Operator -> Acknowledging] /\ operator'[o] = q
        /\ \A e \in Operator \ {o} : operator'[e] = operator[e]
    BY <1>6 DEF LedgerInv, TypeOK
  <1>8. UNCHANGED <<record, version, accepted>>
    BY DEF ReadToAcknowledge, Unwritten
  <1>9. Good(k, new)'
    BY <1>4, <1>8, GoodStays
  <1>10. AcknowledgementHeld(o)'
    BY <1>1, <1>3, <1>4, <1>5, <1>7, <1>8, <1>9 DEF AcknowledgementHeld, TagHolds
  <1>11. QED
    BY <1>7, <1>10, QuietStep DEF ReadToAcknowledge, Unwritten, LedgerInv, TypeOK

LEMMA WriteAcknowledgementInv ==
  ASSUME LedgerInv, NEW o \in Operator, WriteAcknowledgement(o)
  PROVE  LedgerInv'
  <1>1. PICK p \in Acknowledging : p = operator[o]
    BY DEF LedgerInv, TypeOK
  <1>2. PICK k \in Key : k = p.key
    BY <1>1 DEF WriteAcknowledgement, LedgerInv, AcknowledgementHeld
  <1>3. p.doc \in Record /\ Good(k, p.doc)
    BY <1>1, <1>2 DEF WriteAcknowledgement, LedgerInv, AcknowledgementHeld
  <1>4. /\ operator' \in [Operator -> Acknowledging] /\ AcknowledgementHeld(o)'
        /\ \A e \in Operator \ {o} : operator'[e] = operator[e]
    BY IdleTypes DEF WriteAcknowledgement, LedgerInv, TypeOK, AcknowledgementHeld, IdleOperator
  <1>5. CASE TagHolds(k, p.tag)
    <2>1. Write(k, p.doc)
      BY <1>1, <1>2, <1>5 DEF WriteAcknowledgement
    <2>2. QED
      BY <1>3, <1>4, <2>1, WriteStep DEF WriteAcknowledgement, LedgerInv, TypeOK
  <1>6. CASE ~TagHolds(k, p.tag)
    <2>1. Unwritten
      BY <1>1, <1>2, <1>6 DEF WriteAcknowledgement
    <2>2. QED
      BY <1>4, <2>1, QuietStep DEF WriteAcknowledgement, Unwritten, LedgerInv, TypeOK
  <1>7. QED
    BY <1>5, <1>6

LEMMA PlanRetentionInv ==
  ASSUME LedgerInv, NEW s \in Sweeper, PlanRetention(s)
  PROVE  LedgerInv'
  <1>1. PICK expired : expired = { k \in Stored : Expired(record[k], clock) }
    OBVIOUS
  <1>2. PICK q : q = [IdleSweeper EXCEPT !.phase = "reading", !.batch = expired, !.planned = raises]
    OBVIOUS
  <1>3. q \in Retaining /\ q.phase = "reading"
    BY <1>1, <1>2 DEF IdleSweeper, Retaining, Stored, LedgerInv, TypeOK
  <1>4. sweeper' = [sweeper EXCEPT ![s] = q]
    BY <1>1, <1>2 DEF PlanRetention
  <1>5. /\ sweeper' \in [Sweeper -> Retaining] /\ RemovalHeld(s)'
        /\ \A e \in Sweeper \ {s} : sweeper'[e] = sweeper[e]
    BY <1>3, <1>4 DEF LedgerInv, TypeOK, RemovalHeld
  <1>6. QED
    BY <1>5, QuietStep DEF PlanRetention, Unwritten, LedgerInv, TypeOK

\* What a retention pass is left with once a notification is dealt with.
LEMMA NextExpiredHeld ==
  ASSUME LedgerInv, NEW s \in Sweeper, NEW k, NextExpired(s, k)
  PROVE  /\ sweeper' \in [Sweeper -> Retaining] /\ RemovalHeld(s)'
         /\ sweeper'[s].batch = sweeper[s].batch \ {k}
         /\ sweeper'[s].phase # "deleting"
         /\ sweeper'[s].phase # "idle" => sweeper'[s].planned = sweeper[s].planned
         /\ \A e \in Sweeper \ {s} : sweeper'[e] = sweeper[e]
  <1>1. PICK p \in Retaining : p = sweeper[s]
    BY DEF LedgerInv, TypeOK
  <1>2. PICK q : q = IF p.batch \ {k} = {} THEN IdleSweeper
                     ELSE [IdleSweeper EXCEPT !.phase = "reading", !.batch = p.batch \ {k},
                                              !.planned = p.planned]
    OBVIOUS
  <1>3. /\ q \in Retaining /\ q.phase # "deleting" /\ q.batch = p.batch \ {k}
        /\ q.phase # "idle" => q.planned = p.planned
    BY <1>2 DEF IdleSweeper, Retaining
  <1>4. sweeper' = [sweeper EXCEPT ![s] = q]
    BY <1>1, <1>2 DEF NextExpired
  <1>5. QED
    BY <1>1, <1>3, <1>4 DEF LedgerInv, TypeOK, RemovalHeld

LEMMA ReadExpiredInv ==
  ASSUME LedgerInv, NEW s \in Sweeper, ReadExpired(s)
  PROVE  LedgerInv'
  <1>1. PICK k \in sweeper[s].batch :
          IF record[k] = NoRecord THEN NextExpired(s, k)
          ELSE sweeper' = [sweeper EXCEPT ![s].phase = "deleting", ![s].key = k,
                                          ![s].tag = version[k]]
    BY DEF ReadExpired
  <1>2. PICK p \in Retaining : p = sweeper[s]
    BY DEF LedgerInv, TypeOK
  <1>3. k \in Key /\ version[k] \in Nat
    BY <1>2 DEF LedgerInv, TypeOK, Retaining
  <1>4. CASE record[k] = NoRecord
    BY <1>1, <1>4, NextExpiredHeld, QuietStep DEF ReadExpired, Unwritten, LedgerInv, TypeOK
  <1>5. CASE record[k] # NoRecord
    <2>1. PICK q : q = [p EXCEPT !.phase = "deleting", !.key = k, !.tag = version[k]]
      OBVIOUS
    <2>2. q \in Retaining /\ q.key = k
      BY <1>3, <2>1 DEF Retaining
    <2>3. sweeper' = [sweeper EXCEPT ![s] = q]
      BY <1>1, <1>2, <1>5, <2>1 DEF LedgerInv, TypeOK
    <2>4. /\ sweeper' \in [Sweeper -> Retaining] /\ RemovalHeld(s)'
          /\ \A e \in Sweeper \ {s} : sweeper'[e] = sweeper[e]
      BY <1>3, <2>2, <2>3 DEF LedgerInv, TypeOK, RemovalHeld
    <2>5. QED
      BY <2>4, QuietStep DEF ReadExpired, Unwritten, LedgerInv, TypeOK
  <1>6. QED
    BY <1>4, <1>5

LEMMA DeleteExpiredInv ==
  ASSUME LedgerInv, NEW s \in Sweeper, DeleteExpired(s)
  PROVE  LedgerInv'
  <1>1. PICK k \in Key : k = sweeper[s].key
    BY DEF DeleteExpired, LedgerInv, RemovalHeld
  <1>2. NextExpired(s, k)
    BY <1>1 DEF DeleteExpired
  <1>3. CASE TagHolds(k, sweeper[s].tag)
    <2>1. Write(k, NoRecord)
      BY <1>1, <1>3 DEF DeleteExpired
    <2>2. QED
      BY <1>2, <2>1, NextExpiredHeld, WriteStep DEF DeleteExpired, LedgerInv, TypeOK
  <1>4. CASE ~TagHolds(k, sweeper[s].tag)
    <2>1. Unwritten
      BY <1>1, <1>4 DEF DeleteExpired
    <2>2. QED
      BY <1>2, <2>1, NextExpiredHeld, QuietStep DEF DeleteExpired, Unwritten, LedgerInv, TypeOK
  <1>5. QED
    BY <1>3, <1>4

-----------------------------------------------------------------------------
(* Safety *)

LEMMA StepInv == ASSUME LedgerInv, [Next]_vars PROVE LedgerInv'
  <1>1. CASE UNCHANGED vars
    BY <1>1, QuietStep DEF vars, LedgerInv, TypeOK
  <1>2. ASSUME NEW d \in Dispatcher, Deliver(d) \/ Quit(d) PROVE LedgerInv'
    BY <1>2, QuitInv, DispatchInv, SendInv, ReadOutcomeInv, WriteOutcomeInv DEF Deliver
  <1>3. ASSUME NEW s \in Sweeper, Retain(s) PROVE LedgerInv'
    BY <1>3, PlanRetentionInv, ReadExpiredInv, DeleteExpiredInv DEF Retain
  <1>4. QED
    BY <1>1, <1>2, <1>3, AdvanceInv, CrashInv, RaiseInv, ReadToAcknowledgeInv,
       WriteAcknowledgementInv DEF Next

\* The inductive invariant holds whatever runs overlap and whoever is lost.
THEOREM LedgerInvariant == Spec => []LedgerInv
  BY InitInv, StepInv, PTL DEF Spec

\* Records and workers keep their types and no record counts more attempts
\* than delivery is given.
THEOREM LedgerTypes == Spec => []TypeOK
  <1>1. LedgerInv => TypeOK
    BY DEF LedgerInv
  <1>2. QED
    BY <1>1, LedgerInvariant, PTL

\* A record says delivered only of what the channel accepted, and only what
\* is settled is ever closed.
THEOREM LedgerDelivered == Spec => []DeliveredWasAccepted
  <1>1. LedgerInv => DeliveredWasAccepted
    BY DEF LedgerInv, DeliveredWasAccepted, Good
  <1>2. QED
    BY <1>1, LedgerInvariant, PTL

\* What SettledIsFinal says of one record in one step.
FinalFor(k) ==
  record[k] # NoRecord /\ record'[k] # NoRecord /\ record[k].delivery # "pending" =>
    /\ record'[k].delivery = record[k].delivery
    /\ record'[k].attempts = record[k].attempts
    /\ record[k].acknowledged => record'[k] = record[k]

LEMMA FinalUnderWrite ==
  ASSUME LedgerInv, NEW j \in Key, NEW doc \in Record \cup {NoRecord}, Write(j, doc),
         FinalFor(j), NEW k \in Key
  PROVE  FinalFor(k)
  BY WriteEffect DEF LedgerInv, FinalFor

LEMMA OutcomeFinal ==
  ASSUME LedgerInv, NEW d \in Dispatcher, WriteOutcome(d), NEW k \in Key
  PROVE  FinalFor(k)
  <1>1. PICK p \in Dispatching : p = dispatcher[d]
    BY DEF LedgerInv, TypeOK
  <1>2. PICK j \in Key : j = p.key
    BY <1>1 DEF WriteOutcome, LedgerInv, OutcomeHeld
  <1>3. CASE TagHolds(j, p.tag)
    <2>1. TakesAttempt(record[j]) /\ p.doc \in Record
      BY <1>1, <1>2, <1>3 DEF WriteOutcome, LedgerInv, OutcomeHeld
    <2>2. Write(j, p.doc)
      BY <1>1, <1>2, <1>3 DEF WriteOutcome
    <2>3. FinalFor(j)
      BY <2>1 DEF FinalFor, TakesAttempt
    <2>4. QED
      BY <2>1, <2>2, <2>3, FinalUnderWrite
  <1>4. CASE ~TagHolds(j, p.tag)
    BY <1>1, <1>2, <1>4 DEF WriteOutcome, Unwritten, FinalFor
  <1>5. QED
    BY <1>3, <1>4

LEMMA AcknowledgementFinal ==
  ASSUME LedgerInv, NEW o \in Operator, WriteAcknowledgement(o), NEW k \in Key
  PROVE  FinalFor(k)
  <1>1. PICK p \in Acknowledging : p = operator[o]
    BY DEF LedgerInv, TypeOK
  <1>2. PICK j \in Key : j = p.key
    BY <1>1 DEF WriteAcknowledgement, LedgerInv, AcknowledgementHeld
  <1>3. CASE TagHolds(j, p.tag)
    <2>1. /\ MayAcknowledge(record[j]) /\ p.doc \in Record
          /\ p.doc.delivery = record[j].delivery /\ p.doc.attempts = record[j].attempts
      BY <1>1, <1>2, <1>3 DEF WriteAcknowledgement, LedgerInv, AcknowledgementHeld
    <2>2. Write(j, p.doc) /\ record'[j] = p.doc
      BY <1>1, <1>2, <1>3, <2>1, WriteEffect DEF WriteAcknowledgement, LedgerInv
    <2>3. FinalFor(j)
      BY <2>1, <2>2 DEF FinalFor, MayAcknowledge
    <2>4. QED
      BY <2>1, <2>2, <2>3, FinalUnderWrite
  <1>4. CASE ~TagHolds(j, p.tag)
    BY <1>1, <1>2, <1>4 DEF WriteAcknowledgement, Unwritten, FinalFor
  <1>5. QED
    BY <1>3, <1>4

LEMMA RemovalFinal ==
  ASSUME LedgerInv, NEW s \in Sweeper, DeleteExpired(s), NEW k \in Key
  PROVE  FinalFor(k)
  <1>1. PICK j \in Key : j = sweeper[s].key
    BY DEF DeleteExpired, LedgerInv, RemovalHeld
  <1>2. CASE TagHolds(j, sweeper[s].tag)
    <2>1. Write(j, NoRecord)
      BY <1>1, <1>2 DEF DeleteExpired
    <2>2. FinalFor(j)
      BY <2>1, WriteEffect DEF FinalFor, LedgerInv
    <2>3. QED
      BY <2>1, <2>2, FinalUnderWrite
  <1>3. CASE ~TagHolds(j, sweeper[s].tag)
    BY <1>1, <1>3 DEF DeleteExpired, Unwritten, FinalFor
  <1>4. QED
    BY <1>2, <1>3

LEMMA FinalStep ==
  ASSUME LedgerInv, [Next]_vars, NEW k \in Key
  PROVE  FinalFor(k)
  <1>1. CASE record' = record
    BY <1>1 DEF FinalFor
  <1>2. ASSUME NEW j \in Key, Raise(j) PROVE FinalFor(k)
    <2>1. FinalFor(j)
      BY <1>2 DEF Raise, FinalFor
    <2>2. PICK doc : doc = Raised(clock)
      OBVIOUS
    <2>3. doc \in Record /\ Write(j, doc)
      BY <1>2, <2>2, RaisedRecord DEF Raise, LedgerInv, TypeOK
    <2>4. QED
      BY <2>1, <2>3, FinalUnderWrite
  <1>3. CASE Advance \/ Crash \/ UNCHANGED vars
    BY <1>1, <1>3 DEF Advance, Crash, Unwritten, vars
  <1>4. ASSUME NEW d \in Dispatcher, Deliver(d) \/ Quit(d) PROVE FinalFor(k)
    BY <1>1, <1>4, OutcomeFinal DEF Deliver, Dispatch, Quit, Send, ReadOutcome, Unwritten
  <1>5. ASSUME NEW o \in Operator, ReadToAcknowledge(o) \/ WriteAcknowledgement(o)
        PROVE  FinalFor(k)
    BY <1>1, <1>5, AcknowledgementFinal DEF ReadToAcknowledge, Unwritten
  <1>6. ASSUME NEW s \in Sweeper, Retain(s) PROVE FinalFor(k)
    BY <1>1, <1>6, RemovalFinal DEF Retain, PlanRetention, ReadExpired, Unwritten
  <1>7. QED
    BY <1>2, <1>3, <1>4, <1>5, <1>6 DEF Next

\* A settled delivery is never reopened or rewritten, and a closed record is
\* not changed until it is removed.
THEOREM LedgerFinal == Spec => SettledIsFinal
  <1>1. LedgerInv /\ [Next]_vars =>
          \A k \in Key :
            record[k] # NoRecord /\ record'[k] # NoRecord /\ record[k].delivery # "pending" =>
              /\ record'[k].delivery = record[k].delivery
              /\ record'[k].attempts = record[k].attempts
              /\ record[k].acknowledged => record'[k] = record[k]
    BY FinalStep DEF FinalFor
  <1>2. QED
    BY <1>1, LedgerInvariant, PTL DEF Spec, SettledIsFinal

-----------------------------------------------------------------------------
(* Retention passes that overlap *)

\* A record comes into being only by being raised.
LEMMA RaisesGrow ==
  ASSUME LedgerInv, [Next]_vars, NEW k \in Key
  PROVE  /\ raises[k] \in Nat /\ raises'[k] \in Nat /\ raises[k] <= raises'[k]
         /\ record[k] = NoRecord /\ record'[k] # NoRecord => raises[k] < raises'[k]
  <1>1. raises[k] \in Nat
    BY DEF LedgerInv, TypeOK
  <1>2. CASE record' = record /\ raises' = raises
    BY <1>1, <1>2
  <1>3. ASSUME NEW j \in Key, Raise(j)
        PROVE  /\ raises'[k] \in Nat /\ raises[k] <= raises'[k]
               /\ record[k] = NoRecord /\ record'[k] # NoRecord => raises[k] < raises'[k]
    <2>1. CASE j = k
      BY <1>1, <1>3, <2>1 DEF Raise, LedgerInv, TypeOK
    <2>2. CASE j # k
      BY <1>1, <1>3, <2>2 DEF Raise, Write, LedgerInv, TypeOK
    <2>3. QED
      BY <2>1, <2>2
  <1>4. ASSUME NEW d \in Dispatcher, WriteOutcome(d)
        PROVE  raises' = raises /\ (record[k] = NoRecord => record'[k] = NoRecord)
    <2>1. PICK j \in Key : j = dispatcher[d].key
      BY <1>4 DEF WriteOutcome, LedgerInv, OutcomeHeld
    <2>2. \/ Write(j, dispatcher[d].doc) /\ record[j] # NoRecord
          \/ record' = record
      BY <1>4, <2>1 DEF WriteOutcome, Unwritten, TagHolds
    <2>3. QED
      BY <1>4, <2>2 DEF WriteOutcome, Write, LedgerInv, TypeOK
  <1>5. ASSUME NEW o \in Operator, WriteAcknowledgement(o)
        PROVE  raises' = raises /\ (record[k] = NoRecord => record'[k] = NoRecord)
    <2>1. PICK j \in Key : j = operator[o].key
      BY <1>5 DEF WriteAcknowledgement, LedgerInv, AcknowledgementHeld
    <2>2. \/ Write(j, operator[o].doc) /\ record[j] # NoRecord
          \/ record' = record
      BY <1>5, <2>1 DEF WriteAcknowledgement, Unwritten, TagHolds
    <2>3. QED
      BY <1>5, <2>2 DEF WriteAcknowledgement, Write, LedgerInv, TypeOK
  <1>6. ASSUME NEW s \in Sweeper, DeleteExpired(s)
        PROVE  raises' = raises /\ (record[k] = NoRecord => record'[k] = NoRecord)
    BY <1>6 DEF DeleteExpired, Write, Unwritten, LedgerInv, TypeOK
  <1>7. \/ record' = record /\ raises' = raises
        \/ \E j \in Key : Raise(j)
        \/ \E d \in Dispatcher : WriteOutcome(d)
        \/ \E o \in Operator : WriteAcknowledgement(o)
        \/ \E s \in Sweeper : DeleteExpired(s)
    BY DEF Next, Advance, Crash, Deliver, Retain, Dispatch, Quit, Send, ReadOutcome, ReadToAcknowledge,
           PlanRetention, ReadExpired, Unwritten, vars
  <1>8. QED
    BY <1>1, <1>2, <1>3, <1>4, <1>5, <1>6, <1>7

\* A closed record is left as it is or removed.
LEMMA ClosedStays ==
  ASSUME LedgerInv, [Next]_vars,
         NEW k \in Key, record[k] # NoRecord, record[k].acknowledged, record'[k] # NoRecord
  PROVE  record'[k] = record[k]
  <1>1. record[k].delivery # "pending"
    BY DEF LedgerInv, Stored, Good
  <1>2. FinalFor(k)
    BY FinalStep
  <1>3. QED
    BY <1>1, <1>2 DEF FinalFor

LEMMA ClockGrows == ASSUME LedgerInv, [Next]_vars PROVE clock \in Int /\ clock' \in Int /\ clock <= clock'
  <1>1. clock \in Int
    BY DEF LedgerInv, TypeOK
  <1>2. clock' = clock \/ clock' = clock + 1
    BY DEF Next, Advance, Crash, Raise, Deliver, Retain, Dispatch, Quit, Send, ReadOutcome, WriteOutcome,
           ReadToAcknowledge, WriteAcknowledgement, PlanRetention, ReadExpired, DeleteExpired, vars
  <1>3. QED
    BY <1>1, <1>2

\* What was decided about one notification outlasts every step.
LEMMA DecisionStays ==
  ASSUME LedgerInv, [Next]_vars, NEW k \in Key, NEW n \in Nat, n <= raises[k],
         record[k] # NoRecord /\ n = raises[k] => Expired(record[k], clock)
  PROVE  /\ n <= raises'[k]
         /\ record'[k] # NoRecord /\ n = raises'[k] => Expired(record'[k], clock')
  <1>1. /\ raises[k] \in Nat /\ raises'[k] \in Nat /\ raises[k] <= raises'[k]
        /\ record[k] = NoRecord /\ record'[k] # NoRecord => raises[k] < raises'[k]
    BY RaisesGrow
  <1>2. ASSUME record'[k] # NoRecord, n = raises'[k]
        PROVE  Expired(record'[k], clock')
    <2>1. record[k] # NoRecord /\ n = raises[k]
      BY <1>1, <1>2
    <2>2. record[k].acknowledged /\ clock - record[k].closedAt > Retention
      BY <2>1 DEF Expired
    <2>3. record'[k] = record[k]
      BY <1>2, <2>1, <2>2, ClosedStays
    <2>4. record[k] \in Record
      BY <2>1 DEF LedgerInv, TypeOK
    <2>5. record[k].closedAt \in Int /\ Retention \in Nat
      BY <2>4, LimitAssumption DEF Record
    <2>6. clock \in Int /\ clock' \in Int /\ clock <= clock'
      BY ClockGrows
    <2>7. clock' - record[k].closedAt > Retention
      BY <2>2, <2>5, <2>6
    <2>8. QED
      BY <2>2, <2>3, <2>7 DEF Expired
  <1>3. QED
    BY <1>1, <1>2

LEMMA RetainDecided ==
  ASSUME LedgerInv, [Next]_vars, NEW s \in Sweeper, Decided(s), Retain(s)
  PROVE  Decided(s)'
  <1>1. PICK p \in Retaining : p = sweeper[s]
    BY DEF LedgerInv, TypeOK
  <1>2. CASE PlanRetention(s)
    <2>1. PICK q : q = [phase |-> "reading", batch |-> { k \in Stored : Expired(record[k], clock) },
                        key |-> NoKey, tag |-> 0, planned |-> raises]
      OBVIOUS
    <2>2. sweeper'[s] = q /\ record' = record /\ clock' = clock /\ raises' = raises
      BY <1>2, <2>1 DEF PlanRetention, IdleSweeper, Unwritten, LedgerInv, TypeOK
    <2>3. \A k \in q.batch : k \in Key /\ Expired(record[k], clock) /\ raises[k] <= raises[k]
      BY <2>1 DEF Stored, LedgerInv, TypeOK
    <2>4. QED
      BY <2>1, <2>2, <2>3 DEF Decided
  <1>3. CASE ReadExpired(s)
    <2>1. /\ p.phase = "reading" /\ record' = record /\ clock' = clock /\ raises' = raises
      BY <1>1, <1>3 DEF ReadExpired, Unwritten
    <2>2. PICK k \in p.batch :
            IF record[k] = NoRecord THEN NextExpired(s, k)
            ELSE sweeper' = [sweeper EXCEPT ![s].phase = "deleting", ![s].key = k, ![s].tag = version[k]]
      BY <1>1, <1>3 DEF ReadExpired
    <2>3. CASE record[k] = NoRecord
      BY <1>1, <2>1, <2>2, <2>3, NextExpiredHeld DEF Decided
    <2>4. CASE record[k] # NoRecord
      <3>1. /\ sweeper'[s].batch = p.batch /\ sweeper'[s].key = k
            /\ sweeper'[s].planned = p.planned
        BY <1>1, <2>2, <2>4 DEF LedgerInv, TypeOK, Retaining
      <3>2. QED
        BY <1>1, <2>1, <2>2, <3>1 DEF Decided
    <2>5. QED
      BY <2>3, <2>4
  <1>4. CASE DeleteExpired(s)
    <2>1. PICK k \in Key : k = p.key
      BY <1>1, <1>4 DEF DeleteExpired, LedgerInv, RemovalHeld
    <2>2. p.phase = "deleting" /\ NextExpired(s, k)
      BY <1>1, <1>4, <2>1 DEF DeleteExpired
    <2>3. /\ sweeper'[s].batch = p.batch \ {k} /\ sweeper'[s].phase # "deleting"
          /\ sweeper'[s].phase # "idle" => sweeper'[s].planned = p.planned
      BY <1>1, <2>2, NextExpiredHeld
    <2>4. ASSUME NEW j \in p.batch
          PROVE  /\ p.planned[j] <= raises'[j]
                 /\ record'[j] # NoRecord /\ p.planned[j] = raises'[j] => Expired(record'[j], clock')
      <3>1. j \in Key /\ p.planned[j] \in Nat
        BY <2>4 DEF Retaining
      <3>2. QED
        BY <1>1, <2>2, <2>4, <3>1, DecisionStays DEF Decided
    <2>5. QED
      BY <2>3, <2>4 DEF Decided
  <1>5. QED
    BY <1>2, <1>3, <1>4 DEF Retain

LEMMA DecidedStep ==
  ASSUME LedgerInv, [Next]_vars, NEW s \in Sweeper, Decided(s)
  PROVE  Decided(s)'
  <1>1. PICK p \in Retaining : p = sweeper[s]
    BY DEF LedgerInv, TypeOK
  <1>2. CASE Retain(s)
    BY <1>2, RetainDecided
  <1>3. CASE sweeper'[s] = sweeper[s]
    <2>1. ASSUME p.phase # "idle", NEW k \in p.batch
          PROVE  /\ p.planned[k] <= raises'[k]
                 /\ record'[k] # NoRecord /\ p.planned[k] = raises'[k] => Expired(record'[k], clock')
      <3>1. k \in Key /\ p.planned[k] \in Nat
        BY <2>1 DEF Retaining
      <3>2. QED
        BY <1>1, <2>1, <3>1, DecisionStays DEF Decided
    <2>2. QED
      BY <1>1, <1>3, <2>1 DEF Decided
  <1>4. CASE sweeper'[s] = IdleSweeper
    BY <1>4 DEF Decided, IdleSweeper
  <1>5. ASSUME NEW t \in Sweeper, Retain(t), t # s
        PROVE  sweeper'[s] = sweeper[s]
    BY <1>5 DEF Retain, PlanRetention, ReadExpired, DeleteExpired, NextExpired, LedgerInv, TypeOK
  <1>6. Crash => sweeper'[s] = sweeper[s] \/ sweeper'[s] = IdleSweeper
    BY DEF Crash, LedgerInv, TypeOK
  <1>7. QED
    BY <1>2, <1>3, <1>4, <1>5, <1>6 DEF Next, Advance, Raise, Deliver, Dispatch, Quit, Send, ReadOutcome,
       WriteOutcome, ReadToAcknowledge, WriteAcknowledgement, vars

\* Only a retention pass removes a record, and it removes the one it is at.
LEMMA RemovedByPass ==
  ASSUME LedgerInv, [Next]_vars, NEW k \in Key, record[k] # NoRecord, record'[k] = NoRecord
  PROVE  \E s \in Sweeper : DeleteExpired(s) /\ sweeper[s].key = k
  <1>1. record' # record
    OBVIOUS
  <1>2. ASSUME NEW j \in Key, Raise(j) PROVE FALSE
    BY <1>2, AbsenceAssumption DEF Raise, Raised, Write, LedgerInv, TypeOK
  <1>3. ASSUME NEW d \in Dispatcher, WriteOutcome(d) PROVE FALSE
    <2>1. PICK j \in Key : j = dispatcher[d].key
      BY <1>3 DEF WriteOutcome, LedgerInv, OutcomeHeld
    <2>2. dispatcher[d].doc \in Record
      BY <1>3 DEF WriteOutcome, LedgerInv, OutcomeHeld
    <2>3. \/ Write(j, dispatcher[d].doc)
          \/ record' = record
      BY <1>3, <2>1 DEF WriteOutcome, Unwritten
    <2>4. QED
      BY <2>2, <2>3, AbsenceAssumption DEF Write, LedgerInv, TypeOK
  <1>4. ASSUME NEW o \in Operator, WriteAcknowledgement(o) PROVE FALSE
    <2>1. PICK j \in Key : j = operator[o].key
      BY <1>4 DEF WriteAcknowledgement, LedgerInv, AcknowledgementHeld
    <2>2. operator[o].doc \in Record
      BY <1>4 DEF WriteAcknowledgement, LedgerInv, AcknowledgementHeld
    <2>3. \/ Write(j, operator[o].doc)
          \/ record' = record
      BY <1>4, <2>1 DEF WriteAcknowledgement, Unwritten
    <2>4. QED
      BY <2>2, <2>3, AbsenceAssumption DEF Write, LedgerInv, TypeOK
  <1>5. PICK s \in Sweeper : DeleteExpired(s)
    BY <1>1, <1>2, <1>3, <1>4 DEF Next, Advance, Crash, Deliver, Retain, Dispatch, Quit, Send, ReadOutcome,
       ReadToAcknowledge, PlanRetention, ReadExpired, Unwritten, vars
  <1>6. sweeper[s].key = k
    BY <1>5 DEF DeleteExpired, Unwritten, Write, LedgerInv, TypeOK
  <1>7. QED
    BY <1>5, <1>6

\* What a step may remove: RemovedWasAcknowledged for one notification.
RemovedAsDecided(k) ==
  record[k] # NoRecord /\ record'[k] = NoRecord =>
    \/ record[k].acknowledged /\ clock - record[k].closedAt > Retention
    \/ \E s \in Sweeper : /\ sweeper[s].phase = "deleting" /\ sweeper[s].key = k
                          /\ sweeper'[s] # sweeper[s]
                          /\ sweeper[s].planned[k] < raises[k]

LEMMA RemovalStep ==
  ASSUME LedgerInv, [Next]_vars, \A s \in Sweeper : Decided(s), NEW k \in Key
  PROVE  RemovedAsDecided(k)
  <1>1. SUFFICES ASSUME record[k] # NoRecord, record'[k] = NoRecord
                 PROVE  RemovedAsDecided(k)
    BY DEF RemovedAsDecided
  <1>2. PICK s \in Sweeper : DeleteExpired(s) /\ sweeper[s].key = k
    BY <1>1, RemovedByPass
  <1>3. PICK p \in Retaining : p = sweeper[s]
    BY DEF LedgerInv, TypeOK
  <1>4. p.phase = "deleting" /\ NextExpired(s, k) /\ Decided(s)
    BY <1>2, <1>3 DEF DeleteExpired
  <1>5. sweeper'[s] # sweeper[s]
    BY <1>3, <1>4, NextExpiredHeld
  <1>6. k \in p.batch /\ p.planned[k] <= raises[k] /\ p.planned[k] \in Nat /\ raises[k] \in Nat
    BY <1>2, <1>3, <1>4 DEF Decided, LedgerInv, TypeOK, Retaining
  <1>7. CASE p.planned[k] = raises[k]
    BY <1>1, <1>3, <1>4, <1>6, <1>7 DEF Decided, Expired, RemovedAsDecided
  <1>8. CASE p.planned[k] < raises[k]
    BY <1>2, <1>3, <1>4, <1>5, <1>8 DEF RemovedAsDecided
  <1>9. QED
    BY <1>6, <1>7, <1>8

\* However many retention passes overlap, what one removes was acknowledged,
\* long enough ago, or raised again after the pass made its plan.
THEOREM LedgerRemoval == Spec => RemovedWasAcknowledged
  <1>1. Init => \A s \in Sweeper : Decided(s)
    BY DEF Init, Decided, IdleSweeper
  <1>2. LedgerInv /\ [Next]_vars /\ (\A s \in Sweeper : Decided(s)) => (\A s \in Sweeper : Decided(s))'
    BY DecidedStep
  <1>3. LedgerInv /\ [Next]_vars /\ (\A s \in Sweeper : Decided(s)) =>
          \A k \in Key : record[k] # NoRecord /\ record'[k] = NoRecord =>
            \/ record[k].acknowledged /\ clock - record[k].closedAt > Retention
            \/ \E s \in Sweeper : /\ sweeper[s].phase = "deleting" /\ sweeper[s].key = k
                                  /\ sweeper'[s] # sweeper[s]
                                  /\ sweeper[s].planned[k] < raises[k]
    BY RemovalStep DEF RemovedAsDecided
  <1>4. QED
    BY <1>1, <1>2, <1>3, LedgerInvariant, PTL DEF Spec, RemovedWasAcknowledged
-----------------------------------------------------------------------------
(***************************************************************************)
(* Attempts and sendings.  Of a notification raised once, what is recorded *)
(* and what is still to be recorded together is no more than was sent.     *)
(***************************************************************************)

InFlight(k) ==
  { d \in Dispatcher : dispatcher[d].phase \in {"reading", "writing"} /\ dispatcher[d].key = k }

\* Nobody has picked up what was never raised.
Unraised(k) == /\ record[k] = NoRecord
               /\ \A d \in Dispatcher : k \notin dispatcher[d].batch /\ dispatcher[d].key # k

Sent(k) ==
  /\ raises[k] = 0 => Unraised(k)
  /\ IsFiniteSet(InFlight(k))
  /\ record[k] # NoRecord /\ raises[k] = 1 =>
       record[k].attempts + Cardinality(InFlight(k)) <= sends[k]

\* An outcome counts one attempt more than the record it is written over.
OneMore(d) ==
  dispatcher[d].phase = "writing" /\ TagHolds(dispatcher[d].key, dispatcher[d].tag) =>
    dispatcher[d].doc.attempts = record[dispatcher[d].key].attempts + 1

FlightInv == (\A k \in Key : Sent(k)) /\ (\A d \in Dispatcher : OneMore(d))

LEMMA FlightInit == Init => FlightInv
  <1> SUFFICES ASSUME Init PROVE FlightInv
    OBVIOUS
  <1>1. \A d \in Dispatcher : /\ dispatcher[d].phase = "idle" /\ dispatcher[d].batch = {}
                              /\ dispatcher[d].key = NoKey
    BY DEF Init, IdleDispatcher
  <1>2. ASSUME NEW k \in Key PROVE Sent(k)
    <2>1. record[k] = NoRecord /\ k # NoKey
      BY AbsenceAssumption DEF Init
    <2>2. InFlight(k) = {}
      BY <1>1 DEF InFlight
    <2>3. QED
      BY <1>1, <2>1, <2>2, FS_EmptySet DEF Sent, Unraised
  <1>3. QED
    BY <1>1, <1>2 DEF FlightInv, OneMore

\* What a run holds that does not move stays one attempt ahead.
LEMMA OneMoreStays ==
  ASSUME LedgerInv, Versioned, NEW d \in Dispatcher, OneMore(d), dispatcher'[d] = dispatcher[d]
  PROVE  OneMore(d)'
  <1>1. PICK p \in Dispatching : p = dispatcher[d]
    BY DEF LedgerInv, TypeOK
  <1>2. CASE p.phase = "writing"
    <2>1. PICK k \in Key : k = p.key
      BY <1>1, <1>2 DEF LedgerInv, OutcomeHeld
    <2>2. p.tag <= version[k] /\ p.tag \in Nat /\ version[k] \in Nat
      BY <1>1, <1>2, <2>1 DEF LedgerInv, OutcomeHeld, TypeOK, Dispatching
    <2>3. version'[k] = p.tag => record'[k] = record[k] /\ version[k] = p.tag
      BY <2>2 DEF Versioned
    <2>4. QED
      BY <1>1, <1>2, <2>1, <2>3 DEF OneMore, TagHolds
  <1>3. CASE p.phase # "writing"
    BY <1>1, <1>3 DEF OneMore
  <1>4. QED
    BY <1>2, <1>3

LEMMA FlightType ==
  ASSUME LedgerInv, NEW k \in Key, Sent(k)
  PROVE  /\ Cardinality(InFlight(k)) \in Nat /\ sends[k] \in Nat /\ raises[k] \in Nat
         /\ record[k] # NoRecord => record[k] \in Record /\ record[k].attempts \in Nat
  <1>1. Cardinality(InFlight(k)) \in Nat
    BY FS_CardinalityType DEF Sent
  <1>2. QED
    BY <1>1 DEF LedgerInv, TypeOK, Record

\* A step that picks nobody up for k and records no attempt of it keeps the count.
LEMMA SentStays ==
  ASSUME LedgerInv, NEW k \in Key, Sent(k), InFlight(k)' \subseteq InFlight(k),
         UNCHANGED <<raises[k], sends[k]>>,
         \/ record'[k] = record[k]
         \/ record'[k] = NoRecord
         \/ record[k] # NoRecord /\ record'[k].attempts = record[k].attempts,
         raises[k] = 0 => Unraised(k)'
  PROVE  Sent(k)'
  <1>1. /\ IsFiniteSet(InFlight(k)') /\ Cardinality(InFlight(k)') <= Cardinality(InFlight(k))
        /\ Cardinality(InFlight(k)') \in Nat
    BY FS_Subset, FS_CardinalityType DEF Sent
  <1>2. CASE record'[k] # NoRecord /\ raises[k] = 1
    <2>1. record[k] # NoRecord /\ record'[k].attempts = record[k].attempts
      BY <1>2
    <2>2. QED
      BY <1>1, <1>2, <2>1, FlightType DEF Sent
  <1>3. CASE ~(record'[k] # NoRecord /\ raises[k] = 1)
    BY <1>1, <1>3 DEF Sent
  <1>4. QED
    BY <1>2, <1>3

\* The same of a step that leaves every run where it is or ends it.
LEMMA FlightQuiet ==
  ASSUME LedgerInv, FlightInv, Versioned, UNCHANGED <<raises, sends>>,
         \A d \in Dispatcher : dispatcher'[d] = dispatcher[d] \/ dispatcher'[d] = IdleDispatcher,
         \A k \in Key : \/ record'[k] = record[k]
                        \/ record'[k] = NoRecord
                        \/ record[k] # NoRecord /\ record'[k].attempts = record[k].attempts
  PROVE  FlightInv'
  <1>1. ASSUME NEW d \in Dispatcher PROVE OneMore(d)'
    BY <1>1, OneMoreStays DEF FlightInv, OneMore, IdleDispatcher
  <1>2. ASSUME NEW k \in Key PROVE Sent(k)'
    <2>1. InFlight(k)' \subseteq InFlight(k)
      BY DEF InFlight, IdleDispatcher
    <2>2. raises[k] = 0 => Unraised(k)'
      <3>1. SUFFICES ASSUME raises[k] = 0 PROVE Unraised(k)'
        OBVIOUS
      <3>2. Unraised(k) /\ k # NoKey
        BY <3>1, AbsenceAssumption DEF FlightInv, Sent
      <3>3. QED
        BY <3>2 DEF Unraised, IdleDispatcher
    <2>3. QED
      BY <2>1, <2>2, SentStays DEF FlightInv
  <1>3. QED
    BY <1>1, <1>2 DEF FlightInv

\* One run moves and writes nothing.
LEMMA FlightMove ==
  ASSUME LedgerInv, FlightInv, UNCHANGED <<record, version, raises, sends, accepted>>,
         NEW d \in Dispatcher, \A e \in Dispatcher \ {d} : dispatcher'[e] = dispatcher[e],
         OneMore(d)',
         \A k \in Key : d \in InFlight(k)' => d \in InFlight(k),
         \A k \in Key : raises[k] = 0 => k \notin dispatcher'[d].batch /\ dispatcher'[d].key # k
  PROVE  FlightInv'
  <1>1. Versioned
    BY DEF Versioned
  <1>2. ASSUME NEW e \in Dispatcher PROVE OneMore(e)'
    BY <1>1, OneMoreStays DEF FlightInv
  <1>3. ASSUME NEW k \in Key PROVE Sent(k)'
    <2>1. InFlight(k)' \subseteq InFlight(k)
      BY DEF InFlight
    <2>2. raises[k] = 0 => Unraised(k)'
      BY DEF FlightInv, Sent, Unraised
    <2>3. QED
      BY <2>1, <2>2, SentStays DEF FlightInv
  <1>4. QED
    BY <1>2, <1>3 DEF FlightInv
LEMMA RaiseFlight ==
  ASSUME LedgerInv, FlightInv, NEW j \in Key, Raise(j)
  PROVE  FlightInv'
  <1>1. PICK doc : doc = Raised(clock)
    OBVIOUS
  <1>2. doc \in Record /\ Write(j, doc) /\ doc.attempts = 0
    <2>1. doc.attempts = 0
      BY <1>1 DEF Raised
    <2>2. doc \in Record
      <3>1. clock \in Int
        BY DEF LedgerInv, TypeOK
      <3>2. QED
        BY <1>1, <3>1, LimitAssumption DEF Raised, Record
    <2>3. QED
      BY <1>1, <2>1, <2>2 DEF Raise
  <1>3. Versioned /\ UNCHANGED dispatcher
    BY <1>2, WriteVersioned DEF Raise, LedgerInv
  <1>4. \A d \in Dispatcher : OneMore(d)'
    BY <1>3, OneMoreStays DEF FlightInv
  <1>5. ASSUME NEW k \in Key PROVE Sent(k)'
    <2>1. InFlight(k)' = InFlight(k)
      BY <1>3 DEF InFlight
    <2>2. CASE k # j
      <3>1. UNCHANGED <<record[k], raises[k], sends[k]>>
        BY <1>2, <2>2, WriteEffect DEF Raise, LedgerInv, TypeOK
      <3>2. QED
        BY <1>3, <2>1, <3>1, SentStays DEF FlightInv, Sent, Unraised
    <2>3. CASE k = j
      <3>1. /\ record'[k] = doc /\ raises'[k] = raises[k] + 1 /\ sends'[k] = 0 /\ raises[k] \in Nat
        BY <1>2, <2>3, WriteEffect DEF Raise, LedgerInv, TypeOK
      <3>2. raises'[k] = 1 => Cardinality(InFlight(k)) = 0
        <4>1. SUFFICES ASSUME raises'[k] = 1 PROVE Cardinality(InFlight(k)) = 0
          OBVIOUS
        <4>2. raises[k] = 0
          BY <3>1, <4>1
        <4>3. InFlight(k) = {}
          BY <4>2 DEF FlightInv, Sent, Unraised, InFlight
        <4>4. QED
          BY <4>3, FS_EmptySet
      <3>3. IsFiniteSet(InFlight(k))
        BY DEF FlightInv, Sent
      <3>4. QED
        BY <1>2, <2>1, <3>1, <3>2, <3>3 DEF Sent
    <2>4. QED
      BY <2>2, <2>3
  <1>6. QED
    BY <1>4, <1>5 DEF FlightInv

LEMMA DispatchFlight ==
  ASSUME LedgerInv, FlightInv, NEW d \in Dispatcher, Dispatch(d)
  PROVE  FlightInv'
  <1>1. PICK due : due = { k \in Key : IsDue(k, clock) }
    OBVIOUS
  <1>2. PICK p \in Dispatching : p = dispatcher[d]
    BY DEF LedgerInv, TypeOK
  <1>3. /\ dispatcher'[d].phase = "sending" /\ dispatcher'[d].batch = due
        /\ dispatcher'[d].key = p.key
        /\ \A e \in Dispatcher \ {d} : dispatcher'[e] = dispatcher[e]
    BY <1>1, <1>2 DEF Dispatch, LedgerInv, TypeOK, Dispatching
  <1>4. ASSUME NEW k \in Key, raises[k] = 0
        PROVE  k \notin dispatcher'[d].batch /\ dispatcher'[d].key # k
    <2>1. Unraised(k)
      BY <1>4 DEF FlightInv, Sent
    <2>2. QED
      BY <1>1, <1>2, <1>3, <2>1 DEF Unraised, IsDue
  <1>5. QED
    BY <1>3, <1>4, FlightMove DEF Dispatch, Unwritten, OneMore, InFlight

\* On to the rest of the batch a run holds no outcome.
LEMMA NextKeyEffect ==
  ASSUME LedgerInv, NEW d \in Dispatcher, NextKey(d)
  PROVE  /\ dispatcher'[d].phase \in {"idle", "sending"} /\ dispatcher'[d].key = NoKey
         /\ dispatcher'[d].batch \subseteq dispatcher[d].batch
         /\ dispatcher'[d].phase = "idle" => dispatcher'[d] = IdleDispatcher
         /\ \A e \in Dispatcher \ {d} : dispatcher'[e] = dispatcher[e]
  <1>1. PICK q : q = IF dispatcher[d].batch \ {dispatcher[d].key} = {} THEN IdleDispatcher
                     ELSE [IdleDispatcher EXCEPT !.phase = "sending",
                             !.batch = dispatcher[d].batch \ {dispatcher[d].key},
                             !.now = dispatcher[d].now]
    OBVIOUS
  <1>2. /\ q.phase \in {"idle", "sending"} /\ q.key = NoKey /\ q.batch \subseteq dispatcher[d].batch
        /\ q.phase = "idle" => q = IdleDispatcher
    BY <1>1 DEF IdleDispatcher
  <1>3. dispatcher' = [dispatcher EXCEPT ![d] = q]
    BY <1>1 DEF NextKey
  <1>4. QED
    BY <1>2, <1>3 DEF LedgerInv, TypeOK

LEMMA NextKeyFlight ==
  ASSUME LedgerInv, FlightInv, NEW d \in Dispatcher, NextKey(d),
         UNCHANGED <<record, version, raises, sends, accepted>>
  PROVE  FlightInv'
  <1>1. ASSUME NEW k \in Key, raises[k] = 0
        PROVE  k \notin dispatcher'[d].batch /\ dispatcher'[d].key # k
    <2>1. Unraised(k) /\ k # NoKey
      BY <1>1, AbsenceAssumption DEF FlightInv, Sent
    <2>2. QED
      BY <2>1, NextKeyEffect DEF Unraised
  <1>2. OneMore(d)' /\ \A k \in Key : d \notin InFlight(k)'
    BY NextKeyEffect DEF OneMore, InFlight
  <1>3. QED
    BY <1>1, <1>2, NextKeyEffect, FlightMove

LEMMA SendFlight ==
  ASSUME LedgerInv, FlightInv, NEW d \in Dispatcher, Send(d)
  PROVE  FlightInv'
  <1>1. PICK j \in dispatcher[d].batch, outcome \in {"delivered", "failed"} :
          /\ dispatcher' = [dispatcher EXCEPT ![d].phase = "reading", ![d].key = j,
                                              ![d].outcome = outcome]
          /\ sends' = [sends EXCEPT ![j] = IF raises[j] = 1 THEN @ + 1 ELSE @]
          /\ accepted' = IF outcome = "delivered" THEN accepted \cup {j} ELSE accepted
    BY DEF Send
  <1>2. PICK p \in Dispatching : p = dispatcher[d]
    BY DEF LedgerInv, TypeOK
  <1>3. j \in Key /\ p.phase = "sending"
    BY <1>2 DEF Send, Dispatching
  <1>4. /\ dispatcher'[d].phase = "reading" /\ dispatcher'[d].key = j
        /\ dispatcher'[d].batch = p.batch
        /\ \A e \in Dispatcher \ {d} : dispatcher'[e] = dispatcher[e]
    BY <1>1, <1>2 DEF LedgerInv, TypeOK, Dispatching
  <1>5. Versioned /\ UNCHANGED <<record, raises>>
    BY <1>1 DEF Versioned, Send, Unwritten
  <1>6. \A e \in Dispatcher : OneMore(e)'
    BY <1>4, <1>5, OneMoreStays DEF FlightInv, OneMore
  <1>7. ASSUME NEW k \in Key PROVE Sent(k)'
    <2>1. raises[k] = 0 => k # j /\ Unraised(k)'
      <3>1. SUFFICES ASSUME raises[k] = 0 PROVE k # j /\ Unraised(k)'
        OBVIOUS
      <3>2. Unraised(k)
        BY <3>1 DEF FlightInv, Sent
      <3>3. k # j
        BY <1>1, <3>2 DEF Unraised
      <3>4. QED
        BY <1>2, <1>4, <1>5, <3>2, <3>3 DEF Unraised
    <2>2. CASE k # j
      <3>1. InFlight(k)' \subseteq InFlight(k)
        BY <1>4, <2>2 DEF InFlight
      <3>2. sends'[k] = sends[k]
        BY <1>1, <2>2 DEF LedgerInv, TypeOK
      <3>3. QED
        BY <1>5, <2>1, <3>1, <3>2, SentStays DEF FlightInv
    <2>3. CASE k = j
      <3>1. InFlight(k)' = InFlight(k) \cup {d} /\ d \notin InFlight(k)
        BY <1>2, <1>3, <1>4, <2>3 DEF InFlight
      <3>2. /\ IsFiniteSet(InFlight(k)')
            /\ Cardinality(InFlight(k)') = Cardinality(InFlight(k)) + 1
        BY <3>1, FS_AddElement DEF FlightInv, Sent
      <3>3. raises[k] = 1 => sends'[k] = sends[k] + 1
        BY <1>1, <1>3, <2>3 DEF LedgerInv, TypeOK
      <3>4. /\ Sent(k) /\ Cardinality(InFlight(k)) \in Nat /\ sends[k] \in Nat
            /\ record[k] # NoRecord => record[k].attempts \in Nat
        BY FlightType DEF FlightInv
      <3>5. QED
        BY <1>5, <2>1, <3>2, <3>3, <3>4 DEF Sent
    <2>4. QED
      BY <2>2, <2>3
  <1>8. QED
    BY <1>6, <1>7 DEF FlightInv
LEMMA AttemptedCounts ==
  ASSUME NEW doc \in Record, NEW outcome, NEW at
  PROVE  Attempted(doc, outcome, at).attempts = doc.attempts + 1
  <1>1. PICK tried : tried = doc.attempts + 1
    OBVIOUS
  <1>2. PICK next : next = Saturated(at + Backoff(tried))
    OBVIOUS
  <1>3. /\ [doc EXCEPT !.attempts = tried, !.delivery = "delivered", !.nextAt = 0].attempts = tried
        /\ [doc EXCEPT !.attempts = tried, !.delivery = "failed", !.nextAt = 0].attempts = tried
        /\ [doc EXCEPT !.attempts = tried, !.nextAt = next].attempts = tried
    BY DEF Record
  <1>4. QED
    BY <1>1, <1>2, <1>3 DEF Attempted

LEMMA ReadOutcomeFlight ==
  ASSUME LedgerInv, FlightInv, NEW d \in Dispatcher, ReadOutcome(d)
  PROVE  FlightInv'
  <1>1. PICK p \in Dispatching : p = dispatcher[d]
    BY DEF LedgerInv, TypeOK
  <1>2. PICK k \in Key : k = p.key
    BY <1>1 DEF ReadOutcome, LedgerInv, OutcomeHeld
  <1>3. UNCHANGED <<record, version, raises, sends, accepted>> /\ p.phase = "reading"
    BY <1>1 DEF ReadOutcome, Unwritten
  <1>4. CASE record[k] # NoRecord /\ TakesAttempt(record[k])
    <2>1. PICK new : new = Attempted(record[k], p.outcome, p.now)
      OBVIOUS
    <2>2. new.attempts = record[k].attempts + 1
      BY <1>4, <2>1, AttemptedCounts DEF LedgerInv, TypeOK
    <2>3. dispatcher' = [dispatcher EXCEPT ![d].phase = "writing", ![d].tag = version[k], ![d].doc = new]
      BY <1>1, <1>2, <1>4, <2>1 DEF ReadOutcome
    <2>4. /\ dispatcher'[d].phase = "writing" /\ dispatcher'[d].key = k
          /\ dispatcher'[d].doc = new /\ dispatcher'[d].batch = p.batch
          /\ \A e \in Dispatcher \ {d} : dispatcher'[e] = dispatcher[e]
      BY <1>1, <1>2, <2>3 DEF LedgerInv, TypeOK, Dispatching
    <2>5. OneMore(d)'
      BY <1>3, <2>2, <2>4 DEF OneMore
    <2>6. \A j \in Key : d \in InFlight(j)' => d \in InFlight(j)
      BY <1>1, <1>2, <1>3, <2>4 DEF InFlight
    <2>7. ASSUME NEW j \in Key, raises[j] = 0
          PROVE  j \notin dispatcher'[d].batch /\ dispatcher'[d].key # j
      BY <1>1, <1>2, <2>4, <2>7 DEF FlightInv, Sent, Unraised
    <2>8. QED
      BY <1>3, <2>4, <2>5, <2>6, <2>7, FlightMove
  <1>5. CASE ~(record[k] # NoRecord /\ TakesAttempt(record[k]))
    <2>1. NextKey(d)
      BY <1>1, <1>2, <1>5 DEF ReadOutcome
    <2>2. QED
      BY <1>3, <2>1, NextKeyFlight
  <1>6. QED
    BY <1>4, <1>5

LEMMA WriteOutcomeFlight ==
  ASSUME LedgerInv, FlightInv, NEW d \in Dispatcher, WriteOutcome(d)
  PROVE  FlightInv'
  <1>1. PICK p \in Dispatching : p = dispatcher[d]
    BY DEF LedgerInv, TypeOK
  <1>2. PICK j \in Key : j = p.key
    BY <1>1 DEF WriteOutcome, LedgerInv, OutcomeHeld
  <1>3. /\ p.phase = "writing" /\ p.doc \in Record /\ Good(j, p.doc)
        /\ UNCHANGED <<raises, sends, accepted>>
    BY <1>1, <1>2 DEF WriteOutcome, LedgerInv, OutcomeHeld
  <1>4. CASE TagHolds(j, p.tag)
    <2>1. Write(j, p.doc) /\ NextKey(d)
      BY <1>1, <1>2, <1>4 DEF WriteOutcome
    <2>2. /\ p.doc.attempts = record[j].attempts + 1 /\ record[j] # NoRecord
          /\ d \in InFlight(j) /\ raises[j] # 0
      BY <1>1, <1>2, <1>3, <1>4 DEF FlightInv, OneMore, InFlight, TagHolds, Sent, Unraised
    <2>3. Versioned
      BY <1>3, <2>1, WriteVersioned DEF LedgerInv
    <2>4. /\ \A e \in Dispatcher \ {d} : dispatcher'[e] = dispatcher[e]
          /\ dispatcher'[d].phase \in {"idle", "sending"} /\ dispatcher'[d].key = NoKey
          /\ dispatcher'[d].batch \subseteq p.batch
      BY <1>1, <2>1, NextKeyEffect
    <2>5. \A e \in Dispatcher : OneMore(e)'
      BY <2>3, <2>4, OneMoreStays DEF FlightInv, OneMore
    <2>6. ASSUME NEW k \in Key PROVE Sent(k)'
      <3>1. InFlight(k)' = InFlight(k) \ {d}
        BY <2>4 DEF InFlight
      <3>2. CASE k # j
        <4>1. record'[k] = record[k]
          BY <1>3, <2>1, <3>2, WriteEffect DEF LedgerInv
        <4>2. raises[k] = 0 => Unraised(k)'
          <5>1. SUFFICES ASSUME raises[k] = 0 PROVE Unraised(k)'
            OBVIOUS
          <5>2. Unraised(k) /\ k # NoKey
            BY <5>1, AbsenceAssumption DEF FlightInv, Sent
          <5>3. QED
            BY <1>1, <2>4, <4>1, <5>2 DEF Unraised
        <4>3. QED
          BY <1>3, <3>1, <4>1, <4>2, SentStays DEF FlightInv
      <3>3. CASE k = j
        <4>1. record'[k] = p.doc /\ raises'[k] = raises[k] /\ sends'[k] = sends[k]
          BY <1>3, <2>1, <3>3, WriteEffect DEF LedgerInv
        <4>2. /\ IsFiniteSet(InFlight(k)')
              /\ Cardinality(InFlight(k)') = Cardinality(InFlight(k)) - 1
          BY <2>2, <3>1, <3>3, FS_RemoveElement DEF FlightInv, Sent
        <4>3. /\ Sent(k) /\ Cardinality(InFlight(k)) \in Nat /\ sends[k] \in Nat
              /\ record[k].attempts \in Nat
          BY <2>2, <3>3, FlightType DEF FlightInv
        <4>4. QED
          BY <2>2, <3>3, <4>1, <4>2, <4>3 DEF Sent
      <3>4. QED
        BY <3>2, <3>3
    <2>7. QED
      BY <2>5, <2>6 DEF FlightInv
  <1>5. CASE ~TagHolds(j, p.tag)
    <2>1. Unwritten
      BY <1>1, <1>2, <1>5 DEF WriteOutcome
    <2>2. CASE NextKey(d)
      BY <1>3, <2>1, <2>2, NextKeyFlight DEF Unwritten
    <2>3. CASE dispatcher' = [dispatcher EXCEPT ![d] = IdleDispatcher]
      <3>1. \A e \in Dispatcher : dispatcher'[e] = dispatcher[e] \/ dispatcher'[e] = IdleDispatcher
        BY <2>3 DEF LedgerInv, TypeOK
      <3>2. QED
        BY <1>3, <2>1, <3>1, FlightQuiet DEF Unwritten, Versioned
    <2>4. QED
      BY <1>1, <1>2, <1>5, <2>2, <2>3 DEF WriteOutcome
  <1>6. QED
    BY <1>4, <1>5

LEMMA AcknowledgementFlight ==
  ASSUME LedgerInv, FlightInv, NEW o \in Operator, WriteAcknowledgement(o)
  PROVE  FlightInv'
  <1>1. PICK p \in Acknowledging : p = operator[o]
    BY DEF LedgerInv, TypeOK
  <1>2. PICK j \in Key : j = p.key
    BY <1>1 DEF WriteAcknowledgement, LedgerInv, AcknowledgementHeld
  <1>3. CASE TagHolds(j, p.tag)
    <2>1. /\ p.doc \in Record /\ p.doc.attempts = record[j].attempts /\ record[j] # NoRecord
      BY <1>1, <1>2, <1>3 DEF WriteAcknowledgement, LedgerInv, AcknowledgementHeld, TagHolds
    <2>2. Write(j, p.doc) /\ UNCHANGED <<dispatcher, raises, sends, accepted>>
      BY <1>1, <1>2, <1>3 DEF WriteAcknowledgement
    <2>3. QED
      BY <2>1, <2>2, WriteEffect, WriteVersioned, FlightQuiet DEF LedgerInv
  <1>4. CASE ~TagHolds(j, p.tag)
    BY <1>1, <1>2, <1>4, FlightQuiet DEF WriteAcknowledgement, Unwritten, Versioned
  <1>5. QED
    BY <1>3, <1>4

LEMMA RemovalFlight ==
  ASSUME LedgerInv, FlightInv, NEW s \in Sweeper, DeleteExpired(s)
  PROVE  FlightInv'
  <1>1. PICK j \in Key : j = sweeper[s].key
    BY DEF DeleteExpired, LedgerInv, RemovalHeld
  <1>2. UNCHANGED <<dispatcher, raises, sends, accepted>>
    BY DEF DeleteExpired
  <1>3. CASE Write(j, NoRecord)
    BY <1>2, <1>3, WriteEffect, WriteVersioned, FlightQuiet DEF LedgerInv
  <1>4. CASE Unwritten
    BY <1>2, <1>4, FlightQuiet DEF Unwritten, Versioned
  <1>5. QED
    BY <1>1, <1>3, <1>4 DEF DeleteExpired

LEMMA FlightStep ==
  ASSUME LedgerInv, FlightInv, [Next]_vars
  PROVE  FlightInv'
  <1>1. CASE Advance \/ UNCHANGED vars
    BY <1>1, FlightQuiet DEF Advance, Unwritten, vars, Versioned
  <1>2. CASE Crash
    <2>1. \A e \in Dispatcher : dispatcher'[e] = dispatcher[e] \/ dispatcher'[e] = IdleDispatcher
      BY <1>2 DEF Crash, LedgerInv, TypeOK
    <2>2. QED
      BY <1>2, <2>1, FlightQuiet DEF Crash, Unwritten, Versioned
  <1>3. ASSUME NEW d \in Dispatcher, Deliver(d) PROVE FlightInv'
    BY <1>3, DispatchFlight, SendFlight, ReadOutcomeFlight, WriteOutcomeFlight DEF Deliver
  <1>4. ASSUME NEW d \in Dispatcher, Quit(d) PROVE FlightInv'
    <2>1. \A e \in Dispatcher : dispatcher'[e] = dispatcher[e] \/ dispatcher'[e] = IdleDispatcher
      BY <1>4 DEF Quit, LedgerInv, TypeOK
    <2>2. QED
      BY <1>4, <2>1, FlightQuiet DEF Quit, Unwritten, Versioned
  <1>5. ASSUME NEW o \in Operator, ReadToAcknowledge(o) PROVE FlightInv'
    BY <1>5, FlightQuiet DEF ReadToAcknowledge, Unwritten, Versioned
  <1>6. ASSUME NEW s \in Sweeper, PlanRetention(s) \/ ReadExpired(s) PROVE FlightInv'
    BY <1>6, FlightQuiet DEF PlanRetention, ReadExpired, Unwritten, Versioned
  <1>7. QED
    BY <1>1, <1>2, <1>3, <1>4, <1>5, <1>6, RaiseFlight, AcknowledgementFlight, RemovalFlight
       DEF Next, Retain

\* What is recorded and what is still to be recorded were both sent.
THEOREM LedgerFlight == Spec => []FlightInv
  BY FlightInit, FlightStep, LedgerInvariant, PTL DEF Spec

\* A notification raised once counts no more attempts than were sent, however
\* many runs pick it up together and whoever is lost.
THEOREM LedgerAttempts == Spec => []AttemptsWereSent
  <1>1. LedgerInv /\ FlightInv => AttemptsWereSent
    <2>1. SUFFICES ASSUME LedgerInv, FlightInv, NEW k \in Stored, raises[k] = 1
                   PROVE  record[k].attempts <= sends[k]
      BY DEF AttemptsWereSent
    <2>2. k \in Key /\ record[k] # NoRecord
      BY <2>1 DEF Stored
    <2>3. Sent(k)
      BY <2>1, <2>2 DEF FlightInv
    <2>4. record[k].attempts + Cardinality(InFlight(k)) <= sends[k]
      BY <2>1, <2>2, <2>3 DEF Sent
    <2>5. /\ record[k].attempts \in Nat /\ sends[k] \in Nat /\ Cardinality(InFlight(k)) \in Nat
      BY <2>1, <2>2, <2>3, FlightType
    <2>6. QED
      BY <2>4, <2>5
  <1>2. QED
    BY <1>1, LedgerInvariant, LedgerFlight, PTL
-----------------------------------------------------------------------------
(***************************************************************************)
(* Where a run sends to.  NotificationChannel takes the ledger's steps and *)
(* adds the recipient, so what is proved of the ledger holds of it too.    *)
(***************************************************************************)

\* A step with channels is a step of the ledger, or none.
LEMMA ChannelStep == [ChannelNext]_everything => [Next]_vars
  <1> SUFFICES ASSUME [ChannelNext]_everything PROVE [Next]_vars
    OBVIOUS
  <1>1. CASE UNCHANGED everything
    BY <1>1 DEF everything
  <1>2. ASSUME NEW c \in Chooser, ReadChoice(c) \/ WriteChoice(c) PROVE UNCHANGED vars
    BY <1>2 DEF ReadChoice, WriteChoice
  <1>3. ASSUME NEW d \in Dispatcher, Run(d) PROVE [Next]_vars
    <2>1. CASE Find(d)
      BY <2>1 DEF Find, Next, Deliver
    <2>2. CASE Resolve(d)
      BY <2>2 DEF Resolve, Unsent, Next
    <2>3. CASE SendTo(d)
      BY <2>3 DEF SendTo, Next, Deliver
    <2>4. CASE RecordOutcome(d)
      BY <2>4 DEF RecordOutcome, Next, Deliver
    <2>5. QED
      BY <1>3, <2>1, <2>2, <2>3, <2>4 DEF Run
  <1>4. CASE Lose
    BY <1>4 DEF Lose, Next
  <1>5. CASE Others
    BY <1>5 DEF Others, Next
  <1>6. QED
    BY <1>1, <1>2, <1>3, <1>4, <1>5 DEF ChannelNext

\* The ledger with channels implements the ledger.
THEOREM ChannelImplementsLedger == ChannelSpec => Spec
  <1>1. ChannelInit => Init
    BY DEF ChannelInit
  <1>2. QED
    BY <1>1, ChannelStep, PTL DEF ChannelSpec, Spec

\* What is proved of the ledger, of the specification that is checked.
THEOREM ChannelSafety ==
  ChannelSpec => []DeliveredWasAccepted /\ []AttemptsWereSent /\ SettledIsFinal
  BY ChannelImplementsLedger, LedgerDelivered, LedgerAttempts, LedgerFinal, PTL

\* The same with the channels: however many retention passes overlap.
THEOREM ChannelRemoval == ChannelSpec => RemovedWasAcknowledged
  BY ChannelImplementsLedger, LedgerRemoval, PTL

AnyRecipient == Recipient \cup {NoRecipient}

ChannelTypes ==
  /\ channel \in AnyRecipient /\ deployed \in AnyRecipient
  /\ sending \in [Dispatcher -> AnyRecipient]
  /\ inForce \in [Dispatcher -> SUBSET AnyRecipient]

\* A run that is over sends to nobody; the recipient in force now was in force
\* during every run that is not.
RunHeld(d) ==
  /\ dispatcher[d].phase = "idle" => dispatcher[d] = IdleDispatcher /\ sending[d] = NoRecipient
  /\ dispatcher[d].phase # "idle" => ResolveChannel \in inForce[d]
  /\ sending[d] # NoRecipient => sending[d] \in inForce[d]

ChannelInv == ChannelTypes /\ \A d \in Dispatcher : RunHeld(d)

LEMMA ChannelInitInv == ChannelInit => ChannelInv
  BY RecipientAssumption
     DEF ChannelInit, Init, ChannelInv, ChannelTypes, AnyRecipient, RunHeld, IdleDispatcher

\* A run that does not move keeps what it found, when nobody chooses.
LEMMA RunStays ==
  ASSUME NEW d \in Dispatcher, RunHeld(d), dispatcher'[d] = dispatcher[d],
         sending'[d] = sending[d], inForce'[d] = inForce[d], UNCHANGED <<channel, deployed>>
  PROVE  RunHeld(d)'
  BY DEF RunHeld, ResolveChannel

\* A run that is over leaves nothing behind.
LEMMA RunOver ==
  ASSUME NEW d \in Dispatcher, dispatcher'[d] = IdleDispatcher, sending'[d] = NoRecipient
  PROVE  RunHeld(d)'
  BY DEF RunHeld, IdleDispatcher

LEMMA WriteChoiceHeld ==
  ASSUME LedgerInv, ChannelInv, NEW c \in Chooser, WriteChoice(c)
  PROVE  ChannelInv'
  <1>1. CASE UNCHANGED <<channel, inForce>>
    BY <1>1, RunStays DEF WriteChoice, vars, ChannelInv, ChannelTypes
  <1>2. ASSUME NEW r \in Recipient, channel' = r,
               inForce' = [d \in Dispatcher |->
                   IF dispatcher[d] = IdleDispatcher THEN {} ELSE inForce[d] \cup {r}]
        PROVE  ChannelInv'
    <2>1. UNCHANGED <<dispatcher, deployed, sending>> /\ r # NoRecipient
      BY RecipientAssumption DEF WriteChoice, vars
    <2>2. ChannelTypes'
      BY <1>2, <2>1 DEF ChannelInv, ChannelTypes, AnyRecipient
    <2>3. ResolveChannel' = r
      BY <1>2, <2>1 DEF ResolveChannel
    <2>4. ASSUME NEW d \in Dispatcher PROVE RunHeld(d)'
      <3>1. CASE dispatcher[d] = IdleDispatcher
        BY <2>1, <3>1, RunOver DEF ChannelInv, RunHeld, IdleDispatcher
      <3>2. CASE dispatcher[d] # IdleDispatcher
        <4>1. dispatcher[d].phase # "idle" /\ inForce'[d] = inForce[d] \cup {r}
          BY <1>2, <3>2 DEF ChannelInv, RunHeld
        <4>2. QED
          BY <2>1, <2>3, <4>1 DEF ChannelInv, RunHeld
      <3>3. QED
        BY <3>1, <3>2
    <2>5. QED
      BY <2>2, <2>4 DEF ChannelInv
  <1>3. QED
    BY <1>1, <1>2 DEF WriteChoice

LEMMA FindHeld ==
  ASSUME LedgerInv, ChannelInv, NEW d \in Dispatcher, Find(d)
  PROVE  ChannelInv'
  <1>1. /\ dispatcher[d].phase = "idle" /\ dispatcher'[d].phase = "sending"
        /\ \A e \in Dispatcher \ {d} : dispatcher'[e] = dispatcher[e]
    BY DEF Find, Dispatch, LedgerInv, TypeOK, Dispatching
  <1>2. /\ inForce'[d] = {ResolveChannel}
        /\ \A e \in Dispatcher \ {d} : inForce'[e] = inForce[e]
        /\ inForce' \in [Dispatcher -> SUBSET AnyRecipient]
        /\ UNCHANGED <<channel, deployed, sending>>
    BY DEF Find, ResolveChannel, ChannelInv, ChannelTypes
  <1>3. RunHeld(d)'
    BY <1>1, <1>2 DEF RunHeld, ChannelInv, ResolveChannel
  <1>4. \A e \in Dispatcher : RunHeld(e)'
    BY <1>1, <1>2, <1>3, RunStays DEF ChannelInv
  <1>5. QED
    BY <1>2, <1>4 DEF ChannelInv, ChannelTypes

\* A run settles: it is over, or it keeps what it was sending to.
LEMMA SettleHeld ==
  ASSUME LedgerInv, ChannelInv, NEW d \in Dispatcher, Settle(d),
         \A e \in Dispatcher \ {d} : dispatcher'[e] = dispatcher[e],
         dispatcher'[d].phase = "idle" => dispatcher'[d] = IdleDispatcher,
         dispatcher[d].phase # "idle", UNCHANGED <<channel, deployed>>
  PROVE  ChannelInv'
  <1>1. CASE dispatcher'[d] = IdleDispatcher
    <2>1. /\ sending'[d] = NoRecipient
          /\ \A e \in Dispatcher \ {d} : sending'[e] = sending[e] /\ inForce'[e] = inForce[e]
          /\ sending' \in [Dispatcher -> AnyRecipient]
          /\ inForce' \in [Dispatcher -> SUBSET AnyRecipient]
      BY <1>1 DEF Settle, ChannelInv, ChannelTypes, AnyRecipient
    <2>2. \A e \in Dispatcher : RunHeld(e)'
      BY <1>1, <2>1, RunOver, RunStays DEF ChannelInv
    <2>3. QED
      BY <2>1, <2>2 DEF ChannelInv, ChannelTypes
  <1>2. CASE dispatcher'[d] # IdleDispatcher
    <2>1. UNCHANGED <<sending, inForce>> /\ dispatcher'[d].phase # "idle"
      BY <1>2 DEF Settle
    <2>2. RunHeld(d)'
      BY <2>1 DEF ChannelInv, RunHeld, ResolveChannel
    <2>3. QED
      BY <2>1, <2>2, RunStays DEF ChannelInv, ChannelTypes
  <1>3. QED
    BY <1>1, <1>2

LEMMA ResolveHeld ==
  ASSUME LedgerInv, ChannelInv, NEW d \in Dispatcher, Resolve(d)
  PROVE  ChannelInv'
  <1>1. CASE ResolveChannel = NoRecipient
    <2>1. /\ \A e \in Dispatcher \ {d} : dispatcher'[e] = dispatcher[e]
          /\ dispatcher'[d] = IdleDispatcher /\ dispatcher[d].phase # "idle"
      BY <1>1 DEF Resolve, Unsent, Quit, LedgerInv, TypeOK
    <2>2. QED
      BY <1>1, <2>1, SettleHeld DEF Resolve, Unsent
  <1>2. CASE ResolveChannel # NoRecipient
    <2>1. /\ sending' = [sending EXCEPT ![d] = ResolveChannel]
          /\ UNCHANGED <<dispatcher, inForce, channel, deployed>> /\ dispatcher[d].phase # "idle"
      BY <1>2 DEF Resolve, vars
    <2>2. ResolveChannel \in AnyRecipient
      BY DEF ChannelInv, ChannelTypes, ResolveChannel
    <2>3. /\ sending' \in [Dispatcher -> AnyRecipient] /\ sending'[d] = ResolveChannel
          /\ \A e \in Dispatcher \ {d} : sending'[e] = sending[e]
      BY <2>1, <2>2 DEF ChannelInv, ChannelTypes
    <2>4. RunHeld(d)'
      BY <2>1, <2>3 DEF ChannelInv, RunHeld, ResolveChannel
    <2>5. \A e \in Dispatcher : RunHeld(e)'
      BY <2>1, <2>3, <2>4, RunStays DEF ChannelInv
    <2>6. QED
      BY <2>1, <2>3, <2>5 DEF ChannelInv, ChannelTypes
  <1>3. QED
    BY <1>1, <1>2

LEMMA SendToHeld ==
  ASSUME LedgerInv, ChannelInv, NEW d \in Dispatcher, SendTo(d)
  PROVE  ChannelInv'
  <1>1. /\ dispatcher[d].phase # "idle" /\ dispatcher'[d].phase # "idle"
        /\ \A e \in Dispatcher \ {d} : dispatcher'[e] = dispatcher[e]
        /\ UNCHANGED <<channel, deployed, sending, inForce>>
    BY DEF SendTo, Send, channelVars, LedgerInv, TypeOK, Dispatching
  <1>2. RunHeld(d)'
    BY <1>1 DEF ChannelInv, RunHeld, ResolveChannel
  <1>3. QED
    BY <1>1, <1>2, RunStays DEF ChannelInv, ChannelTypes

LEMMA RecordOutcomeHeld ==
  ASSUME LedgerInv, ChannelInv, NEW d \in Dispatcher, RecordOutcome(d)
  PROVE  ChannelInv'
  <1>1. /\ dispatcher[d].phase # "idle"
        /\ \A e \in Dispatcher \ {d} : dispatcher'[e] = dispatcher[e]
        /\ dispatcher'[d].phase = "idle" => dispatcher'[d] = IdleDispatcher
    <2>1. CASE NextKey(d)
      BY <2>1, NextKeyEffect DEF RecordOutcome, ReadOutcome, WriteOutcome
    <2>2. CASE ReadOutcome(d) /\ ~NextKey(d)
      <3>1. PICK k, new : dispatcher' = [dispatcher EXCEPT
              ![d].phase = "writing", ![d].tag = version[k], ![d].doc = new]
        BY <2>2 DEF ReadOutcome
      <3>2. QED
        BY <2>2, <3>1 DEF ReadOutcome, LedgerInv, TypeOK, Dispatching
    <2>3. CASE WriteOutcome(d) /\ ~NextKey(d)
      BY <2>3 DEF WriteOutcome, LedgerInv, TypeOK
    <2>4. QED
      BY <2>1, <2>2, <2>3 DEF RecordOutcome
  <1>2. QED
    BY <1>1, SettleHeld DEF RecordOutcome

LEMMA LoseHeld ==
  ASSUME LedgerInv, ChannelInv, Lose
  PROVE  ChannelInv'
  <1>1. \A d \in Dispatcher : dispatcher'[d] = dispatcher[d] \/ dispatcher'[d] = IdleDispatcher
    BY DEF Lose, Crash, LedgerInv, TypeOK
  <1>2. ASSUME NEW d \in Dispatcher PROVE RunHeld(d)'
    <2>1. CASE dispatcher'[d] = IdleDispatcher
      BY <2>1, RunOver DEF Lose
    <2>2. CASE dispatcher'[d] # IdleDispatcher
      BY <1>1, <2>2, RunStays DEF Lose, ChannelInv
    <2>3. QED
      BY <2>1, <2>2
  <1>3. ChannelTypes'
    BY DEF Lose, ChannelInv, ChannelTypes, AnyRecipient
  <1>4. QED
    BY <1>2, <1>3 DEF ChannelInv

LEMMA ChannelStepInv ==
  ASSUME LedgerInv, ChannelInv, [ChannelNext]_everything
  PROVE  ChannelInv'
  <1>1. CASE UNCHANGED <<dispatcher, channel, deployed, sending, inForce>>
    BY <1>1, RunStays DEF ChannelInv, ChannelTypes
  <1>2. CASE Others /\ UNCHANGED channelVars
    BY <1>1, <1>2 DEF Others, channelVars, Advance, Raise, ReadToAcknowledge, WriteAcknowledgement,
                      Retain, PlanRetention, ReadExpired, DeleteExpired
  <1>3. CASE UNCHANGED everything
    BY <1>1, <1>3 DEF everything, vars, channelVars
  <1>4. ASSUME NEW c \in Chooser, ReadChoice(c) PROVE ChannelInv'
    BY <1>1, <1>4 DEF ReadChoice, vars
  <1>5. QED
    BY <1>2, <1>3, <1>4, WriteChoiceHeld, FindHeld, ResolveHeld, SendToHeld, RecordOutcomeHeld,
       LoseHeld DEF ChannelNext, Run

\* Whoever a run sends to was in force at some instant of that run.
THEOREM ChannelRecipient == ChannelSpec => []RecipientTakesOver
  <1>1. ChannelSpec => []LedgerInv
    BY ChannelImplementsLedger, LedgerInvariant, PTL
  <1>2. ChannelInv => RecipientTakesOver
    BY DEF ChannelInv, RunHeld, RecipientTakesOver
  <1>3. QED
    BY <1>1, <1>2, ChannelInitInv, ChannelStepInv, PTL DEF ChannelSpec
===============================================================================
