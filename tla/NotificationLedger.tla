-------------------------- MODULE NotificationLedger --------------------------
(***************************************************************************)
(* Notifications from the moment they are raised until they are removed:   *)
(* sweeps raise them, dispatchers send the due ones and record what the    *)
(* channel said, operators acknowledge, and the retention sweep removes    *)
(* what was closed long enough ago.  A record is created only when absent  *)
(* and otherwise replaced or deleted under the tag it was read with; a     *)
(* worker may be lost between any two store or channel calls.              *)
(*                                                                         *)
(* The facts behind the keys keep standing, so the hourly sweeps plan them *)
(* again whenever no record exists; since the write is create-only,        *)
(* reading what was already raised and raising the rest is one step.       *)
(* Instants past MaxClock count as MaxClock.  Where a run sends to is left *)
(* to NotificationChannel, which also says when the workers are scheduled. *)
(***************************************************************************)
EXTENDS Integers

CONSTANTS
  Key,           \* facts that earn a notification
  Dispatcher,    \* dispatch runs that may overlap
  Operator,      \* acknowledgement requests that may overlap
  Sweeper,       \* retention passes that may overlap
  NoRecord,      \* no record stored for a key
  NoKey,         \* a worker that is not at a key
  MaxAttempts,   \* recorded attempts after which delivery is given up
  FirstBackoff,  \* wait after the first failed attempt
  Retention,     \* how long an acknowledged record is kept
  MaxClock,      \* bound: the clock saturates here
  MaxRaise,      \* bound: times one key is raised
  MaxCrash       \* bound: workers lost

ASSUME LimitAssumption == /\ MaxAttempts \in Nat \ {0}
                          /\ FirstBackoff \in Nat \ {0}
                          /\ Retention \in Nat \ {0}
ASSUME NotificationBound == MaxClock \in Nat /\ MaxRaise \in Nat /\ MaxCrash \in Nat

\* closedAt is read only once a record is acknowledged, nextAt only while it
\* is pending; both are 0 otherwise.
Record == [delivery : {"pending", "delivered", "failed"}, attempts : Nat, nextAt : Int,
           acknowledged : BOOLEAN, closedAt : Int]

ASSUME AbsenceAssumption == NoRecord \notin Record /\ NoKey \notin Key

VARIABLES
  clock,        \* the shared clock
  record,       \* record[k]: the stored notification, or NoRecord
  version,      \* version[k]: counts the writes to k's document; its entity tag
  dispatcher,   \* dispatcher[d]: what a dispatch run knows
  operator,     \* operator[o]: what an acknowledgement knows
  sweeper,      \* sweeper[s]: what a retention pass knows
  crashes,      \* workers lost
  raises,       \* raises[k]: times k was raised (history)
  sends,        \* sends[k]: times k was sent before it was raised again (history)
  accepted      \* keys the channel accepted at least once (history)

vars == <<clock, record, version, dispatcher, operator, sweeper, crashes, raises, sends, accepted>>

Stored == { k \in Key : record[k] # NoRecord }

Saturated(instant) == IF instant > MaxClock THEN MaxClock ELSE instant

-----------------------------------------------------------------------------
(* What happens to a record *)

Raised(now) == [delivery |-> "pending", attempts |-> 0, nextAt |-> now,
                acknowledged |-> FALSE, closedAt |-> 0]

TakesAttempt(doc) == ~doc.acknowledged /\ doc.delivery = "pending"

Backoff(attempts) == FirstBackoff * 2 ^ (attempts - 1)

Attempted(doc, outcome, at) ==
  LET tried == doc.attempts + 1
  IN  IF outcome = "delivered"
        THEN [doc EXCEPT !.attempts = tried, !.delivery = "delivered", !.nextAt = 0]
      ELSE IF tried >= MaxAttempts
        THEN [doc EXCEPT !.attempts = tried, !.delivery = "failed", !.nextAt = 0]
      ELSE [doc EXCEPT !.attempts = tried, !.nextAt = Saturated(at + Backoff(tried))]

\* Mutant: what is still owed can be closed.
MayAcknowledgePending(doc) == ~doc.acknowledged

MayAcknowledge(doc) == ~doc.acknowledged /\ doc.delivery # "pending"

Acknowledged(doc, at) == [doc EXCEPT !.acknowledged = TRUE, !.closedAt = at]

\* Mutant: a record expires by its age alone.
ExpiredByAge(doc, now) == now - doc.closedAt > Retention

Expired(doc, now) == doc.acknowledged /\ now - doc.closedAt > Retention

\* Mutant: only what was never attempted is picked up.
DueFirstOnly(k, now) ==
  /\ record[k] # NoRecord /\ record[k].delivery = "pending"
  /\ record[k].attempts = 0 /\ record[k].nextAt <= now

IsDue(k, now) == record[k] # NoRecord /\ record[k].delivery = "pending" /\ record[k].nextAt <= now

-----------------------------------------------------------------------------
(* The store *)

TagHolds(k, tag) == record[k] # NoRecord /\ version[k] = tag

Write(k, doc) == /\ record' = [record EXCEPT ![k] = doc]
                 /\ version' = [version EXCEPT ![k] = @ + 1]

Unwritten == UNCHANGED <<record, version>>

-----------------------------------------------------------------------------
(* Raising *)

Raise(k) ==
  /\ record[k] = NoRecord
  /\ raises[k] < MaxRaise
  /\ Write(k, Raised(clock))
  /\ raises' = [raises EXCEPT ![k] = @ + 1]
  /\ sends' = [sends EXCEPT ![k] = 0]
  /\ UNCHANGED <<clock, dispatcher, operator, sweeper, crashes, accepted>>

-----------------------------------------------------------------------------
(* Dispatching *)

IdleDispatcher == [phase |-> "idle", now |-> 0, batch |-> {}, key |-> NoKey,
                   outcome |-> "none", tag |-> 0, doc |-> NoRecord]

Dispatch(d) ==
  /\ dispatcher[d].phase = "idle"
  /\ \E k \in Key : IsDue(k, clock)
  /\ dispatcher' = [dispatcher EXCEPT ![d].phase = "sending", ![d].now = clock,
                                      ![d].batch = { k \in Key : IsDue(k, clock) }]
  /\ Unwritten
  /\ UNCHANGED <<clock, operator, sweeper, crashes, raises, sends, accepted>>

\* The run ends: no channel is chosen, or the choice cannot be read.
Quit(d) ==
  /\ dispatcher[d].phase = "sending"
  /\ dispatcher' = [dispatcher EXCEPT ![d] = IdleDispatcher]
  /\ Unwritten
  /\ UNCHANGED <<clock, operator, sweeper, crashes, raises, sends, accepted>>

\* The channel answers or throws; a request that timed out may still have arrived.
Send(d) ==
  /\ dispatcher[d].phase = "sending"
  /\ \E k \in dispatcher[d].batch, outcome \in {"delivered", "failed"} :
       /\ dispatcher' = [dispatcher EXCEPT ![d].phase = "reading", ![d].key = k,
                                           ![d].outcome = outcome]
       /\ sends' = [sends EXCEPT ![k] = IF raises[k] = 1 THEN @ + 1 ELSE @]
       /\ accepted' = IF outcome = "delivered" THEN accepted \cup {k} ELSE accepted
  /\ Unwritten
  /\ UNCHANGED <<clock, operator, sweeper, crashes, raises>>

\* On to the rest of the batch.
NextKey(d) ==
  LET rest == dispatcher[d].batch \ {dispatcher[d].key}
  IN  dispatcher' = [dispatcher EXCEPT
        ![d] = IF rest = {} THEN IdleDispatcher
               ELSE [IdleDispatcher EXCEPT !.phase = "sending", !.batch = rest,
                                           !.now = dispatcher[d].now]]

ReadOutcome(d) ==
  /\ dispatcher[d].phase = "reading"
  /\ LET k == dispatcher[d].key
     IN  IF record[k] # NoRecord /\ TakesAttempt(record[k])
           THEN dispatcher' = [dispatcher EXCEPT
                  ![d].phase = "writing",
                  ![d].tag = version[k],
                  ![d].doc = Attempted(record[k], dispatcher[d].outcome, dispatcher[d].now)]
           ELSE NextKey(d)
  /\ Unwritten
  /\ UNCHANGED <<clock, operator, sweeper, crashes, raises, sends, accepted>>

\* A record that changed meanwhile keeps what it has; one that is gone fails
\* the replace, which ends the run.
WriteOutcome(d) ==
  /\ dispatcher[d].phase = "writing"
  /\ LET k == dispatcher[d].key
     IN  IF TagHolds(k, dispatcher[d].tag)
           THEN Write(k, dispatcher[d].doc) /\ NextKey(d)
         ELSE /\ Unwritten
              /\ IF record[k] = NoRecord
                   THEN dispatcher' = [dispatcher EXCEPT ![d] = IdleDispatcher]
                   ELSE NextKey(d)
  /\ UNCHANGED <<clock, operator, sweeper, crashes, raises, sends, accepted>>

-----------------------------------------------------------------------------
(* Acknowledging *)

IdleOperator == [phase |-> "idle", key |-> NoKey, tag |-> 0, doc |-> NoRecord]

ReadToAcknowledge(o) ==
  /\ operator[o].phase = "idle"
  /\ \E k \in Stored :
       /\ MayAcknowledge(record[k])
       /\ operator' = [operator EXCEPT
            ![o] = [phase |-> "writing", key |-> k, tag |-> version[k],
                    doc |-> Acknowledged(record[k], clock)]]
  /\ Unwritten
  /\ UNCHANGED <<clock, dispatcher, sweeper, crashes, raises, sends, accepted>>

WriteAcknowledgement(o) ==
  /\ operator[o].phase = "writing"
  /\ LET k == operator[o].key
     IN  IF TagHolds(k, operator[o].tag) THEN Write(k, operator[o].doc) ELSE Unwritten
  /\ operator' = [operator EXCEPT ![o] = IdleOperator]
  /\ UNCHANGED <<clock, dispatcher, sweeper, crashes, raises, sends, accepted>>

-----------------------------------------------------------------------------
(* Retention *)

\* planned[k] is the number of times k had been raised when the pass decided
\* what to remove (history).
IdleSweeper == [phase |-> "idle", batch |-> {}, key |-> NoKey, tag |-> 0,
                planned |-> [k \in Key |-> 0]]

PlanRetention(s) ==
  /\ sweeper[s].phase = "idle"
  /\ \E k \in Stored : Expired(record[k], clock)
  /\ sweeper' = [sweeper EXCEPT
       ![s] = [IdleSweeper EXCEPT !.phase = "reading",
                                  !.batch = { k \in Stored : Expired(record[k], clock) },
                                  !.planned = raises]]
  /\ Unwritten
  /\ UNCHANGED <<clock, dispatcher, operator, crashes, raises, sends, accepted>>

NextExpired(s, k) ==
  LET rest == sweeper[s].batch \ {k}
  IN  sweeper' = [sweeper EXCEPT
        ![s] = IF rest = {} THEN IdleSweeper
               ELSE [IdleSweeper EXCEPT !.phase = "reading", !.batch = rest,
                                        !.planned = sweeper[s].planned]]

ReadExpired(s) ==
  /\ sweeper[s].phase = "reading"
  /\ \E k \in sweeper[s].batch :
       IF record[k] = NoRecord THEN NextExpired(s, k)
       ELSE sweeper' = [sweeper EXCEPT ![s].phase = "deleting", ![s].key = k,
                                       ![s].tag = version[k]]
  /\ Unwritten
  /\ UNCHANGED <<clock, dispatcher, operator, crashes, raises, sends, accepted>>

DeleteExpired(s) ==
  /\ sweeper[s].phase = "deleting"
  /\ LET k == sweeper[s].key
     IN  /\ IF TagHolds(k, sweeper[s].tag) THEN Write(k, NoRecord) ELSE Unwritten
         /\ NextExpired(s, k)
  /\ UNCHANGED <<clock, dispatcher, operator, crashes, raises, sends, accepted>>

-----------------------------------------------------------------------------
(* The system *)

Crash ==
  /\ crashes < MaxCrash
  /\ crashes' = crashes + 1
  /\ \/ /\ \E d \in Dispatcher : dispatcher' = [dispatcher EXCEPT ![d] = IdleDispatcher]
        /\ UNCHANGED <<operator, sweeper>>
     \/ /\ \E o \in Operator : operator' = [operator EXCEPT ![o] = IdleOperator]
        /\ UNCHANGED <<dispatcher, sweeper>>
     \/ /\ \E s \in Sweeper : sweeper' = [sweeper EXCEPT ![s] = IdleSweeper]
        /\ UNCHANGED <<dispatcher, operator>>
  /\ Unwritten
  /\ UNCHANGED <<clock, raises, sends, accepted>>

Advance ==
  /\ clock < MaxClock
  /\ clock' = clock + 1
  /\ Unwritten
  /\ UNCHANGED <<dispatcher, operator, sweeper, crashes, raises, sends, accepted>>

Init ==
  /\ clock = 0
  /\ record = [k \in Key |-> NoRecord]
  /\ version = [k \in Key |-> 0]
  /\ dispatcher = [d \in Dispatcher |-> IdleDispatcher]
  /\ operator = [o \in Operator |-> IdleOperator]
  /\ sweeper = [s \in Sweeper |-> IdleSweeper]
  /\ crashes = 0
  /\ raises = [k \in Key |-> 0]
  /\ sends = [k \in Key |-> 0]
  /\ accepted = {}

Deliver(d) == Dispatch(d) \/ Send(d) \/ ReadOutcome(d) \/ WriteOutcome(d)

Retain(s) == PlanRetention(s) \/ ReadExpired(s) \/ DeleteExpired(s)

Next == \/ Advance \/ Crash
        \/ \E k \in Key : Raise(k)
        \/ \E d \in Dispatcher : Deliver(d) \/ Quit(d)
        \/ \E o \in Operator : ReadToAcknowledge(o) \/ WriteAcknowledgement(o)
        \/ \E s \in Sweeper : Retain(s)

Spec == Init /\ [][Next]_vars

-----------------------------------------------------------------------------
(* Properties *)

Dispatching == [phase : {"idle", "sending", "reading", "writing"}, now : Int, batch : SUBSET Key,
                key : Key \cup {NoKey}, outcome : {"none", "delivered", "failed"},
                tag : Nat, doc : Record \cup {NoRecord}]

Acknowledging == [phase : {"idle", "writing"}, key : Key \cup {NoKey}, tag : Nat,
                  doc : Record \cup {NoRecord}]

Retaining == [phase : {"idle", "reading", "deleting"}, batch : SUBSET Key,
              key : Key \cup {NoKey}, tag : Nat, planned : [Key -> Nat]]

\* Records and what the workers hold are of their types, and no record counts
\* more attempts than delivery is given.
TypeOK ==
  /\ clock \in 0 .. MaxClock
  /\ record \in [Key -> Record \cup {NoRecord}]
  /\ version \in [Key -> Nat]
  /\ dispatcher \in [Dispatcher -> Dispatching]
  /\ operator \in [Operator -> Acknowledging]
  /\ sweeper \in [Sweeper -> Retaining]
  /\ crashes \in 0 .. MaxCrash
  /\ raises \in [Key -> Nat]
  /\ sends \in [Key -> Nat]
  /\ accepted \subseteq Key
  /\ \A k \in Stored : /\ record[k].attempts <= MaxAttempts
                       /\ record[k].attempts = MaxAttempts => record[k].delivery # "pending"

\* A record that says delivered was accepted by the channel, and one that
\* can be closed is settled: whatever runs overlap, nothing is reported as
\* delivered or closed that is still owed.  (recordDeliveryAttempt, acknowledgeNotification)
DeliveredWasAccepted ==
  \A k \in Stored : /\ record[k].delivery = "delivered" => k \in accepted
                    /\ record[k].acknowledged => record[k].delivery # "pending"

\* Once settled, a record's delivery is never reopened or rewritten by a late
\* or stale outcome, and once closed it is not changed at all until it is
\* removed.  (recordDeliveryAttempt, apply)
SettledIsFinal ==
  [][\A k \in Key :
       record[k] # NoRecord /\ record'[k] # NoRecord /\ record[k].delivery # "pending" =>
         /\ record'[k].delivery = record[k].delivery
         /\ record'[k].attempts = record[k].attempts
         /\ record[k].acknowledged => record'[k] = record[k]]_vars

\* What is removed was acknowledged, long enough ago ("age alone never removes
\* a record"), or it was raised again after the pass that removes it had made
\* its plan, because another pass removed the record the plan was about: the
\* tag a removal is written against is read only after the decision.
\* (pass, planNotificationRetention)
RemovedWasAcknowledged ==
  [][\A k \in Key : record[k] # NoRecord /\ record'[k] = NoRecord =>
       \/ record[k].acknowledged /\ clock - record[k].closedAt > Retention
       \/ \E s \in Sweeper : /\ sweeper[s].phase = "deleting" /\ sweeper[s].key = k
                             /\ sweeper'[s] # sweeper[s]
                             /\ sweeper[s].planned[k] < raises[k]]_vars
===============================================================================
