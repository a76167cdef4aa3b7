---------------------------- MODULE ScheduleRunner ----------------------------
(***************************************************************************)
(* Hourly work run from a checkpoint that outlives its processes: several  *)
(* runners tick on their own timers, one of them claims a lease by writing *)
(* it, runs the closed windows one at a time and records how far it got.   *)
(* Any process may stop between two steps, and its restart derives a new   *)
(* start from the clock.                                                   *)
(*                                                                         *)
(* Window w covers [w * Interval, (w + 1) * Interval), so an instant on a  *)
(* boundary is the number of the window it opens.  completedThrough is     *)
(* only ever read as (completedThrough ?? startedFrom), which is the field *)
(* `through'.  A skipped range is the set of its windows, {} for null.  A  *)
(* runner is identified with its owner code; two runners sharing one are   *)
(* outside the model.  Each schedule has a checkpoint of its own.          *)
(***************************************************************************)
EXTENDS Integers

CONSTANTS
  Runner,        \* processes that tick the schedule, by owner code
  Nobody,        \* no lease
  NoOrigin,      \* no checkpoint stored
  Interval,      \* length of a window
  LeaseLength,   \* leaseSeconds
  Lag,           \* ingestion lag taken off the clock before a tick
  MaxBackfill,   \* most windows one run attempts
  StartedFrom,   \* the configured start, or NoOrigin to derive it from the clock
  MaxClock,      \* bound: last instant
  MaxFailure,    \* bound: windows whose work throws
  MaxCrash,      \* bound: processes lost
  LastCrash      \* bound: no process is lost after this instant

ASSUME RunnerAssumption == Nobody \notin Runner
ASSUME OriginAssumption == NoOrigin \notin Int /\ (StartedFrom = NoOrigin \/ StartedFrom \in Int)
ASSUME TimeAssumption == /\ Interval \in Nat \ {0}
                         /\ LeaseLength \in Nat \ {0}
                         /\ Lag \in Nat
                         /\ MaxBackfill \in Nat \ {0}
ASSUME BoundAssumption == /\ MaxClock \in Nat /\ MaxFailure \in Nat
                          /\ MaxCrash \in Nat /\ LastCrash \in Nat

VARIABLES
  clock,        \* the shared clock
  checkpoint,   \* the stored checkpoint document; meaningless while version = 0
  version,      \* its entity tag, counting writes; 0 while it does not exist
  runner,       \* runner[r]: what r's process knows
  failures,     \* windows whose work has thrown
  crashes,      \* processes lost
  ran,          \* windows whose work was performed at least once (history)
  given         \* windows a stored checkpoint ever reported as skipped (history)

vars == <<clock, checkpoint, version, runner, failures, crashes, ran, given>>

Checkpoint == [startedFrom : Int, through : Int, owner : Runner \cup {Nobody},
               expiresAt : Int, plannedThrough : Int, skipped : SUBSET Int]

\* The boundary last passed at an instant.
Passed(instant) == instant \div Interval

Fresh(startedFrom) ==
  [startedFrom |-> startedFrom, through |-> startedFrom, owner |-> Nobody,
   expiresAt |-> 0, plannedThrough |-> startedFrom, skipped |-> {}]

Start(instant) == IF StartedFrom = NoOrigin THEN Passed(instant) ELSE StartedFrom

Unleased(doc) == [doc EXCEPT !.owner = Nobody]

-----------------------------------------------------------------------------
(* Planning *)

\* Mutant: a lease never runs out.
LeaseForever(doc, r, now) == doc.owner \notin {r, Nobody}

LeaseHeld(doc, r, now) == doc.owner \notin {r, Nobody} /\ now < doc.expiresAt

Closed(doc, now) == Passed(now) - doc.through

Due(doc, r, now) == ~LeaseHeld(doc, r, now) /\ Closed(doc, now) >= 1

FirstIndex(closed) == IF closed <= MaxBackfill THEN 0 ELSE closed - MaxBackfill

FirstWindow(doc, now) == doc.through + FirstIndex(Closed(doc, now))

Leased(doc, r, now) ==
  [doc EXCEPT
     !.owner = r,
     !.expiresAt = now + LeaseLength,
     !.plannedThrough = Passed(now),
     !.skipped = IF FirstIndex(Closed(doc, now)) = 0 THEN @
                 ELSE doc.through .. (FirstWindow(doc, now) - 1)]

\* completeScheduleRun: the checkpoint that records windows up to `upTo' at `at'.
MayComplete(doc, r, upTo, at) == /\ doc.owner = r
                                 /\ at < doc.expiresAt
                                 /\ upTo <= doc.plannedThrough
                                 /\ upTo >= doc.through

\* Mutant: a run counts as completed to the end of its plan.
CompletedAsPlanned(doc, upTo) == [Unleased(doc) EXCEPT !.through = doc.plannedThrough]

Completed(doc, upTo) == [Unleased(doc) EXCEPT !.through = upTo]

-----------------------------------------------------------------------------
(* The store *)

TagHolds(r) == runner[r].tag = version

Put(doc) == /\ checkpoint' = doc
            /\ version' = version + 1
            /\ given' = given \cup doc.skipped

Unstored == UNCHANGED <<checkpoint, version, given>>

-----------------------------------------------------------------------------
(* One tick *)

Phase == {"idle", "reading", "seeding", "claiming", "running", "recording", "releasing"}

\* seed: the origin this process derived; now: when its tick began; tag: the
\* tag its plan is written under; plan: the claimed checkpoint; first, next:
\* the first window of the plan and the one to run now.
Process == [phase : Phase, seed : Int, now : Int, tag : Nat, plan : Checkpoint,
            first : Int, next : Int]

Idle(seed) == [phase |-> "idle", seed |-> seed, now |-> 0, tag |-> 0,
               plan |-> Fresh(seed), first |-> 0, next |-> 0]

Goto(r, phase) == runner' = [runner EXCEPT ![r].phase = phase]

EndTick(r) == runner' = [runner EXCEPT ![r] = Idle(@.seed)]

Tick(r) ==
  /\ runner[r].phase = "idle"
  /\ runner' = [runner EXCEPT ![r].phase = "reading", ![r].now = clock - Lag]
  /\ Unstored
  /\ UNCHANGED <<clock, failures, crashes, ran>>

\* The checkpoint or the process's own seed is read and planned on.
Read(r) ==
  /\ runner[r].phase = "reading"
  /\ LET now == runner[r].now
         doc == IF version = 0 THEN Fresh(runner[r].seed) ELSE checkpoint
     IN  IF Due(doc, r, now)
           THEN runner' = [runner EXCEPT ![r].phase = "claiming",
                                         ![r].tag = version,
                                         ![r].plan = Leased(doc, r, now),
                                         ![r].first = FirstWindow(doc, now),
                                         ![r].next = FirstWindow(doc, now)]
           ELSE IF version = 0 THEN Goto(r, "seeding") ELSE EndTick(r)
  /\ Unstored
  /\ UNCHANGED <<clock, failures, crashes, ran>>

\* Nothing due and nothing stored: the origin is recorded, unless another was.
Seed(r) ==
  /\ runner[r].phase = "seeding"
  /\ IF version = 0 THEN Put(Fresh(runner[r].seed)) ELSE Unstored
  /\ EndTick(r)
  /\ UNCHANGED <<clock, failures, crashes, ran>>

Claim(r) ==
  /\ runner[r].phase = "claiming"
  /\ IF TagHolds(r)
       THEN /\ Put(runner[r].plan)
            /\ runner' = [runner EXCEPT ![r].phase = "running", ![r].tag = version + 1]
       ELSE /\ Unstored
            /\ EndTick(r)
  /\ UNCHANGED <<clock, failures, crashes, ran>>

RunWindow(r) ==
  /\ runner[r].phase = "running"
  /\ ran' = ran \cup {runner[r].next}
  /\ runner' = [runner EXCEPT
                  ![r].next = @ + 1,
                  ![r].phase = IF runner[r].next + 1 = runner[r].plan.plannedThrough
                                 THEN "recording" ELSE "running"]
  /\ Unstored
  /\ UNCHANGED <<clock, failures, crashes>>

\* The work throws; what finished before it is recorded, or the lease released.
FailWindow(r) ==
  /\ runner[r].phase = "running"
  /\ failures < MaxFailure
  /\ failures' = failures + 1
  /\ Goto(r, IF runner[r].next = runner[r].first THEN "releasing" ELSE "recording")
  /\ Unstored
  /\ UNCHANGED <<clock, crashes, ran>>

\* A conflicting tag ends the tick with an error and stores nothing.
Record(r) ==
  /\ runner[r].phase = "recording"
  /\ LET doc == runner[r].plan
         upTo == runner[r].next
     IN  IF MayComplete(doc, r, upTo, runner[r].now) /\ TagHolds(r)
           THEN Put(Completed(doc, upTo)) ELSE Unstored
  /\ EndTick(r)
  /\ UNCHANGED <<clock, failures, crashes, ran>>

Release(r) ==
  /\ runner[r].phase = "releasing"
  /\ IF TagHolds(r) THEN Put(Unleased(runner[r].plan)) ELSE Unstored
  /\ EndTick(r)
  /\ UNCHANGED <<clock, failures, crashes, ran>>

Crash(r) ==
  /\ crashes < MaxCrash
  /\ clock <= LastCrash
  /\ crashes' = crashes + 1
  /\ runner' = [runner EXCEPT ![r] = Idle(Start(clock))]
  /\ Unstored
  /\ UNCHANGED <<clock, failures, ran>>

Advance ==
  /\ clock < MaxClock
  /\ clock' = clock + 1
  /\ Unstored
  /\ UNCHANGED <<runner, failures, crashes, ran>>

Init ==
  /\ clock = 0
  /\ checkpoint = Fresh(Start(0))
  /\ version = 0
  /\ runner = [r \in Runner |-> Idle(Start(0))]
  /\ failures = 0
  /\ crashes = 0
  /\ ran = {}
  /\ given = {}

Step(r) == Read(r) \/ Seed(r) \/ Claim(r) \/ RunWindow(r) \/ Record(r) \/ Release(r)

Next == \/ Advance
        \/ \E r \in Runner : Tick(r) \/ Step(r) \/ FailWindow(r) \/ Crash(r)

Spec == Init /\ [][Next]_vars

\* Time passes, some runner's timer fires, and a process that was not lost
\* gets on with its tick.
FairSpec == /\ Spec
            /\ WF_vars(Advance)
            /\ WF_vars(\E r \in Runner : Tick(r))
            /\ \A r \in Runner : WF_vars(Step(r))

-----------------------------------------------------------------------------
(* Properties *)

Working(r) == runner[r].phase \in {"running", "recording", "releasing"}

\* A working runner is at a window of its plan or at the plan's end.
InPlan(r) == Working(r) =>
  /\ runner[r].first <= runner[r].next
  /\ runner[r].next <= runner[r].plan.plannedThrough

\* The documents and what each process knows are of their types, and a runner
\* stays within the plan it claimed.
TypeOK ==
  /\ clock \in 0 .. MaxClock
  /\ checkpoint \in Checkpoint
  /\ version \in Nat
  /\ runner \in [Runner -> Process]
  /\ failures \in 0 .. MaxFailure
  /\ crashes \in 0 .. MaxCrash
  /\ ran \subseteq Int
  /\ given \subseteq Int
  /\ \A r \in Runner : InPlan(r)

InLease(r) == Working(r) /\ clock - Lag < runner[r].plan.expiresAt

\* While its lease lasts, what a working runner claimed is what is stored: no
\* other runner claims over it, seeds over it or records an older plan, so
\* the completion it will record cannot conflict and nobody else is at work
\* on these windows within a lease of its own.  (planScheduleRun, putScheduleCheckpoint)
LeaseHolderKeepsClaim ==
  \A r \in Runner : InLease(r) =>
    /\ version = runner[r].tag
    /\ checkpoint = runner[r].plan
    /\ \A s \in Runner \ {r} : ~InLease(s)

\* A runner within its lease never repeats a window the checkpoint already
\* records as completed.  (planScheduleRun, the test that a window is never
\* handed to the work twice)
RecordedIsNotRepeated ==
  \A r \in Runner : InLease(r) /\ runner[r].phase = "running" =>
    checkpoint.through <= runner[r].next

\* The schedule only moves past windows that ran or were recorded as given
\* up, never moves back, and its origin is recorded once.
Duty == INSTANCE ScheduleDuty WITH
          origin <- IF version = 0 THEN NoOrigin ELSE checkpoint.startedFrom,
          through <- checkpoint.through

KeepsDuty == Duty!Spec

\* Every window that has closed is eventually behind the checkpoint, whichever
\* runner died holding a lease, or lies before the recorded origin.
WindowsSettle ==
  \A w \in 0 .. MaxClock :
    (w < Passed(clock - Lag)) ~>
      (version > 0 /\ (w < checkpoint.startedFrom \/ w < checkpoint.through))

===============================================================================
