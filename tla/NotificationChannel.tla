------------------------- MODULE NotificationChannel -------------------------
(***************************************************************************)
(* Where notifications are sent.  An administrator chooses the recipient,  *)
(* a document beside the ledger that is replaced under the tag the request *)
(* has just read; a dispatch run reads it once, after it found something   *)
(* due, and sends its whole batch there.  A deployment may name a fixed    *)
(* recipient for as long as nobody has chosen one.  What the endpoint must *)
(* look like and the wording of what is posted are left out.               *)
(***************************************************************************)
EXTENDS NotificationLedger

CONSTANTS
  Recipient,     \* webhook endpoints
  NoRecipient,   \* nobody has been chosen
  Deployments,   \* what a deployment may name: recipients, or NoRecipient
  Chooser,       \* requests that choose a recipient and may overlap
  MaxChoices     \* bound: times a recipient is chosen

ASSUME RecipientAssumption == /\ NoRecipient \notin Recipient
                              /\ Deployments \subseteq Recipient \cup {NoRecipient}
                              /\ MaxChoices \in Nat

VARIABLES
  channel,    \* the stored choice, or NoRecipient
  deployed,   \* the recipient the deployment names, or NoRecipient; it never changes
  choices,    \* times the choice was written; its entity tag
  chooser,    \* chooser[c]: the tag a request read before it writes its choice
  sending,    \* sending[d]: the recipient a dispatch run found
  inForce     \* inForce[d]: recipients in force at some instant of d's run (history)

channelVars == <<channel, deployed, choices, chooser, sending, inForce>>

IdleChooser == [phase |-> "idle", tag |-> 0]

-----------------------------------------------------------------------------
(* Choosing *)

ReadChoice(c) ==
  /\ chooser[c].phase = "idle"
  /\ choices < MaxChoices
  /\ chooser' = [chooser EXCEPT ![c] = [phase |-> "writing", tag |-> choices]]
  /\ UNCHANGED <<vars, channel, deployed, choices, sending, inForce>>

\* A choice somebody else wrote meanwhile is not overwritten.
WriteChoice(c) ==
  /\ chooser[c].phase = "writing"
  /\ chooser' = [chooser EXCEPT ![c] = IdleChooser]
  /\ IF chooser[c].tag = choices
       THEN \E r \in Recipient :
              /\ channel' = r
              /\ choices' = choices + 1
              /\ inForce' = [d \in Dispatcher |->
                   IF dispatcher[d] = IdleDispatcher THEN {} ELSE inForce[d] \cup {r}]
       ELSE UNCHANGED <<channel, choices, inForce>>
  /\ UNCHANGED <<vars, deployed, sending>>

-----------------------------------------------------------------------------
(* A dispatch run *)

\* Fault: the recipient the deployment names is never given up.
DeployedFirst == IF deployed # NoRecipient THEN deployed ELSE channel

ResolveChannel == IF channel # NoRecipient THEN channel ELSE deployed

\* What a run that ended was sending to is forgotten.
Settle(d) ==
  LET over == dispatcher'[d] = IdleDispatcher
  IN  /\ sending' = IF over THEN [sending EXCEPT ![d] = NoRecipient] ELSE sending
      /\ inForce' = IF over THEN [inForce EXCEPT ![d] = {}] ELSE inForce

Find(d) ==
  /\ Dispatch(d)
  /\ inForce' = [inForce EXCEPT ![d] = {IF channel = NoRecipient THEN deployed ELSE channel}]
  /\ UNCHANGED <<channel, deployed, choices, chooser, sending>>

\* Fault: what is due is recorded as attempted although there is nobody to send it to.
AttemptsUnsent(d) ==
  /\ \E k \in dispatcher[d].batch :
       dispatcher' = [dispatcher EXCEPT ![d].phase = "reading", ![d].key = k,
                                        ![d].outcome = "failed"]
  /\ Unwritten
  /\ UNCHANGED <<clock, operator, sweeper, crashes, raises, sends, accepted, sending, inForce>>

Unsent(d) == Quit(d) /\ Settle(d)

Resolve(d) ==
  /\ dispatcher[d].phase = "sending" /\ sending[d] = NoRecipient
  /\ IF ResolveChannel = NoRecipient
       THEN Unsent(d)
       ELSE sending' = [sending EXCEPT ![d] = ResolveChannel] /\ UNCHANGED <<vars, inForce>>
  /\ UNCHANGED <<channel, deployed, choices, chooser>>

SendTo(d) ==
  /\ sending[d] # NoRecipient
  /\ Send(d)
  /\ UNCHANGED channelVars

RecordOutcome(d) ==
  /\ ReadOutcome(d) \/ WriteOutcome(d)
  /\ Settle(d)
  /\ UNCHANGED <<channel, deployed, choices, chooser>>

Run(d) == Find(d) \/ Resolve(d) \/ SendTo(d) \/ RecordOutcome(d)

-----------------------------------------------------------------------------
Others == \/ Advance
          \/ \E k \in Key : Raise(k)
          \/ \E o \in Operator : ReadToAcknowledge(o) \/ WriteAcknowledgement(o)
          \/ \E s \in Sweeper : Retain(s)

\* A lost worker takes what it knew with it.
Lose ==
  /\ Crash
  /\ sending' = [d \in Dispatcher |->
       IF dispatcher'[d] = IdleDispatcher THEN NoRecipient ELSE sending[d]]
  /\ inForce' = [d \in Dispatcher |-> IF dispatcher'[d] = IdleDispatcher THEN {} ELSE inForce[d]]
  /\ UNCHANGED <<channel, deployed, choices, chooser>>

ChannelInit ==
  /\ Init
  /\ channel = NoRecipient
  /\ deployed \in Deployments
  /\ choices = 0
  /\ chooser = [c \in Chooser |-> IdleChooser]
  /\ sending = [d \in Dispatcher |-> NoRecipient]
  /\ inForce = [d \in Dispatcher |-> {}]

ChannelNext == \/ \E c \in Chooser : ReadChoice(c) \/ WriteChoice(c)
               \/ \E d \in Dispatcher : Run(d)
               \/ Lose
               \/ Others /\ UNCHANGED channelVars

everything == <<vars, channelVars>>

\* Time passes and the dispatch timer keeps firing; nobody has to choose or
\* acknowledge, and nothing has to be raised or removed.
ChannelSpec == /\ ChannelInit /\ [][ChannelNext]_everything
               /\ WF_everything(Advance /\ UNCHANGED channelVars)
               /\ \A d \in Dispatcher : WF_everything(Run(d))

-----------------------------------------------------------------------------
(* Properties *)

\* Choosing a recipient "takes effect on the next tick": whoever a run sends
\* to was in force at some instant of that run, however many choices and runs
\* overlap.  (dispatch, resolveChannel)
RecipientTakesOver ==
  \A d \in Dispatcher : sending[d] # NoRecipient => sending[d] \in inForce[d]

\* A notification raised once counts no more attempts than were sent: neither
\* two runs that pick it up together nor a run that found nobody to send to
\* spends attempts ("a ledger filling with attempts against a channel nobody
\* chose", composition-root.mjs:585).
AttemptsWereSent ==
  \A k \in Stored : raises[k] = 1 => record[k].attempts <= sends[k]

\* Once there is somebody to send to, a pending notification does not stay
\* pending: it is eventually delivered or given up, workers lost and channels
\* failing in between, or a retention pass removes it, which
\* RemovedWasAcknowledged narrows to one that overlapped another.  (dispatch,
\* recordDeliveryAttempt)
NotificationSettles ==
  \A k \in Key : (record[k] # NoRecord /\ record[k].delivery = "pending" /\ ResolveChannel # NoRecipient)
                   ~> (record[k] = NoRecord \/ record[k].delivery # "pending")
==============================================================================
