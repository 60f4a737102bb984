------------------------------- MODULE Scheduler -------------------------------
(***************************************************************************)
(* Messages to be sent at a time of the future.  Every scheduler marks a   *)
(* batch of due rows as published, in one statement that skips what        *)
(* another transaction holds, commits, and publishes them one by one; the  *)
(* error of a publication is dropped.  Nothing in the application writes   *)
(* the table or starts a scheduler.                                        *)
(***************************************************************************)
EXTENDS Naturals, FiniteSets

CONSTANTS
    ScheduledMessages,
    Schedulers,
    ScheduleLimit       \* 100

ASSUME ScheduleAssumption == ScheduleLimit \in Nat \ {0}

VARIABLES
    scheduled,      \* each message: no row, not published yet, marked published
    toPublish,      \* what each scheduler claimed and has still to publish
    sent,           \* how often the message was published
    dropped         \* history: claimed messages nobody will publish

scheduleVars == <<scheduled, toPublish, sent, dropped>>

ScheduleInit ==
    /\ scheduled = [m \in ScheduledMessages |-> "none"]
    /\ toPublish = [s \in Schedulers |-> {}]
    /\ sent = [m \in ScheduledMessages |-> 0]
    /\ dropped = {}

\* The row is inserted, and its time comes.
BecomeDue(m) ==
    /\ scheduled[m] = "none"
    /\ scheduled' = [scheduled EXCEPT ![m] = "due"]
    /\ UNCHANGED <<toPublish, sent, dropped>>

\* Mutant: the claim selects the rows, and marks them no more.
SelectPendingMessages(s) ==
    /\ toPublish[s] = {}
    /\ \E batch \in SUBSET {m \in ScheduledMessages : scheduled[m] = "due"} :
           /\ batch # {} /\ Cardinality(batch) <= ScheduleLimit
           /\ toPublish' = [toPublish EXCEPT ![s] = batch]
    /\ UNCHANGED <<scheduled, sent, dropped>>

\* A commit whose answer is lost has claimed the rows for nobody.
LockPendingMessages(s) ==
    /\ toPublish[s] = {}
    /\ \E batch \in SUBSET {m \in ScheduledMessages : scheduled[m] = "due"} :
           /\ batch # {} /\ Cardinality(batch) <= ScheduleLimit
           /\ scheduled' = [m \in ScheduledMessages |->
                              IF m \in batch THEN "published" ELSE scheduled[m]]
           /\ \/ toPublish' = [toPublish EXCEPT ![s] = batch] /\ UNCHANGED dropped
              \/ dropped' = dropped \cup batch /\ UNCHANGED toPublish
    /\ UNCHANGED sent

PublishMessage(s) ==
    /\ \E m \in toPublish[s] :
           /\ toPublish' = [toPublish EXCEPT ![s] = @ \ {m}]
           /\ \/ sent' = [sent EXCEPT ![m] = @ + 1] /\ UNCHANGED dropped
              \/ dropped' = dropped \cup {m} /\ UNCHANGED sent
    /\ UNCHANGED scheduled

SchedulerDies(s) ==
    /\ toPublish[s] # {}
    /\ toPublish' = [toPublish EXCEPT ![s] = {}]
    /\ dropped' = dropped \cup toPublish[s]
    /\ UNCHANGED <<scheduled, sent>>

ScheduleNext ==
    \/ \E m \in ScheduledMessages : BecomeDue(m)
    \/ \E s \in Schedulers : LockPendingMessages(s) \/ PublishMessage(s) \/ SchedulerDies(s)

ScheduleSpec == ScheduleInit /\ [][ScheduleNext]_scheduleVars

ScheduleTypeOK ==
    /\ scheduled \in [ScheduledMessages -> {"none", "due", "published"}]
    /\ toPublish \in [Schedulers -> SUBSET ScheduledMessages]
    /\ sent \in [ScheduledMessages -> Nat]
    /\ dropped \subseteq ScheduledMessages

\* A marked message is in one place: claimed by one scheduler, published once, or
\* given up.  Several schedulers, and failures at any step, never send one twice.
ScheduledOnce ==
    \A m \in ScheduledMessages :
        LET holders == Cardinality({s \in Schedulers : m \in toPublish[s]})
        IN  holders + sent[m] + (IF m \in dropped THEN 1 ELSE 0)
              = IF scheduled[m] = "published" THEN 1 ELSE 0
=============================================================================
