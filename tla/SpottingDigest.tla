--------------------------- MODULE SpottingDigest --------------------------
(* Spottings and their daily digest: add_event, delete_event and the bot's  *)
(* commands write spotting.Event rows (spotting/schema/schema.py, models.py,*)
(* telegram_provider/handlers.py); report_spotting_today (spotting/tasks.py)*)
(* sends every channel the vehicles spotted since the digest before.  A day *)
(* has three instants: [00:00, 03:00), [03:00, 03:01) and [03:01, 24:00).   *)
EXTENDS Integers, FiniteSets

CONSTANTS
    Spottings,       \* events that can be reported, each of its own vehicle
    Channels,        \* telegram channels with a line
    DELETABLE_DAYS,  \* days after which an event can no longer be deleted
    MaxInstant,      \* bound on time
    MaxUndelivered   \* bound: digests that send_message gives up

ASSUME SpottingAssumption == DELETABLE_DAYS \in Nat /\ MaxInstant \in Nat /\ MaxUndelivered \in Nat

VARIABLES
    instant,  \* the present
    events,   \* when each Event row was created, NotYet before, Deleted afterwards
    runs,     \* the digest task of each day: its day, and the channels still to serve
    digests,  \* messages that reached the channels: the events behind them
    aborted,  \* history: days whose task was lost, died, or ran a day late
    undelivered \* history: the digests that send_message has given up

spottingVars == <<instant, events, runs, digests, aborted, undelivered>>

DIGEST_DAY_START == 2   \* 03:01
CUTOFF == 1             \* 03:00
DayOf(t) == t \div 3
Days == 0 .. DayOf(MaxInstant)
NoRun == [stage |-> "none"]
NotYet == -1
Deleted == -2
Kept == {e \in Spottings : events[e] >= 0}

---------------------------------------------------------------------------
AddEvent(e) ==
    /\ events[e] = NotYet
    /\ events' = [events EXCEPT ![e] = instant]
    /\ UNCHANGED <<instant, runs, digests, aborted, undelivered>>

(* delete_event and auser_deletion, by the reporter.                        *)
DeleteEvent(e) ==
    /\ e \in Kept /\ events[e] + 3 * DELETABLE_DAYS >= instant
    /\ events' = [events EXCEPT ![e] = Deleted]
    /\ UNCHANGED <<instant, runs, digests, aborted, undelivered>>

---------------------------------------------------------------------------
(* Beat queues the task when 03:01 comes.                                   *)
AdvanceClock ==
    /\ instant < MaxInstant /\ instant' = instant + 1
    /\ runs' = IF instant' % 3 = DIGEST_DAY_START
               THEN [runs EXCEPT ![DayOf(instant')] = [stage |-> "queued"]] ELSE runs
    /\ UNCHANGED <<events, digests, aborted, undelivered>>

effective_spotting_dateAtStart(t) == \* Mutant: the cutoff is the minute of the beat
    IF t % 3 < DIGEST_DAY_START THEN DayOf(t) - 1 ELSE DayOf(t)

effective_spotting_date(t) == IF t % 3 < CUTOFF THEN DayOf(t) - 1 ELSE DayOf(t)

(* report_spotting_today takes its day from the clock of its worker, which  *)
(* may be up to a minute behind that of beat: at 03:01 it may show 03:00.   *)
WorkerClocks == IF instant % 3 = DIGEST_DAY_START THEN {instant, instant - 1} ELSE {instant}

StartReport(day) ==
    /\ runs[day].stage = "queued"
    /\ \E seen \in WorkerClocks :
          runs' = [runs EXCEPT ![day] = [stage |-> "sending", todo |-> Channels,
                                         date |-> effective_spotting_date(seen) - 1]]
    /\ aborted' = IF instant >= 3 * (day + 1) + CUTOFF THEN aborted \cup {day} ELSE aborted
    /\ UNCHANGED <<instant, events, digests, undelivered>>

(* get_daily_updates between the start of the digest day, inclusive, and    *)
(* its end, exclusive.                                                      *)
created_between(date) ==
    LET start == 3 * date + DIGEST_DAY_START IN
    {e \in Kept : events[e] >= start /\ events[e] < start + 3}

DigestOf(day, channel) ==
    [channel |-> channel, day |-> day, listed |-> created_between(runs[day].date)]

(* The loop goes on, whatever comes of the message.                         *)
NextChannel(day, channel) ==
    /\ runs[day].stage = "sending" /\ channel \in runs[day].todo
    /\ runs' = [runs EXCEPT ![day].todo = @ \ {channel},
                            ![day].stage = IF runs[day].todo = {channel} THEN "done" ELSE @]
    /\ UNCHANGED <<instant, events, aborted>>

SendDigest(day, channel) ==
    /\ NextChannel(day, channel)
    /\ digests' = digests \cup {DigestOf(day, channel)}
    /\ UNCHANGED undelivered

(* Every attempt of send_message has failed, though one that timed out may  *)
(* have arrived, and it returns None.                                       *)
DeadLetterDigest(day, channel) ==
    /\ Cardinality(undelivered) < MaxUndelivered /\ NextChannel(day, channel)
    /\ digests' \in {digests, digests \cup {DigestOf(day, channel)}}
    /\ undelivered' = undelivered \cup {<<day, channel>>}

LoseReport(day) ==
    /\ runs[day].stage \in {"queued", "sending"}
    /\ runs' = [runs EXCEPT ![day] = [stage |-> "done"]]
    /\ aborted' = aborted \cup {day}
    /\ UNCHANGED <<instant, events, digests, undelivered>>

---------------------------------------------------------------------------
SpottingInit ==
    /\ instant = 0 /\ events = [e \in Spottings |-> NotYet] /\ runs = [day \in Days |-> NoRun]
    /\ digests = {} /\ aborted = {} /\ undelivered = {}

SpottingNext ==
    \/ AdvanceClock
    \/ \E e \in Spottings : AddEvent(e) \/ DeleteEvent(e)
    \/ \E day \in Days : StartReport(day) \/ LoseReport(day)
                         \/ \E channel \in Channels : SendDigest(day, channel) \/ DeadLetterDigest(day, channel)

SpottingSpec == SpottingInit /\ [][SpottingNext]_spottingVars

---------------------------------------------------------------------------
SpottingTypeOK ==
    /\ instant \in 0 .. MaxInstant /\ events \in [Spottings -> Deleted .. instant]
    /\ \A day \in Days : runs[day].stage \in {"none", "queued", "sending", "done"}
    /\ \A d \in digests : d.channel \in Channels /\ d.day \in Days /\ d.listed \subseteq Spottings
    /\ aborted \subseteq Days /\ undelivered \subseteq Days \X Channels

(* The digest that closes an event's day: the first 03:01 after it.         *)
ClosingDay(e) == IF events[e] % 3 < DIGEST_DAY_START THEN DayOf(events[e]) ELSE DayOf(events[e]) + 1

(* Whatever the clock of the worker shows, however late in the day it comes *)
(* to the task, and whichever messages fail: unless the task of some day    *)
(* was lost or a day late, an event is in no two digests of a channel, in   *)
(* none but that of its own day, and in that one when the day is done and   *)
(* send_message has not given this very digest up.                          *)
EachEventInOneDigest ==
    \A e \in Kept, channel \in Channels :
        LET listing == {d \in digests : d.channel = channel /\ e \in d.listed}
            day == ClosingDay(e)
        IN  aborted = {} =>
              /\ Cardinality(listing) <= 1
              /\ \A d \in listing : d.day = day
              /\ (day \in Days /\ runs[day].stage = "done" /\ <<day, channel>> \notin undelivered)
                    => listing # {}
===========================================================================
