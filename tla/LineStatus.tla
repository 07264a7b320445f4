----------------------------- MODULE LineStatus ----------------------------
(* What the status reports of a line amount to (incident/services/          *)
(* line_status.py): the pulse, a vote-weighted majority of the last         *)
(* minutes; the hourly history of a service day; the profile of a typical   *)
(* week.  Reports come from the feed and the status form (feed_links.py),   *)
(* votes on the links they hang on from votes.py.  An instant is an hour.   *)
EXTENDS Integers, Sequences, FiniteSets, SequencesExt, ServiceDay

CONSTANTS
    StatusLines, \* lines
    SEVERITY,    \* PassengerStatus in declaration order: the rank is the index
    TaggedLinks, \* links a report can hang on; NoLink for none
    NoLink,
    Voters,
    WINDOW,      \* WINDOW_MINUTES
    DAYS_IN_WEEK, weeks,
    MaxReports, MaxHour \* bounds: reports, and the last hour reached

ASSUME StatusAssumption ==
    /\ SEVERITY \in Seq(STRING) /\ \A k \in DOMAIN SEVERITY : SEVERITY[k] # "none"
    /\ \A j, k \in DOMAIN SEVERITY : SEVERITY[j] = SEVERITY[k] => j = k
    /\ NoLink \notin TaggedLinks /\ WINDOW \in Nat
    /\ IsFiniteSet(StatusLines) /\ IsFiniteSet(Voters)
    /\ DAYS_IN_WEEK \in Nat \ {0} /\ weeks \in Nat \ {0} /\ MaxReports \in Nat /\ MaxHour \in Nat

VARIABLES
    hour,    \* now
    reports, \* LineStatusReport, in the order they were written
    votes    \* Vote rows on the links: one per voter and link, 0 for no row

statusVars == <<hour, reports, votes>>

StatusSet == {SEVERITY[k] : k \in DOMAIN SEVERITY}
NoPulse == [status |-> "none", status_counts |-> <<>>]
Of(lines) == {k \in DOMAIN reports : reports[k].line \in lines}

---------------------------------------------------------------------------
(* submit_line_status_report, submit_feed_link with its lines, and the bot. *)
Report(lines, status, link) ==
    LET entries == {[line |-> l, status |-> status, link |-> link, at |-> hour] : l \in lines} IN
    /\ Len(reports) + Cardinality(lines) <= MaxReports
    /\ reports' = reports \o SetToSeq(entries)
    /\ UNCHANGED <<hour, votes>>

_apply_vote(user, link, value) ==
    /\ votes' = [votes EXCEPT ![user][link] = value]
    /\ UNCHANGED <<hour, reports>>

_remove_vote(user, link) ==
    /\ votes[user][link] # 0
    /\ votes' = [votes EXCEPT ![user][link] = 0]
    /\ UNCHANGED <<hour, reports>>

(* Deleting a link takes its votes along and leaves its reports.            *)
DeleteTaggedLink(link) ==
    /\ reports' = [k \in DOMAIN reports |->
                     IF reports[k].link = link THEN [reports[k] EXCEPT !.link = NoLink] ELSE reports[k]]
    /\ votes' = [user \in Voters |-> [votes[user] EXCEPT ![link] = 0]]
    /\ UNCHANGED hour

TickHour ==
    /\ hour < MaxHour /\ hour' = hour + 1
    /\ UNCHANGED <<reports, votes>>

---------------------------------------------------------------------------
(* consolidate.                                                             *)
_link_score(link) ==
    LET by(value) == {user \in Voters : votes[user][link] = value} IN
    Cardinality(by(1)) - Cardinality(by(-1))

ContributionOfVotes(k) == \* Mutant: a report counts as much as its link's score
    IF reports[k].link = NoLink THEN 1 ELSE 1 + _link_score(reports[k].link)

Contribution(k) ==
    IF reports[k].link = NoLink \/ _link_score(reports[k].link) < 0 THEN 1
    ELSE 1 + _link_score(reports[k].link)

Recent(line) == {k \in Of({line}) : reports[k].at \in hour - WINDOW .. hour}
WithStatus(entries, status) == {k \in entries : reports[k].status = status}

(* What a status weighs is what its reports contribute, each as many        *)
(* numbered ballots.                                                        *)
Ballots(entries) == UNION {{k} \X (1 .. Contribution(k)) : k \in entries}
Weight(entries, status) == Cardinality(Ballots(WithStatus(entries, status)))
Latest(entries, status) == Max({reports[k].at : k \in WithStatus(entries, status)})
StatusCounts(entries) == [status \in StatusSet |-> Cardinality(WithStatus(entries, status))]

(* By weight, then by the newest report, then by severity.                  *)
Outweighs(entries, i, j) ==
    LET w(k) == Weight(entries, SEVERITY[k])
        t(k) == Latest(entries, SEVERITY[k])
    IN  w(i) > w(j) \/ (w(i) = w(j) /\ (t(i) > t(j) \/ (t(i) = t(j) /\ i > j)))

Contributing(line) == {k \in Recent(line) : Contribution(k) > 0}

Reported(entries) == {k \in DOMAIN SEVERITY : WithStatus(entries, SEVERITY[k]) # {}}

load_line_pulse(line) ==
    LET entries == Contributing(line)
        present == Reported(entries)
    IN  IF entries = {} THEN NoPulse
        ELSE [status |-> SEVERITY[CHOOSE i \in present : \A j \in present \ {i} : Outweighs(entries, i, j)],
              status_counts |-> StatusCounts(entries)]

---------------------------------------------------------------------------
(* A bucket of a chart, with the status reported most often in it; of two   *)
(* that were reported as often, the more severe one.                        *)
Prevails(entries, i, j) ==
    LET n(k) == Cardinality(WithStatus(entries, SEVERITY[k]))
    IN  n(i) > n(j) \/ (n(i) = n(j) /\ i > j)

_dominant_status(entries) ==
    LET present == Reported(entries) IN
    IF entries = {} THEN "none"
    ELSE SEVERITY[CHOOSE i \in present : \A j \in present \ {i} : Prevails(entries, i, j)]

Bucket(entries) == [reports |-> entries, dominant_status |-> _dominant_status(entries)]

(* The history of the service day that began days_ago service days before   *)
(* the current one: no buckets without a report, else one for each hour.    *)
DayStart(days_ago) == service_day_start(hour) - days_ago * INSTANTS_PER_DAY

bucket_hourly(entries, day_start) ==
    LET per_hour == {k \in entries : reports[k].at \in day_start .. hour
                                     /\ reports[k].at < day_start + INSTANTS_PER_DAY}
    IN  IF per_hour = {} THEN <<>>
        ELSE [n \in 1 .. INSTANTS_PER_DAY |->
                Bucket({k \in per_hour : reports[k].at = day_start + n - 1})]

load_line_status_history(lines, days_ago) == bucket_hourly(Of(lines), DayStart(days_ago))

(* The profile of a week: the weekday is the one of the service day.        *)
WeekdayByCalendar(at) == (at \div INSTANTS_PER_DAY) % DAYS_IN_WEEK \* Mutant: not shifted

Weekday(at) == ((at - DAY_START_HOUR) \div INSTANTS_PER_DAY) % DAYS_IN_WEEK

WeekStart == hour - weeks * DAYS_IN_WEEK * INSTANTS_PER_DAY
InWeeks(lines) == {k \in Of(lines) : reports[k].at \in WeekStart .. hour}

bucket_week_profile(lines) ==
    IF InWeeks(lines) = {} THEN <<>>
    ELSE [weekday \in 0 .. DAYS_IN_WEEK - 1 |-> [clock \in 0 .. INSTANTS_PER_DAY - 1 |->
            Bucket({k \in InWeeks(lines) : Weekday(reports[k].at) = weekday
                                           /\ reports[k].at % INSTANTS_PER_DAY = clock})]]

---------------------------------------------------------------------------
StatusInit ==
    /\ hour = 0 /\ reports = <<>>
    /\ votes = [user \in Voters |-> [link \in TaggedLinks |-> 0]]

StatusNext ==
    \/ TickHour
    \/ \E lines \in SUBSET StatusLines \ {{}}, status \in StatusSet, link \in TaggedLinks \cup {NoLink} :
          Report(lines, status, link)
    \/ \E user \in Voters, link \in TaggedLinks :
          _remove_vote(user, link) \/ \E value \in {-1, 1} : _apply_vote(user, link, value)
    \/ \E link \in TaggedLinks : DeleteTaggedLink(link)

StatusSpec == StatusInit /\ [][StatusNext]_statusVars

---------------------------------------------------------------------------
StatusTypeOK ==
    /\ hour \in 0 .. MaxHour
    /\ \A k \in DOMAIN reports :
          /\ reports[k].line \in StatusLines /\ reports[k].status \in StatusSet
          /\ reports[k].link \in TaggedLinks \cup {NoLink} /\ reports[k].at \in 0 .. hour
    /\ votes \in [Voters -> [TaggedLinks -> {-1, 0, 1}]]

(* The two charts of a line agree: a slot of the week is filled with what   *)
(* the service days of that weekday hold at that hour, no report is in two  *)
(* days, and a day has buckets only if one of them has a report.            *)
HistoryMatchesProfile ==
    \A line \in StatusLines :
        LET lines == {line}
            days == 0 .. weeks * DAYS_IN_WEEK
            day(d) == load_line_status_history(lines, d)
            held(d) == UNION {day(d)[n].reports : n \in DOMAIN day(d)}
            profile == bucket_week_profile(lines)
        IN
        /\ \A weekday \in DOMAIN profile, clock \in 0 .. INSTANTS_PER_DAY - 1 :
              profile[weekday][clock].reports =
                  UNION {{k \in held(d) : reports[k].at % INSTANTS_PER_DAY = clock} \cap InWeeks(lines) :
                            d \in {e \in days : Weekday(DayStart(e)) = weekday}}
        /\ \A d, e \in days : d # e => held(d) \cap held(e) = {}
        /\ \A d \in days : day(d) # <<>> => held(d) # {}
        /\ profile = <<>> <=> InWeeks(lines) = {}

(* The typical week never disagrees with the days it is made of: where the  *)
(* buckets of a weekday and an hour that have reports all show one status,  *)
(* the slot shows it, however the tallies add up and tie; and a bucket      *)
(* shows a status exactly if it has reports.                                *)
DaysDecideTheWeek ==
    \A line \in StatusLines :
        LET lines == {line}
            days == 0 .. weeks * DAYS_IN_WEEK
            day(d) == load_line_status_history(lines, d)
            profile == bucket_week_profile(lines)
            at(n) == (DAY_START_HOUR + n - 1) % INSTANTS_PER_DAY
            shown(weekday, clock) == \* the buckets in the slot
                {b \in days \X (1 .. INSTANTS_PER_DAY) :
                    /\ Weekday(DayStart(b[1])) = weekday /\ at(b[2]) = clock
                    /\ b[2] \in DOMAIN day(b[1])
                    /\ day(b[1])[b[2]].reports \cap InWeeks(lines) # {}}
        IN
        \A weekday \in DOMAIN profile, clock \in 0 .. INSTANTS_PER_DAY - 1 :
            LET slot == profile[weekday][clock] IN
            /\ slot.dominant_status = "none" <=> shown(weekday, clock) = {}
            /\ \A status \in StatusSet :
                  /\ shown(weekday, clock) # {}
                  /\ \A b \in shown(weekday, clock) : day(b[1])[b[2]].dominant_status = status
                  => slot.dominant_status = status

(* Downvotes never take a report out of the pulse: a line with a recent     *)
(* report has one, every recent report is in its counts, and where no link  *)
(* has a positive score the status reported most often wins.                *)
PulseKeepsReports ==
    \A line \in StatusLines :
        LET pulse == load_line_pulse(line)
            recent == Recent(line)
            counts == StatusCounts(recent)
        IN  recent # {} =>
              /\ pulse.status_counts = counts
              /\ (\A k \in recent : reports[k].link # NoLink => _link_score(reports[k].link) <= 0)
                    => \A status \in StatusSet : counts[status] <= counts[pulse.status]

(* What the readers of a line are shown: its pulse, its days, its week.     *)
LineReadsAgree == HistoryMatchesProfile /\ DaysDecideTheWeek /\ PulseKeepsReports
===========================================================================
