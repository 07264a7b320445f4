----------------------------- MODULE ServiceDay ----------------------------
(* The service day of the network (incident/services/line_status.py): it    *)
(* begins DAY_START_HOUR after midnight.  Instants are counted from some    *)
(* midnight, INSTANTS_PER_DAY to a calendar day.                            *)
EXTENDS Integers

CONSTANTS INSTANTS_PER_DAY, DAY_START_HOUR

ASSUME ServiceDayAssumption ==
    INSTANTS_PER_DAY \in Nat \ {0} /\ DAY_START_HOUR \in 0 .. INSTANTS_PER_DAY - 1

Day(t) == t \div INSTANTS_PER_DAY
Midnight(t) == Day(t) * INSTANTS_PER_DAY

service_day_start(now) ==
    LET candidate == Midnight(now) + DAY_START_HOUR IN
    IF now < candidate THEN candidate - INSTANTS_PER_DAY ELSE candidate
===========================================================================
