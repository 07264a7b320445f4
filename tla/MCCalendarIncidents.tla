------------------------ MODULE MCCalendarIncidents -----------------------
(* Small instances of CalendarIncidents.                                    *)
EXTENDS CalendarIncidents, TLC

CONSTANTS admin, alice, bob, minor, major, event

MCUsers == {admin, alice, bob}
MCAdmins == {admin}
MCPair == {admin, alice}
MCContents == {minor, major}
MCMajor == {major}
MCKeys == {event}

(* Primary keys and workers are interchangeable, and so are the two members *)
(* without rights where both exist.                                         *)
MCSymmetry ==
    Permutations(Incidents) \cup Permutations(Chronologies) \cup Permutations(Workers)
MCMemberSymmetry == MCSymmetry \cup Permutations({alice, bob})
===========================================================================
