---------------------------- MODULE ReportService ----------------------------
(* What the sending thread promises about the reports of the opening, seen  *)
(* from outside.  A report is made of the present opening when it is        *)
(* at rest and more than 5 away from the last one reported, and per_alarm is *)
(* stored for a report and for nothing else.  There is one report at a time; *)
(* it goes to a platform once at most, and may get lost on the way, and a    *)
(* platform is told nothing but the report that is under way.                *)
EXTENDS Naturals

CONSTANTS Platforms,
          Values,     \* openings
          None        \* no report under way

VARIABLES state_per,  \* the opening
          quiet,      \* it is at rest
          per_alarm,  \* the opening last reported
          report,     \* the report under way, or None
          sent,       \* the platforms it was sent to
          known       \* what each platform was last told

vars == <<state_per, quiet, per_alarm, report, sent, known>>

Init == /\ state_per \in Values /\ quiet \in BOOLEAN
        /\ per_alarm \in Values
        /\ report = None /\ sent = {}
        /\ known = [s \in Platforms |-> per_alarm]

Apart(a, b) == IF a > b THEN a - b > 5 ELSE b - a > 5

Move(v, q) == /\ state_per' = v /\ quiet' = q
              /\ UNCHANGED <<per_alarm, report, sent, known>>

Report == /\ report = None
          /\ quiet /\ Apart(per_alarm, state_per)
          /\ report' = state_per /\ sent' = {} /\ per_alarm' = state_per
          /\ UNCHANGED <<state_per, quiet, known>>

Send(s) == /\ report # None /\ s \notin sent
           /\ sent' = sent \cup {s}
           /\ known' \in {known, [known EXCEPT ![s] = report]}
           /\ UNCHANGED <<state_per, quiet, per_alarm, report>>

(* The report was sent to whom there was, or died with up_main.             *)
End == /\ report # None
       /\ report' = None /\ sent' = {}
       /\ UNCHANGED <<state_per, quiet, per_alarm, known>>

(* ValveControl, at its start, takes a measurement for a last report that    *)
(* was of no opening.                                                       *)
Adopt(v) == /\ per_alarm > 100
            /\ per_alarm' = v
            /\ UNCHANGED <<state_per, quiet, report, sent, known>>

Next == \/ \E v \in Values, q \in BOOLEAN : Move(v, q)
        \/ Report \/ (\E s \in Platforms : Send(s)) \/ End
        \/ \E v \in Values : Adopt(v)

Spec == Init /\ [][Next]_vars
=============================================================================
