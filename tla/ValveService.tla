---------------------------- MODULE ValveService ----------------------------
(* What the command path promises, seen from outside: somebody changes the  *)
(* wanted opening at will; the service picks the opening wanted at that     *)
(* moment and later has driven the valve to it.  It drives to nothing that  *)
(* was not wanted when it picked, and unless it is excused it picks an     *)
(* opening that stays wanted.                                               *)
EXTENDS Naturals

CONSTANTS Values,   \* openings
          Lasting,  \* openings somebody may go on wanting for ever
          None      \* no drive under way

VARIABLES want,     \* the opening wanted
          goal,     \* the opening a drive under way was started for, or None
          have,     \* the opening of the last finished drive
          excused   \* the service has lost track of a command

vars == <<want, goal, have, excused>>

Init == want \in Values /\ goal = None /\ have = want /\ excused \in BOOLEAN

(* Whom the new command comes from decides whether it is owed at all.       *)
Command == want' \in Values /\ excused' \in BOOLEAN /\ UNCHANGED <<goal, have>>

Pick == goal = None /\ goal' = want /\ UNCHANGED <<want, have, excused>>

Deliver == goal # None /\ have' = goal /\ goal' = None
           /\ UNCHANGED <<want, excused>>

(* The service dies; a drive under way excuses it.                          *)
Die == /\ goal' = None
       /\ excused' \in {excused, TRUE}
       /\ goal # None => excused'
       /\ UNCHANGED <<want, have>>

(* With no setpoint stored the service takes the present opening for it.    *)
Adopt == /\ goal = None
         /\ want' \in Values /\ have' = want'
         /\ UNCHANGED <<goal, excused>>

Excuse == excused' \in BOOLEAN /\ UNCHANGED <<want, goal, have>>

Next == Command \/ Adopt \/ Pick \/ Deliver \/ Die \/ Excuse

Safety == Init /\ [][Next]_vars

(* Whoever changes his mind all the time may never be served: the service   *)
(* owes a pick only to an opening that stays wanted.                        *)
Owed(v) == want = v /\ want # have /\ ~excused
Spec == /\ Safety
        /\ \A v \in Lasting : WF_vars(Owed(v) /\ Pick)
        /\ WF_vars(Deliver)
=============================================================================
