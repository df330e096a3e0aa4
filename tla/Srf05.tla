-------------------------------- MODULE Srf05 -------------------------------
(***************************************************************************)
(* Srf05Sensor: a thread that triggers the ultrasonic sensor and times its *)
(* echo, and the subscriber of ApplicationCloseEvent that is to stop it.   *)
(***************************************************************************)
EXTENDS Naturals

VARIABLES
    at,        \* where the thread is
    echo,      \* the level of the echo line
    pending,   \* the sensor has been triggered and has not echoed yet
    shutdown,  \* _shutdown
    close      \* the subscriber: "none", "joining" or "done"

vars == <<at, echo, pending, shutdown, close>>
sensor == <<echo, pending>>

Init ==
    /\ at = "open" /\ echo = 0 /\ pending = FALSE
    /\ shutdown = 0 /\ close = "none"

\* The chip and the two lines are requested.  Each call may throw, and an
\* exception that leaves the thread terminates the process.
Open ==
    /\ at = "open" /\ at' \in {"loop", "terminated"}
    /\ UNCHANGED <<sensor, shutdown, close>>

\* while (!_shutdown): a pulse on the trigger line.
Trigger ==
    /\ at = "loop"
    /\ IF shutdown = 0 THEN at' = "rise" /\ pending' = TRUE
                       ELSE at' = "stopped" /\ UNCHANGED pending
    /\ UNCHANGED <<echo, shutdown, close>>

\* The two busy waits for the echo line: without a limit.
AwaitRise ==
    /\ at = "rise" /\ echo = 1 /\ at' = "fall"
    /\ UNCHANGED <<sensor, shutdown, close>>

AwaitFall ==
    /\ at = "fall" /\ echo = 0 /\ at' = "sleep"
    /\ UNCHANGED <<sensor, shutdown, close>>

SleepOne ==
    /\ at = "sleep" /\ at' = "loop"
    /\ UNCHANGED <<sensor, shutdown, close>>

Thread == Open \/ Trigger \/ AwaitRise \/ AwaitFall \/ SleepOne

\* The sensor answers a trigger with a pulse, which the thread misses if it
\* is not scheduled meanwhile.
Echo ==
    /\ at # "terminated"
    /\ \/ pending /\ echo = 0 /\ echo' = 1 /\ pending' = FALSE
       \/ echo = 1 /\ echo' = 0 /\ UNCHANGED pending
    /\ UNCHANGED <<at, shutdown, close>>

-----------------------------------------------------------------------------
\* The subscriber: _shutdown = 0, then _thread.join().
Close ==
    /\ close = "none" /\ at # "terminated"
    /\ shutdown' = 0 /\ close' = "joining"
    /\ UNCHANGED <<at, sensor>>

Join ==
    /\ close = "joining" /\ at = "stopped"
    /\ close' = "done"
    /\ UNCHANGED <<at, sensor, shutdown>>

Next == Thread \/ Echo \/ Close \/ Join

\* The scheduler runs the thread and the sensor answers a trigger.
FairSpec ==
    Init /\ [][Next]_vars /\ WF_vars(Thread) /\ WF_vars(Echo) /\ WF_vars(Join)

-----------------------------------------------------------------------------
\* The thread tests _shutdown before each measurement (Srf05Sensor.cpp:43): as
\* long as measurements come to their end, so that it is tested again and
\* again, the subscriber's join returns.
CloseReturns ==
    []<>(at = "loop") => (close = "joining" ~> close = "done")
=============================================================================
