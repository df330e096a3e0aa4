------------------------------ MODULE DCMotor -------------------------------
(***************************************************************************)
(* The robot's drive: for each wheel two direction lines of the H-bridge   *)
(* and a soft_pwm line for the speed.  A joystick event, delivered by the  *)
(* event bus one at a time, is turned into six writes, left wheel first,   *)
(* while the two PWM threads read the speeds.  Of each wheel's three lines *)
(* only the two for the direction are requested for output.                *)
(***************************************************************************)
EXTENDS Integers, Sequences

CONSTANTS
    PwmRange,       \* the PWM range, 1024
    Span,        \* the largest value of a joystick axis, 32767
    MaxThreads,  \* bound of SoftPwm
    Events       \* the joystick events considered, a subset of JoystickEvents

ASSUME DriveAssumption ==
    /\ PwmRange \in Nat \ {0} /\ MaxThreads \in Nat
    /\ Span \in Nat /\ PwmRange < Span

VARIABLES
    app,     \* "new", then "failed" or "up", then "down" (after preDestroy)
    cmd,     \* the command of the event handled last, per wheel
    at,      \* the next write of the handler, or "idle"
    lines,   \* lines[w]: levels of the direction lines D1 and D2 of wheel w
    leftValue, leftThread, leftLoops, leftLevel,     \* _leftPwm
    rightValue, rightThread, rightLoops, rightLevel, \* _rightPwm
    alive    \* the process has not died

leftPwm  == <<leftValue, leftThread, leftLoops, leftLevel>>
rightPwm == <<rightValue, rightThread, rightLoops, rightLevel>>
drive    == <<app, cmd, at, lines>>
vars     == <<drive, leftPwm, rightPwm, alive>>

Left == INSTANCE SoftPwm WITH
    value <- leftValue, thread <- leftThread, loops <- leftLoops, level <- leftLevel,
    Requested <- FALSE

Right == INSTANCE SoftPwm WITH
    value <- rightValue, thread <- rightThread, loops <- rightLoops, level <- rightLevel,
    Requested <- FALSE

Wheels == {"left", "right"}
Axis   == -(Span + 1)..Span

JoystickEvents ==
    [type : {"gamepad"}, left : Axis, right : Axis]   \* y of the two sticks
    \cup [type : {"joystick"}, left : Axis, right : Axis,   \* lt and rt
          lb : BOOLEAN, rb : BOOLEAN]

ASSUME EventsAssumption == Events \subseteq JoystickEvents

-----------------------------------------------------------------------------
(* From an event to a command.                                             *)

\* Mutant: division that rounds down.
QuotientDown(a, b) == a \div b
\* C++ division truncates towards zero.
Quotient(a, b) == IF a < 0 THEN -((-a) \div b) ELSE a \div b

StickSpeed(y)   == Quotient((IF y < 0 THEN -y ELSE y) * PwmRange, Span)
TriggerSpeed(t) == Quotient((t + Span) * PwmRange, 2 * Span + 1)

Command(e) ==
    IF e.type = "gamepad"
    THEN [left  |-> [speed |-> StickSpeed(e.left),  dir |-> e.left <= 0],
          right |-> [speed |-> StickSpeed(e.right), dir |-> e.right <= 0]]
    ELSE [left  |-> [speed |-> TriggerSpeed(e.left),  dir |-> e.lb],
          right |-> [speed |-> TriggerSpeed(e.right), dir |-> e.rb]]

\* left() and right(): the wheels are mounted the opposite way round.
Direction(w, dir) ==
    IF dir = (w = "left") THEN [d1 |-> 0, d2 |-> 1] ELSE [d1 |-> 1, d2 |-> 0]

Stopped == [d1 |-> 0, d2 |-> 0]
NoCommand == [w \in Wheels |-> [speed |-> 0, dir |-> TRUE]]

Init ==
    /\ app = "new" /\ at = "idle" /\ cmd = NoCommand
    /\ lines = [w \in Wheels |-> Stopped]
    /\ Left!Init /\ Right!Init

\* postConstruct: each wheel's PWM thread starts, with speed 0, before the
\* wheel's direction lines are requested, low.  A line that is missing or busy
\* throws and leaves the rest undone, the subscription included.
\* (A process that dies in setup is dead for both PWMs.)
PostConstruct ==
    /\ app = "new"
    /\ \/ app' = "failed" /\ UNCHANGED <<leftPwm, rightPwm, alive>>
       \/ app' = "failed" /\ Left!Setup(0) /\ UNCHANGED rightPwm
       \/ app' \in {"up", "failed"} /\ Left!Setup(0) /\ Right!Setup(0)
    /\ UNCHANGED <<cmd, at, lines>>

\* preDestroy: the event bus keeps the subscription.
PreDestroy ==
    /\ app = "up" /\ app' = "down"
    /\ Left!Shutdown /\ Right!Shutdown
    /\ UNCHANGED <<cmd, at, lines>>

\* The subscriber is called with an event.
Joystick(e) ==
    /\ alive /\ app \in {"up", "down"} /\ at = "idle"
    /\ cmd' = Command(e)
    /\ at' = "leftD1"
    /\ UNCHANGED <<app, lines, leftPwm, rightPwm, alive>>

\* Line `d' of wheel w is set as the command's direction wants it.
SetLine(w, d, from, to) ==
    /\ alive /\ at = from /\ at' = to
    /\ lines' = [lines EXCEPT ![w][d] = Direction(w, cmd[w].dir)[d]]
    /\ UNCHANGED <<app, cmd, leftPwm, rightPwm, alive>>

\* Mutant: the speed is written between the two lines.
LeftEarly ==
    \/ SetLine("left", "d1", "leftD1", "leftPwm")
    \/ SetLine("left", "d2", "leftD2", "rightD1")
    \/ /\ at = "leftPwm" /\ at' = "leftD2"
       /\ Left!Write(cmd["left"].speed)
       /\ UNCHANGED <<app, cmd, lines, rightPwm>>

LeftWheel ==
    \/ SetLine("left", "d1", "leftD1", "leftD2")
    \/ SetLine("left", "d2", "leftD2", "leftPwm")
    \/ /\ at = "leftPwm" /\ at' = "rightD1"
       /\ Left!Write(cmd["left"].speed)
       /\ UNCHANGED <<app, cmd, lines, rightPwm>>

\* Mutant: the right wheel copies the left wheel's line.
RightCrossed ==
    \/ SetLine("right", "d1", "rightD1", "rightD2")
    \/ /\ at = "rightD2" /\ at' = "rightPwm"
       /\ lines' = [lines EXCEPT !["right"].d2 = Direction("left", cmd["right"].dir).d2]
       /\ UNCHANGED <<app, cmd, leftPwm, rightPwm, alive>>
    \/ /\ at = "rightPwm" /\ at' = "idle"
       /\ Right!Write(cmd["right"].speed)
       /\ UNCHANGED <<app, cmd, lines, leftPwm>>

\* Mutant: a stop of the right wheel is not passed on.
RightUnstopped ==
    \/ SetLine("right", "d1", "rightD1", "rightD2")
    \/ SetLine("right", "d2", "rightD2", IF cmd["right"].speed = 0
                                         THEN "idle" ELSE "rightPwm")
    \/ /\ at = "rightPwm" /\ at' = "idle"
       /\ Right!Write(cmd["right"].speed)
       /\ UNCHANGED <<app, cmd, lines, leftPwm>>

RightWheel ==
    \/ SetLine("right", "d1", "rightD1", "rightD2")
    \/ SetLine("right", "d2", "rightD2", "rightPwm")
    \/ /\ at = "rightPwm" /\ at' = "idle"
       /\ Right!Write(cmd["right"].speed)
       /\ UNCHANGED <<app, cmd, lines, leftPwm>>

\* One step of a PWM thread.
Pulse ==
    \/ Left!Run /\ UNCHANGED <<drive, rightPwm>>
    \/ Right!Run /\ UNCHANGED <<drive, leftPwm>>

Next ==
    \/ PostConstruct \/ PreDestroy
    \/ \E e \in Events : Joystick(e)
    \/ LeftWheel \/ RightWheel \/ Pulse

Spec == Init /\ [][Next]_vars

\* The scheduler runs the event bus's thread and the PWM threads.
FairSpec ==
    /\ Spec
    /\ WF_vars(LeftWheel) /\ WF_vars(RightWheel)
    /\ WF_vars(Left!Run /\ UNCHANGED <<drive, rightPwm>>)
    /\ WF_vars(Right!Run /\ UNCHANGED <<drive, leftPwm>>)

-----------------------------------------------------------------------------
Writes == {"leftD1", "leftD2", "leftPwm", "rightD1", "rightD2", "rightPwm"}

\* Types; a speed is within the PWM's range whatever the axes say, so that
\* write() never has to clamp it.
TypeOK ==
    /\ app \in {"new", "failed", "up", "down"}
    /\ cmd \in [Wheels -> [speed : 0..PwmRange, dir : BOOLEAN]]
    /\ at \in Writes \cup {"idle"}
    /\ lines \in [Wheels -> [d1 : {0, 1}, d2 : {0, 1}]]
    /\ Left!TypeOK /\ Right!TypeOK

\* A wheel never runs at a new speed in the old direction: a speed that is
\* written finds both lines as the same event wants them (DCMotor.cpp:40-64).
SpeedAfterDirection ==
    [][/\ leftValue' # leftValue /\ app # "new" =>
            lines["left"] = Direction("left", cmd["left"].dir)
       /\ rightValue' # rightValue /\ app # "new" =>
            lines["right"] = Direction("right", cmd["right"].dir)]_vars

\* A wheel's two lines differ, so that it neither brakes nor coasts, except
\* between the two writes of a reversal and before its first command, when
\* both are low and its speed is 0.
DrivenUnlessReversing ==
    /\ lines["left"].d1 = lines["left"].d2 /\ at # "leftD2" =>
           lines["left"] = Stopped /\ leftValue = 0
    /\ lines["right"].d1 = lines["right"].d2 /\ at # "rightD2" =>
           lines["right"] = Stopped /\ rightValue = 0

\* When the handler is done, both wheels are as the last event wants them.
Obeyed ==
    at = "idle" =>
        /\ leftValue = cmd["left"].speed /\ rightValue = cmd["right"].speed
        /\ \A w \in Wheels :
               \/ lines[w] = Direction(w, cmd[w].dir)
               \/ lines[w] = Stopped /\ cmd = NoCommand

\* A wheel whose speed stays, as it does when the sticks are let go, ends the
\* process: its thread finds a pulse or a space to give, on a line that nobody
\* requested (DCMotor.cpp:73 and 79).  Only a thread all of whose frames are
\* torn, by writes between the two reads of _value, lives on.
SteadySpeedIsFatal ==
    \A v \in 0..PwmRange :
        /\ <>[](leftLoops # <<>> /\ leftValue = v) => <>~alive
        /\ <>[](rightLoops # <<>> /\ rightValue = v) => <>~alive
=============================================================================
