------------------------------ MODULE SoftPwm -------------------------------
(***************************************************************************)
(* gpiod::extension::soft_pwm: a thread that pulses a GPIO line, high for  *)
(* `_value' and low for `_range - _value' units of 100 us, while its owner *)
(* changes `_value' under it without a lock.                               *)
(*                                                                         *)
(* The conditions in setup and shutdown are written `if (!_thread)', so a  *)
(* thread is never stopped, and pthread_cancel is called without one.  The *)
(* latter is undefined: the calls fail, or the process dies.               *)
(*                                                                         *)
(* set_value throws when it cannot set the line, always so for a line that *)
(* nobody requested; nothing in the thread catches it, which ends the      *)
(* process (std::terminate).                                               *)
(***************************************************************************)
EXTENDS Integers, Sequences

CONSTANTS
    PwmRange,    \* _range
    MaxThreads,  \* bound on the threads that setup creates
    Requested    \* the owner requests the line for output before setup

ASSUME RangeAssumption ==
    PwmRange \in Nat \ {0} /\ MaxThreads \in Nat /\ Requested \in BOOLEAN

VARIABLES
    value,   \* _value, read by the threads and written by the owner
    thread,  \* _thread: 0, or the number of the thread created last
    loops,   \* loops[n]: thread n in process(), its place and its locals
    level,   \* the level of the line
    alive    \* the process has not died

vars == <<value, thread, loops, level, alive>>

Places == {"mark", "space", "rise", "fall"}

Loop == [at : Places, mark : 0..PwmRange, space : 0..PwmRange]

Top == [at |-> "mark", mark |-> 0, space |-> 0]

Init ==
    /\ value = 0 /\ thread = 0 /\ loops = <<>>
    /\ level = 0 /\ alive = TRUE

-----------------------------------------------------------------------------
(* The owner.                                                              *)

Die == alive' = FALSE /\ UNCHANGED <<value, thread, loops, level>>

\* Something else in the process ends it.
Crash == alive /\ Die

\* setup: a thread that runs is not stopped, its handle is overwritten.
Setup(v) ==
    /\ alive /\ Len(loops) < MaxThreads
    /\ \/ thread = 0 /\ Die
       \/ /\ value' = v
          /\ thread' = Len(loops) + 1
          /\ loops' = Append(loops, Top)
          /\ UNCHANGED <<level, alive>>

\* Mutant: write stores what it is given.
ClampNothing(v) == v
Clamp(v) == IF v < 0 THEN 0 ELSE IF v > PwmRange THEN PwmRange ELSE v

Write(v) ==
    /\ alive /\ loops # <<>>
    /\ value' = Clamp(v)
    /\ UNCHANGED <<thread, loops, level, alive>>

\* shutdown, also run by the destructor: it forgets the thread.
Shutdown ==
    /\ alive
    /\ \/ thread = 0 /\ Die
       \/ thread' = 0 /\ UNCHANGED <<value, loops, level, alive>>

-----------------------------------------------------------------------------
(* process(), by thread n: between two steps the owner may write, and      *)
(* before "fall" and "mark" the thread sleeps for mark and space units.    *)

At(n, place) == alive /\ loops[n].at = place

\* Mutant: the thread goes on when the line cannot be set.
SetSwallowed(n, l, loop) ==
    /\ level' \in IF Requested THEN {l, level} ELSE {level}
    /\ loops' = [loops EXCEPT ![n] = loop]
    /\ UNCHANGED <<value, thread, alive>>

\* set_value(l), after which thread n is as `loop' says.
Set(n, l, loop) ==
    \/ Die
    \/ /\ Requested
       /\ level' = l
       /\ loops' = [loops EXCEPT ![n] = loop]
       /\ UNCHANGED <<value, thread, alive>>

\* The line is left alone.
Skip(n, loop) ==
    /\ loops' = [loops EXCEPT ![n] = loop]
    /\ UNCHANGED <<value, thread, level, alive>>

\* `int mark = _value, space = _range - _value' reads `_value' twice.
LoadMark(n) ==
    /\ At(n, "mark")
    /\ loops' = [loops EXCEPT ![n] = [@ EXCEPT !.at = "space", !.mark = value]]
    /\ UNCHANGED <<value, thread, level, alive>>

\* Mutant: every pulse is followed by a space of the whole range.
LoadSpaceWhole(n) ==
    /\ At(n, "space")
    /\ loops' = [loops EXCEPT ![n] = [@ EXCEPT !.at = "rise", !.space = PwmRange]]
    /\ UNCHANGED <<value, thread, level, alive>>

LoadSpace(n) ==
    /\ At(n, "space")
    /\ loops' = [loops EXCEPT ![n] = [@ EXCEPT !.at = "rise", !.space = PwmRange - value]]
    /\ UNCHANGED <<value, thread, level, alive>>

Rise(n) ==
    /\ At(n, "rise")
    /\ LET loop == [loops[n] EXCEPT !.at = "fall"]
       IN  IF loops[n].mark # 0 THEN Set(n, 1, loop) ELSE Skip(n, loop)

\* Mutant: the line is lowered at the end of every pulse.
FallAlways(n) == At(n, "fall") /\ Set(n, 0, Top)

\* The locals' last use: the loop starts again with new ones.
Fall(n) ==
    /\ At(n, "fall")
    /\ IF loops[n].space # 0 THEN Set(n, 0, Top) ELSE Skip(n, Top)

Step(n) == LoadMark(n) \/ LoadSpace(n) \/ Rise(n) \/ Fall(n)

Run == \E n \in DOMAIN loops : Step(n)

Next == \/ \E v \in 0..PwmRange : Setup(v)
        \/ \E v \in -1..(PwmRange + 1) : Write(v)
        \/ Shutdown
        \/ Crash
        \/ Run

Spec == Init /\ [][Next]_vars

\* The scheduler runs every thread; nothing stops the threads.
FairSpec ==
    Spec /\ \A n \in 1..MaxThreads : WF_vars(n \in DOMAIN loops /\ Step(n))

-----------------------------------------------------------------------------
\* Types; in particular mark and space, which delayMicroseconds takes as
\* unsigned, are never negative.
TypeOK ==
    /\ value \in 0..PwmRange
    /\ loops \in Seq(Loop)
    /\ thread \in 0..Len(loops)
    /\ level \in {0, 1}
    /\ alive \in BOOLEAN

\* Once the owner has written a value for good and while the line can be set,
\* the line follows it: low for 0, high without a gap for the whole range,
\* pulsing in between, whatever frames were torn by writes between the two
\* reads of _value (pwm.cpp:87), and however many threads setup has left on it.
LevelSettles ==
    LET Steady(v) == value = v /\ loops # <<>> /\ alive
    IN  /\ <>[]Steady(0) => <>[](level = 0)
        /\ <>[]Steady(PwmRange) => <>[](level = 1)
        /\ \A v \in 1..(PwmRange - 1) :
               <>[]Steady(v) => []<>(level = 0) /\ []<>(level = 1)

\* ... and every frame is whole: marks and spaces that fit the value.
FramesSettle ==
    \A v \in 0..PwmRange :
        <>[](value = v) =>
            <>[](\A n \in DOMAIN loops :
                    loops[n].at = "fall" /\ alive =>
                        loops[n].mark = v /\ loops[n].space = PwmRange - v)
=============================================================================
