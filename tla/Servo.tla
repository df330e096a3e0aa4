------------------------------- MODULE Servo --------------------------------
(***************************************************************************)
(* I2CServoMotor: a servo on a PWM chip behind an I2C bus.  The chip is    *)
(* set up once; afterwards every joystick event becomes a pulse, whose     *)
(* 12-bit end is written to two 8-bit registers, one I2C transaction each. *)
(* Any access may fail: the driver returns -1, and nobody looks at it.     *)
(***************************************************************************)
EXTENDS Integers

CONSTANT Axes   \* positions of the right stick on its x axis, 16 bits wide

ASSUME AxesAssumption == \A x \in Axes : x \in Int /\ -32768 <= x /\ x <= 32767

VARIABLES
    at,      \* the access that comes next, or "idle"
    axis,    \* x of the last event
    oldMode, \* setPWMFreq's oldMode: does its bit 4, SLEEP, say asleep?
    chip,    \* the registers: SLEEP of MODE1, PRESCALE, LED_OFF_L, LED_OFF_H
    faulty   \* the accesses of postConstruct, or of the last event, that failed

vars == <<at, axis, oldMode, chip, faulty>>

SetUp  == {"clear", "read", "sleep", "prescale", "wake", "restart"}
Writes == {"low", "high"}
Byte   == 0..255

\* lroundf(25000000.0f / (4096 * 50))
PreScale == 122

Pulse(x) == ((-x + 32768) * 2000) \div 65535 + 500

\* setServoPulse: microseconds of 20 ms in steps of 1/4096.
Off(x) == (Pulse(x) * 4096) \div 20000

LowByte(off)  == off % 256
HighByte(off) == off \div 256

\* The chip's register pair: where the pulse ends.
End == chip.low + 256 * chip.high

NoEvent == 32768   \* no position of an axis

PowerOn == 30      \* PRESCALE after power-on, about 200 Hz

\* The chip is as power-on or any earlier run has left it: a run whose accesses
\* failed leaves it asleep or awake, at either prescaler, with the bytes of two
\* positions in its registers.
Init ==
    /\ at = "clear" /\ axis = NoEvent /\ oldMode = FALSE /\ faulty = {}
    /\ chip \in [asleep : BOOLEAN, prescale : {PowerOn, PreScale},
                 low : {0} \cup {LowByte(Off(x)) : x \in Axes},
                 high : {0} \cup {HighByte(Off(x)) : x \in Axes}]

-----------------------------------------------------------------------------
\* One write to the chip.  A write that fails may have been carried out.
Access(here, next, result) ==
    /\ at = here /\ at' = next
    /\ \/ chip' = result /\ UNCHANGED faulty
       \/ chip' \in {chip, result} /\ faulty' = faulty \cup {here}
    /\ UNCHANGED axis

WriteMode(here, next, sleep) ==
    /\ Access(here, next, [chip EXCEPT !.asleep = sleep])
    /\ UNCHANGED oldMode

\* postConstruct writes 0 to MODE1; setPWMFreq reads it back as oldMode.  A
\* read that fails gives -1, in which SLEEP is set.
Clear == WriteMode("clear", "read", FALSE)

ReadMode ==
    /\ at = "read" /\ at' = "sleep"
    /\ \/ oldMode' = chip.asleep /\ UNCHANGED faulty
       \/ oldMode' = TRUE /\ faulty' = faulty \cup {"read"}
    /\ UNCHANGED <<axis, chip>>

Sleep == WriteMode("sleep", "prescale", TRUE)

\* The chip takes a new PRESCALE only while it sleeps.
WritePreScale ==
    /\ Access("prescale", "wake",
              [chip EXCEPT !.prescale = IF chip.asleep THEN PreScale ELSE @])
    /\ UNCHANGED oldMode

\* Mutant: the chip is left in the mode that the change of PRESCALE needs.
WakeForgotten == WriteMode("wake", "restart", TRUE) \/ WriteMode("restart", "idle", TRUE)

\* MODE1 gets oldMode again, and 5 ms later oldMode with RESTART.
Wake == WriteMode("wake", "restart", oldMode) \/ WriteMode("restart", "idle", oldMode)

\* The subscriber, which postConstruct subscribes at its end, gets an event.
Joystick(x) ==
    /\ at = "idle" /\ at' = "low"
    /\ axis' = x
    /\ faulty' = faulty \ Writes
    /\ UNCHANGED <<oldMode, chip>>

\* Mutants: the second write is skipped when the high byte is 0, or carries
\* what is left of the low byte.
SetPWMShort ==
    \/ /\ Access("low", IF Off(axis) > 255 THEN "high" ELSE "idle",
                 [chip EXCEPT !.low = LowByte(Off(axis))])
       /\ UNCHANGED oldMode
    \/ /\ Access("high", "idle", [chip EXCEPT !.high = HighByte(Off(axis))])
       /\ UNCHANGED oldMode
SetPWMWide ==
    \/ /\ Access("low", "high", [chip EXCEPT !.low = Off(axis)])
       /\ UNCHANGED oldMode
    \/ /\ Access("high", "idle", [chip EXCEPT !.high = HighByte(Off(axis))])
       /\ UNCHANGED oldMode

\* setPWM: OFF_L, then OFF_H.
SetPWM ==
    \/ /\ Access("low", "high", [chip EXCEPT !.low = LowByte(Off(axis))])
       /\ UNCHANGED oldMode
    \/ /\ Access("high", "idle", [chip EXCEPT !.high = HighByte(Off(axis))])
       /\ UNCHANGED oldMode

PostConstruct == Clear \/ ReadMode \/ Sleep \/ WritePreScale \/ Wake

Next == PostConstruct \/ SetPWM \/ \E x \in Axes : Joystick(x)

Spec == Init /\ [][Next]_vars

-----------------------------------------------------------------------------
\* Types; in particular what is written to a register is a byte.
TypeOK ==
    /\ at \in SetUp \cup Writes \cup {"idle"}
    /\ axis \in Axes \cup {NoEvent}
    /\ oldMode \in BOOLEAN
    /\ chip \in [asleep : BOOLEAN, prescale : {PowerOn, PreScale}, low : Byte, high : 0..2]
    /\ faulty \subseteq SetUp \cup Writes

\* If no access of postConstruct failed, the servo gets events only when the
\* chip is awake and has the prescaler of 50 Hz (I2CServoMotor.cpp:29-39).
SetUpDone ==
    at \notin SetUp /\ faulty \cap SetUp = {} =>
        ~chip.asleep /\ chip.prescale = PreScale

\* By the chip's data sheet a step of its pulse takes (PRESCALE + 1) / 25 us.
Width == (End * (chip.prescale + 1)) \div 25

\* When set-up had no failure and neither had the two writes of the last event,
\* the servo gets the pulse that the event asks for, of 0.5 to 2.5 ms, to within
\* 20 us: whatever failed in an earlier event or run, and although PRESCALE is
\* one too high; the mix of two positions that the registers hold between the
\* writes does not last (I2CServoMotor.cpp:29-48).
InPosition ==
    at = "idle" /\ axis # NoEvent /\ faulty = {} =>
        ~chip.asleep /\ Width \in (Pulse(axis) - 3)..(Pulse(axis) + 20)
=============================================================================
