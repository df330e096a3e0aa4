---------------------------- MODULE SoftPwmProofs ---------------------------
(***************************************************************************)
(* Type correctness of SoftPwm and the safety half of its two liveness     *)
(* properties, for any range and any number of threads.                    *)
(***************************************************************************)
EXTENDS SoftPwm, TLAPS

\* write keeps _value within the range, whatever it is given (pwm.cpp:68-74).
LEMMA ClampType == \A v \in Int : Clamp(v) \in 0..PwmRange
  BY RangeAssumption DEF Clamp

LEMMA TopType == Top \in Loop
  BY RangeAssumption DEF Top, Loop, Places

LEMMA InitType == Init => TypeOK
  BY RangeAssumption DEF Init, TypeOK

\* What the owner does to the value and the handle.
LEMMA OwnerType ==
    ASSUME TypeOK,
           \/ \E v \in 0..PwmRange : Setup(v)
           \/ \E v \in -1..(PwmRange + 1) : Write(v)
           \/ Shutdown
           \/ Crash
    PROVE  TypeOK'
  <1>1. CASE Die
    BY <1>1 DEF TypeOK, Die
  <1>2. ASSUME NEW v \in 0..PwmRange, Setup(v), ~Die
        PROVE  TypeOK'
    <2>1. /\ value' = v /\ thread' = Len(loops) + 1 /\ loops' = Append(loops, Top)
          /\ UNCHANGED <<level, alive>>
      BY <1>2 DEF Setup
    <2>2. loops' \in Seq(Loop) /\ Len(loops') = Len(loops) + 1
      BY <2>1, TopType DEF TypeOK
    <2>3. thread' \in 0..Len(loops')
      BY <2>1, <2>2 DEF TypeOK
    <2> QED
      BY <2>1, <2>2, <2>3 DEF TypeOK
  <1>3. ASSUME NEW v \in -1..(PwmRange + 1), Write(v)
        PROVE  TypeOK'
    <2>1. value' \in 0..PwmRange
      BY <1>3, ClampType, RangeAssumption DEF Write
    <2> QED
      BY <1>3, <2>1 DEF Write, TypeOK
  <1>5. CASE Crash
    BY <1>1, <1>5 DEF Crash
  <1>4. CASE Shutdown /\ ~Die
    <2>1. thread' = 0 /\ UNCHANGED <<value, loops, level, alive>>
      BY <1>4 DEF Shutdown
    <2>2. 0 \in 0..Len(loops)
      BY DEF TypeOK
    <2> QED
      BY <2>1, <2>2 DEF TypeOK
  <1> QED
    BY <1>1, <1>2, <1>3, <1>4, <1>5

\* A thread keeps both locals within the range: a torn frame, whose two reads
\* of _value differ, is no exception.
LEMMA StepType ==
    ASSUME TypeOK, NEW n \in DOMAIN loops, Step(n)
    PROVE  TypeOK'
  <1>1. loops[n] \in Loop /\ value \in 0..PwmRange
    BY DEF TypeOK
  <1>2. ASSUME NEW loop \in Loop, loops' = [loops EXCEPT ![n] = loop],
               level' \in {0, 1}, UNCHANGED <<value, thread, alive>>
        PROVE  TypeOK'
    <2>1. loops' \in Seq(Loop) /\ Len(loops') = Len(loops)
      BY <1>2 DEF TypeOK
    <2> QED
      BY <1>2, <2>1 DEF TypeOK
  <1>3. CASE LoadMark(n)
    <2>1. [loops[n] EXCEPT !.at = "space", !.mark = value] \in Loop
      BY <1>1 DEF Loop, Places
    <2> QED
      BY <1>2, <1>3, <2>1 DEF LoadMark, TypeOK
  <1>4. CASE LoadSpace(n)
    <2>1. PwmRange - value \in 0..PwmRange
      BY <1>1, RangeAssumption
    <2>2. [loops[n] EXCEPT !.at = "rise", !.space = PwmRange - value] \in Loop
      BY <1>1, <2>1 DEF Loop, Places
    <2> QED
      BY <1>2, <1>4, <2>2 DEF LoadSpace, TypeOK
  <1>5. CASE Die
    BY <1>5 DEF Die, TypeOK
  <1>6. ASSUME NEW loop \in Loop, NEW l \in {0, 1}, Set(n, l, loop) \/ Skip(n, loop)
        PROVE  TypeOK'
    BY <1>2, <1>5, <1>6 DEF Set, Skip, TypeOK
  <1>7. CASE Rise(n)
    <2>1. [loops[n] EXCEPT !.at = "fall"] \in Loop
      BY <1>1 DEF Loop, Places
    <2> QED
      BY <1>6, <1>7, <2>1 DEF Rise
  <1>8. CASE Fall(n)
    BY <1>6, <1>8, TopType DEF Fall
  <1> QED
    BY <1>3, <1>4, <1>7, <1>8 DEF Step

\* Types; in particular the threads never sleep for a negative number of
\* units, which delayMicroseconds would take as a huge one (pwm.cpp:85-99).
THEOREM TypeCorrect == Spec => []TypeOK
  <1>1. TypeOK /\ [Next]_vars => TypeOK'
    <2>1. ASSUME TypeOK, UNCHANGED vars
          PROVE  TypeOK'
      BY <2>1 DEF TypeOK, vars
    <2> QED
      BY <2>1, OwnerType, StepType DEF Next, Run
  <1> QED
    BY <1>1, InitType, PTL DEF Spec

-----------------------------------------------------------------------------
(* Frames, once no write tears them.                                       *)

\* The part of a frame that a thread has begun fits the value v.
Whole(loop, v) ==
    /\ loop.at # "mark" => loop.mark = v
    /\ loop.at \in {"rise", "fall"} => loop.space = PwmRange - v

\* Every frame that a thread has begun fits the value there is.
Settled == \A n \in DOMAIN loops : Whole(loops[n], value)

\* A thread's step turns its frame into another one that fits.
LEMMA StepWhole ==
    ASSUME TypeOK, NEW n \in DOMAIN loops, Whole(loops[n], value), Step(n)
    PROVE  /\ UNCHANGED value /\ DOMAIN loops' = DOMAIN loops
           /\ \A m \in DOMAIN loops \ {n} : loops'[m] = loops[m]
           /\ Whole(loops'[n], value)
  <1>1. loops[n] \in Loop
    BY DEF TypeOK
  <1> DEFINE Becomes(loop) == loops' = [loops EXCEPT ![n] = loop] /\ UNCHANGED value
  <1>2. ASSUME NEW loop, Becomes(loop), Whole(loop, value)
        PROVE  /\ UNCHANGED value /\ DOMAIN loops' = DOMAIN loops
               /\ \A m \in DOMAIN loops \ {n} : loops'[m] = loops[m]
               /\ Whole(loops'[n], value)
    BY <1>2
  <1> HIDE DEF Becomes
  <1>3. CASE LoadMark(n)
    <2>1. Becomes([loops[n] EXCEPT !.at = "space", !.mark = value])
      BY <1>3 DEF LoadMark, Becomes
    <2>2. Whole([loops[n] EXCEPT !.at = "space", !.mark = value], value)
      BY <1>1 DEF Whole, Loop
    <2> QED
      BY <1>2, <2>1, <2>2
  <1>4. CASE LoadSpace(n)
    <2>1. Becomes([loops[n] EXCEPT !.at = "rise", !.space = PwmRange - value])
      BY <1>4 DEF LoadSpace, Becomes
    <2>2. Whole([loops[n] EXCEPT !.at = "rise", !.space = PwmRange - value], value)
      BY <1>1, <1>4 DEF Whole, Loop, LoadSpace, At
    <2> QED
      BY <1>2, <2>1, <2>2
  <1>5. CASE Die
    BY <1>5 DEF Die
  <1>6. ASSUME NEW loop, NEW l, Set(n, l, loop) \/ Skip(n, loop), Whole(loop, value)
        PROVE  /\ UNCHANGED value /\ DOMAIN loops' = DOMAIN loops
               /\ \A m \in DOMAIN loops \ {n} : loops'[m] = loops[m]
               /\ Whole(loops'[n], value)
    BY <1>2, <1>5, <1>6 DEF Set, Skip, Becomes
  <1>7. CASE Rise(n)
    <2>1. Whole([loops[n] EXCEPT !.at = "fall"], value)
      BY <1>1, <1>7 DEF Whole, Loop, Rise, At
    <2> QED
      BY <1>6, <1>7, <2>1 DEF Rise
  <1>8. CASE Fall(n)
    BY <1>6, <1>8 DEF Fall, Whole, Top
  <1> QED
    BY <1>3, <1>4, <1>7, <1>8 DEF Step

\* The safety half of FramesSettle and LevelSettles: while the owner does not
\* write, frames that fit the value are followed by frames that fit it, those of
\* threads that setup adds included, and no thread moves the line away from where
\* the value wants it, low for 0 and high for the whole range (pwm.cpp:85-99).
\* What is left for liveness is that each thread comes to the end of the frame
\* that a write has torn.
SettledStays ==
    [][Settled /\ UNCHANGED value =>
          /\ Settled'
          /\ value = 0 /\ level = 0 => level' = 0
          /\ value = PwmRange /\ level = 1 => level' = 1]_vars

\* Both locals are read from the value that is there, so a pulse of the whole
\* range has no space after it and a space of the whole range no pulse before it.
THEOREM SettledStaysAlways == Spec => SettledStays
  <1>1. ASSUME TypeOK, [Next]_vars, Settled, UNCHANGED value
        PROVE  /\ Settled'
               /\ value = 0 /\ level = 0 => level' = 0
               /\ value = PwmRange /\ level = 1 => level' = 1
    <2>1. CASE UNCHANGED <<loops, level>>
      BY <1>1, <2>1 DEF Settled, Whole
    <2>2. CASE loops' = Append(loops, Top) /\ UNCHANGED level
      <3>1. \A n \in DOMAIN loops' :
                \/ loops'[n] = Top
                \/ n \in DOMAIN loops /\ loops'[n] = loops[n]
        BY <1>1, <2>2 DEF TypeOK
      <3>2. Whole(Top, value)
        BY DEF Whole, Top
      <3>3. \A n \in DOMAIN loops' : Whole(loops'[n], value)
        BY <1>1, <3>1, <3>2 DEF Settled
      <3> QED
        BY <1>1, <2>2, <3>3 DEF Settled, Whole
    <2>3. ASSUME NEW n \in DOMAIN loops, Step(n)
          PROVE  /\ Settled'
                 /\ value = 0 /\ level = 0 => level' = 0
                 /\ value = PwmRange /\ level = 1 => level' = 1
      <3>1. Whole(loops[n], value) /\ value \in 0..PwmRange /\ level \in {0, 1}
        BY <1>1 DEF Settled, TypeOK
      <3>2. \A m \in DOMAIN loops' : Whole(loops'[m], value)
        BY <1>1, <2>3, <3>1, StepWhole DEF Settled
      <3>3. Settled'
        BY <1>1, <3>2 DEF Settled, Whole
      <3>4. CASE UNCHANGED level
        BY <3>3, <3>4
      <3>5. CASE Rise(n)
        <4>1. loops[n].mark = value
          BY <3>1, <3>5 DEF Whole, Rise, At
        <4> QED
          BY <3>1, <3>3, <3>5, <4>1 DEF Rise, Set, Skip, Die
      <3>6. CASE Fall(n)
        <4>1. loops[n].space = PwmRange - value
          BY <3>1, <3>6 DEF Whole, Fall, At
        <4> QED
          BY <3>1, <3>3, <3>6, <4>1, RangeAssumption DEF Fall, Set, Skip, Die
      <3> QED
        BY <2>3, <3>4, <3>5, <3>6 DEF Step, LoadMark, LoadSpace
    <2> QED
      BY <1>1, <2>1, <2>2, <2>3 DEF Next, Setup, Write, Shutdown, Crash, Die, Run, vars
  <1> QED
    BY <1>1, TypeCorrect, PTL DEF Spec, SettledStays

-----------------------------------------------------------------------------
(* A line that nobody requested.                                           *)

\* A thread ends a frame only if the frame had neither pulse nor space to give,
\* which is a frame torn by a write from 0 to the whole range between the two
\* reads of _value (pwm.cpp:87): any other one it does not survive.
OnlyEmptyFramesEnd ==
    [][\A n \in DOMAIN loops :
          loops[n].at = "fall" /\ loops'[n] # loops[n] =>
              loops[n].mark = 0 /\ loops[n].space = 0]_vars

\* Who is past the pulse had none to give.
NoPulseGiven == \A n \in DOMAIN loops : loops[n].at = "fall" => loops[n].mark = 0

\* One thread's step.
LEMMA StepUnrequested ==
    ASSUME ~Requested, TypeOK, NoPulseGiven, NEW n \in DOMAIN loops, Step(n)
    PROVE  /\ NoPulseGiven'
           /\ \A m \in DOMAIN loops :
                 loops[m].at = "fall" /\ loops'[m] # loops[m] =>
                     loops[m].mark = 0 /\ loops[m].space = 0
  <1>1. loops[n] \in Loop
    BY DEF TypeOK
  <1>2. ASSUME NEW loop, loops' = [loops EXCEPT ![n] = loop],
               loop.at = "fall" => loop.mark = 0,
               loops[n].at = "fall" => loops[n].mark = 0 /\ loops[n].space = 0
        PROVE  /\ NoPulseGiven'
               /\ \A m \in DOMAIN loops :
                     loops[m].at = "fall" /\ loops'[m] # loops[m] =>
                         loops[m].mark = 0 /\ loops[m].space = 0
    BY <1>2 DEF NoPulseGiven
  <1>3. CASE Die
    BY <1>3 DEF Die, NoPulseGiven
  <1>4. CASE LoadMark(n)
    <2>1. [loops[n] EXCEPT !.at = "space", !.mark = value].at # "fall"
      BY <1>1 DEF Loop
    <2> QED
      BY <1>2, <1>4, <2>1 DEF LoadMark, At
  <1>5. CASE LoadSpace(n)
    <2>1. [loops[n] EXCEPT !.at = "rise", !.space = PwmRange - value].at # "fall"
      BY <1>1 DEF Loop
    <2> QED
      BY <1>2, <1>5, <2>1 DEF LoadSpace, At
  <1>6. CASE Rise(n) /\ ~Die
    <2>1. loops[n].mark = 0 /\ Skip(n, [loops[n] EXCEPT !.at = "fall"])
      BY <1>6 DEF Rise, Set
    <2>2. [loops[n] EXCEPT !.at = "fall"].mark = 0
      BY <1>1, <2>1 DEF Loop
    <2> QED
      BY <1>2, <1>6, <2>1, <2>2 DEF Rise, At, Skip
  <1>7. CASE Fall(n) /\ ~Die
    <2>1. loops[n].space = 0 /\ Skip(n, Top)
      BY <1>7 DEF Fall, Set
    <2>2. loops[n].mark = 0
      BY <1>7 DEF NoPulseGiven, Fall, At
    <2> QED
      BY <1>2, <2>1, <2>2 DEF Skip, Top
  <1> QED
    BY <1>3, <1>4, <1>5, <1>6, <1>7 DEF Step

\* The safety half of the drive's SteadySpeedIsFatal, for any range and any number
\* of threads: a value that stays gives frames that are not empty (Settled), and
\* none of those is ended.
THEOREM UnrequestedLine ==
    ASSUME ~Requested
    PROVE  Spec => OnlyEmptyFramesEnd
  <1>1. Init => NoPulseGiven
    BY DEF Init, NoPulseGiven
  <1>2. ASSUME TypeOK, NoPulseGiven, [Next]_vars
        PROVE  /\ NoPulseGiven'
               /\ \A n \in DOMAIN loops :
                     loops[n].at = "fall" /\ loops'[n] # loops[n] =>
                         loops[n].mark = 0 /\ loops[n].space = 0
    <2>1. CASE UNCHANGED loops
      BY <1>2, <2>1 DEF NoPulseGiven
    <2>2. CASE loops' = Append(loops, Top)
      <3>1. \A n \in DOMAIN loops' :
                \/ loops'[n] = Top
                \/ n \in DOMAIN loops /\ loops'[n] = loops[n]
        BY <1>2, <2>2 DEF TypeOK
      <3>2. \A n \in DOMAIN loops : loops'[n] = loops[n]
        BY <1>2, <2>2 DEF TypeOK
      <3>3. \A n \in DOMAIN loops' : loops'[n].at = "fall" => loops'[n].mark = 0
        BY <1>2, <3>1 DEF NoPulseGiven, Top
      <3> QED
        BY <3>2, <3>3 DEF NoPulseGiven
    <2>3. CASE Run
      BY <1>2, <2>3, StepUnrequested DEF Run
    <2> QED
      BY <1>2, <2>1, <2>2, <2>3
         DEF Next, Setup, Write, Shutdown, Crash, Die, vars
  <1> QED
    BY <1>1, <1>2, TypeCorrect, PTL DEF Spec, OnlyEmptyFramesEnd
=============================================================================
