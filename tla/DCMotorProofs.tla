--------------------------- MODULE DCMotorProofs ----------------------------
(***************************************************************************)
(* The drive's safety, for every range, axis width and set of events, and  *)
(* what is proved of SoftPwm for each of its wheels.                       *)
(***************************************************************************)
EXTENDS DCMotor, SequenceTheorems, TLAPS

-----------------------------------------------------------------------------
(* Arithmetic: a speed computed from an axis of 16 bits is within the      *)
(* PWM's range, although an axis has one more negative than positive value.*)

LEMMA QuotientBound ==
    ASSUME NEW a \in Int, NEW b \in Nat \ {0}, NEW k \in Nat,
           -b < a, a < b * (k + 1)
    PROVE  Quotient(a, b) \in 0..k
<1>1. CASE a < 0
  <2>1. (-a) \div b = 0
    BY <1>1
  <2> QED  BY <1>1, <2>1 DEF Quotient
<1>2. CASE a >= 0
  <2> DEFINE q == a \div b
  <2>1. q \in Int /\ b * q <= a /\ a < b * (q + 1)
    BY <1>2
  <2>2. q >= 0
    BY <1>2, <2>1
  <2>3. q <= k
    <3>1. SUFFICES ASSUME q >= k + 1 PROVE FALSE
      BY <2>1
    <3>2. b * q >= b * (k + 1)
      BY <2>1, <3>1
    <3> QED  BY <2>1, <3>2
  <2> QED  BY <1>2, <2>1, <2>2, <2>3 DEF Quotient
<1> QED  BY <1>1, <1>2

\* The speed of a stick: the most negative value of the axis is no exception.
LEMMA StickBound == \A y \in Axis : StickSpeed(y) \in 0..PwmRange
<1> USE DriveAssumption
<1> SUFFICES ASSUME NEW y \in Axis PROVE StickSpeed(y) \in 0..PwmRange
  OBVIOUS
<1> DEFINE m == IF y < 0 THEN -y ELSE y
<1>1. m \in 0..(Span + 1)
  BY DEF Axis
<1>2. m * PwmRange <= (Span + 1) * PwmRange /\ m * PwmRange >= 0 /\ m * PwmRange \in Int
  BY <1>1
<1>3. (Span + 1) * PwmRange < Span * (PwmRange + 1)
  BY DEF Axis
<1>4. Span \in Nat \ {0} /\ PwmRange \in Nat
  OBVIOUS
<1>5. Quotient(m * PwmRange, Span) \in 0..PwmRange
  BY <1>2, <1>3, <1>4, QuotientBound
<1> QED  BY <1>5 DEF StickSpeed

\* The speed of a trigger: its most negative value gives -PwmRange, which the
\* division truncates to zero.
LEMMA TriggerBound == \A t \in Axis : TriggerSpeed(t) \in 0..PwmRange
<1> USE DriveAssumption
<1> SUFFICES ASSUME NEW t \in Axis PROVE TriggerSpeed(t) \in 0..PwmRange
  OBVIOUS
<1> DEFINE m == t + Span
           b == 2 * Span + 1
<1>1. m \in -1..(2 * Span)
  BY DEF Axis
<1>2. m * PwmRange \in Int /\ m * PwmRange >= -PwmRange /\ m * PwmRange <= 2 * Span * PwmRange
  BY <1>1
<1>3. b \in Nat \ {0} /\ PwmRange \in Nat /\ -b < -PwmRange
  OBVIOUS
<1>4. 2 * Span * PwmRange < b * (PwmRange + 1)
  OBVIOUS
<1>5. Quotient(m * PwmRange, b) \in 0..PwmRange
  <2> HIDE DEF m, b
  <2> QED  BY <1>2, <1>3, <1>4, QuotientBound
<1> QED  BY <1>5 DEF TriggerSpeed

\* Every event gives a command within the range.
LEMMA CommandType ==
    \A e \in Events : Command(e) \in [Wheels -> [speed : 0..PwmRange, dir : BOOLEAN]]
<1> SUFFICES ASSUME NEW e \in JoystickEvents
             PROVE  Command(e) \in [Wheels -> [speed : 0..PwmRange, dir : BOOLEAN]]
  BY EventsAssumption
<1>1. e.left \in Axis /\ e.right \in Axis
  BY DEF JoystickEvents
<1>2. CASE e.type = "gamepad"
  <2>1. StickSpeed(e.left) \in 0..PwmRange /\ StickSpeed(e.right) \in 0..PwmRange
    BY <1>1, StickBound
  <2>2. (e.left <= 0) \in BOOLEAN /\ (e.right <= 0) \in BOOLEAN
    OBVIOUS
  <2> DEFINE l == e.left <= 0
             r == e.right <= 0
  <2>3. Command(e) = [left |-> [speed |-> StickSpeed(e.left), dir |-> l],
                      right |-> [speed |-> StickSpeed(e.right), dir |-> r]]
    BY <1>2 DEF Command
  <2> QED
    <3> HIDE DEF l, r
    <3> SUFFICES ASSUME l \in BOOLEAN, r \in BOOLEAN
                 PROVE  Command(e) \in [Wheels -> [speed : 0..PwmRange, dir : BOOLEAN]]
      BY <2>2 DEF l, r
    <3> QED  BY <2>1, <2>3 DEF Wheels
<1>3. CASE e.type # "gamepad"
  <2>1. e.lb \in BOOLEAN /\ e.rb \in BOOLEAN
    BY <1>3 DEF JoystickEvents
  <2> QED  BY <1>1, <1>3, <2>1, TriggerBound DEF Command, Wheels
<1> QED  BY <1>2, <1>3

-----------------------------------------------------------------------------
(* The invariant.  What the properties say of the idle handler needs to be *)
(* known of every step of it: which of a wheel's writes are already those  *)
(* of the current command.                                                 *)

LeftDirected  == lines["left"]  = Direction("left", cmd["left"].dir)
RightDirected == lines["right"] = Direction("right", cmd["right"].dir)

Progress ==
    /\ app = "new" => at = "idle" /\ leftValue = 0 /\ rightValue = 0
    /\ at = "leftD2" => lines["left"].d1 = Direction("left", cmd["left"].dir).d1
    /\ at \in {"leftPwm", "rightD1", "rightD2", "rightPwm"} => LeftDirected
    /\ at \in {"rightD1", "rightD2", "rightPwm"} => leftValue = cmd["left"].speed
    /\ at = "rightD2" => lines["right"].d1 = Direction("right", cmd["right"].dir).d1
    /\ at = "rightPwm" => RightDirected

IInv == TypeOK /\ DrivenUnlessReversing /\ Obeyed /\ Progress

\* The types of the two PWMs survive a step of the PWM's own.
LEMMA LeftSetupType ==
    ASSUME Left!TypeOK, Left!Setup(0)
    PROVE  Left!TypeOK'
<1> USE DriveAssumption DEF Left!TypeOK
<1>1. CASE leftThread = 0 /\ Left!Die
  BY <1>1 DEF Left!Die
<1>2. CASE ~ (leftThread = 0 /\ Left!Die)
  <2>1. Left!Top \in Left!Loop
    BY DEF Left!Top, Left!Loop, Left!Places
  <2>2. /\ leftValue' = 0 /\ leftThread' = Len(leftLoops) + 1
        /\ leftLoops' = Append(leftLoops, Left!Top)
        /\ leftLevel' = leftLevel /\ alive' = alive
    BY <1>2 DEF Left!Setup
  <2>3. leftLoops' \in Seq(Left!Loop) /\ Len(leftLoops') = Len(leftLoops) + 1
    BY <2>1, <2>2, AppendProperties
  <2>4. Len(leftLoops) \in Nat
    BY LenProperties
  <2> QED  BY <2>2, <2>3, <2>4
<1> QED  BY <1>1, <1>2

LEMMA LeftRunType ==
    ASSUME Left!TypeOK, Left!Run
    PROVE  Left!TypeOK' /\ leftValue' = leftValue
<1> USE DriveAssumption DEF Left!TypeOK
<1> PICK n \in DOMAIN leftLoops : Left!Step(n)
  BY DEF Left!Run
<1>1. n \in 1..Len(leftLoops) /\ leftLoops[n] \in Left!Loop
  BY LenProperties, ElementOfSeq
<1>2. \A l \in Left!Loop : /\ [leftLoops EXCEPT ![n] = l] \in Seq(Left!Loop)
                           /\ Len([leftLoops EXCEPT ![n] = l]) = Len(leftLoops)
  BY <1>1, ExceptSeq
<1>3. ASSUME NEW l \in Left!Loop, leftLoops' = [leftLoops EXCEPT ![n] = l],
             leftValue' = leftValue, leftThread' = leftThread,
             leftLevel' \in {0, 1}, alive' = alive
      PROVE  Left!TypeOK' /\ leftValue' = leftValue
  BY <1>2, <1>3
<1>4. CASE Left!LoadMark(n)
  <2> DEFINE l == [leftLoops[n] EXCEPT !.at = "space", !.mark = leftValue]
  <2>1. l \in Left!Loop
    BY <1>1 DEF Left!Loop, Left!Places
  <2> QED  BY <1>3, <1>4, <2>1 DEF Left!LoadMark
<1>5. CASE Left!LoadSpace(n)
  <2> DEFINE l == [leftLoops[n] EXCEPT !.at = "rise", !.space = PwmRange - leftValue]
  <2>1. PwmRange - leftValue \in 0..PwmRange
    OBVIOUS
  <2>2. l \in Left!Loop
    BY <1>1, <2>1 DEF Left!Loop, Left!Places
  <2> QED  BY <1>3, <1>5, <2>2 DEF Left!LoadSpace
<1>6. CASE Left!Die
  BY <1>6 DEF Left!Die
<1>7. ASSUME NEW loop \in Left!Loop, NEW l \in {0, 1},
             Left!Set(n, l, loop) \/ Left!Skip(n, loop)
      PROVE  Left!TypeOK' /\ leftValue' = leftValue
  BY <1>3, <1>6, <1>7 DEF Left!Set, Left!Skip
<1>8. CASE Left!Rise(n)
  <2> DEFINE l == [leftLoops[n] EXCEPT !.at = "fall"]
  <2>1. l \in Left!Loop
    BY <1>1 DEF Left!Loop, Left!Places
  <2> QED  BY <1>7, <1>8, <2>1 DEF Left!Rise
<1>9. CASE Left!Fall(n)
  <2>1. Left!Top \in Left!Loop
    BY DEF Left!Top, Left!Loop, Left!Places
  <2> QED  BY <1>7, <1>9, <2>1 DEF Left!Fall
<1> QED  BY <1>4, <1>5, <1>8, <1>9 DEF Left!Step

LEMMA RightSetupType ==
    ASSUME Right!TypeOK, Right!Setup(0)
    PROVE  Right!TypeOK'
<1> USE DriveAssumption DEF Right!TypeOK
<1>1. CASE rightThread = 0 /\ Right!Die
  BY <1>1 DEF Right!Die
<1>2. CASE ~ (rightThread = 0 /\ Right!Die)
  <2>1. Right!Top \in Right!Loop
    BY DEF Right!Top, Right!Loop, Right!Places
  <2>2. /\ rightValue' = 0 /\ rightThread' = Len(rightLoops) + 1
        /\ rightLoops' = Append(rightLoops, Right!Top)
        /\ rightLevel' = rightLevel /\ alive' = alive
    BY <1>2 DEF Right!Setup
  <2>3. rightLoops' \in Seq(Right!Loop) /\ Len(rightLoops') = Len(rightLoops) + 1
    BY <2>1, <2>2, AppendProperties
  <2>4. Len(rightLoops) \in Nat
    BY LenProperties
  <2> QED  BY <2>2, <2>3, <2>4
<1> QED  BY <1>1, <1>2

LEMMA RightRunType ==
    ASSUME Right!TypeOK, Right!Run
    PROVE  Right!TypeOK' /\ rightValue' = rightValue
<1> USE DriveAssumption DEF Right!TypeOK
<1> PICK n \in DOMAIN rightLoops : Right!Step(n)
  BY DEF Right!Run
<1>1. n \in 1..Len(rightLoops) /\ rightLoops[n] \in Right!Loop
  BY LenProperties, ElementOfSeq
<1>2. \A l \in Right!Loop : /\ [rightLoops EXCEPT ![n] = l] \in Seq(Right!Loop)
                           /\ Len([rightLoops EXCEPT ![n] = l]) = Len(rightLoops)
  BY <1>1, ExceptSeq
<1>3. ASSUME NEW l \in Right!Loop, rightLoops' = [rightLoops EXCEPT ![n] = l],
             rightValue' = rightValue, rightThread' = rightThread,
             rightLevel' \in {0, 1}, alive' = alive
      PROVE  Right!TypeOK' /\ rightValue' = rightValue
  BY <1>2, <1>3
<1>4. CASE Right!LoadMark(n)
  <2> DEFINE l == [rightLoops[n] EXCEPT !.at = "space", !.mark = rightValue]
  <2>1. l \in Right!Loop
    BY <1>1 DEF Right!Loop, Right!Places
  <2> QED  BY <1>3, <1>4, <2>1 DEF Right!LoadMark
<1>5. CASE Right!LoadSpace(n)
  <2> DEFINE l == [rightLoops[n] EXCEPT !.at = "rise", !.space = PwmRange - rightValue]
  <2>1. PwmRange - rightValue \in 0..PwmRange
    OBVIOUS
  <2>2. l \in Right!Loop
    BY <1>1, <2>1 DEF Right!Loop, Right!Places
  <2> QED  BY <1>3, <1>5, <2>2 DEF Right!LoadSpace
<1>6. CASE Right!Die
  BY <1>6 DEF Right!Die
<1>7. ASSUME NEW loop \in Right!Loop, NEW l \in {0, 1},
             Right!Set(n, l, loop) \/ Right!Skip(n, loop)
      PROVE  Right!TypeOK' /\ rightValue' = rightValue
  BY <1>3, <1>6, <1>7 DEF Right!Set, Right!Skip
<1>8. CASE Right!Rise(n)
  <2> DEFINE l == [rightLoops[n] EXCEPT !.at = "fall"]
  <2>1. l \in Right!Loop
    BY <1>1 DEF Right!Loop, Right!Places
  <2> QED  BY <1>7, <1>8, <2>1 DEF Right!Rise
<1>9. CASE Right!Fall(n)
  <2>1. Right!Top \in Right!Loop
    BY DEF Right!Top, Right!Loop, Right!Places
  <2> QED  BY <1>7, <1>9, <2>1 DEF Right!Fall
<1> QED  BY <1>4, <1>5, <1>8, <1>9 DEF Right!Step

-----------------------------------------------------------------------------
\* A direction sets two lines that differ.
LEMMA DirectionType ==
    \A w \in Wheels, dir \in BOOLEAN :
        /\ Direction(w, dir) \in [d1 : {0, 1}, d2 : {0, 1}]
        /\ Direction(w, dir).d1 # Direction(w, dir).d2
BY DEF Direction, Wheels

LEMMA InitIInv == Init => IInv
<1> SUFFICES ASSUME Init PROVE IInv
  OBVIOUS
<1> USE DriveAssumption DEF Init
<1>1. Left!TypeOK
  BY EmptySeq DEF Left!Init, Left!TypeOK
<1>2. Right!TypeOK
  BY EmptySeq DEF Right!Init, Right!TypeOK
<1>3. TypeOK
  BY <1>1, <1>2 DEF TypeOK, NoCommand, Wheels, Writes, Stopped
<1>4. DrivenUnlessReversing
  BY DEF DrivenUnlessReversing, Wheels, Left!Init, Right!Init
<1>5. Obeyed
  BY DEF Obeyed, NoCommand, Wheels, Left!Init, Right!Init
<1>6. Progress
  BY DEF Progress, Left!Init, Right!Init
<1> QED  BY <1>3, <1>4, <1>5, <1>6 DEF IInv

\* A write of one line, wherever the handler is.
LEMMA SetLineIInv ==
    ASSUME IInv, NEW w \in Wheels, NEW d \in {"d1", "d2"}, NEW from, NEW to,
           <<w, d, from, to>> \in {<<"left", "d1", "leftD1", "leftD2">>,
                                  <<"left", "d2", "leftD2", "leftPwm">>,
                                  <<"right", "d1", "rightD1", "rightD2">>,
                                  <<"right", "d2", "rightD2", "rightPwm">>},
           SetLine(w, d, from, to)
    PROVE  IInv'
<1> USE DEF IInv, Wheels
<1>1. cmd["left"].dir \in BOOLEAN /\ cmd["right"].dir \in BOOLEAN
  BY DEF TypeOK
<1> DEFINE l == Direction("left", cmd["left"].dir)
           r == Direction("right", cmd["right"].dir)
<1>2. /\ l \in [d1 : {0, 1}, d2 : {0, 1}] /\ l.d1 # l.d2
      /\ r \in [d1 : {0, 1}, d2 : {0, 1}] /\ r.d1 # r.d2
  BY <1>1, DirectionType
<1>3. UNCHANGED <<app, cmd, leftPwm, rightPwm, alive>> /\ at = from /\ at' = to
  BY DEF SetLine
<1>4. lines' = [lines EXCEPT ![w][d] = Direction(w, cmd[w].dir)[d]]
  BY DEF SetLine
<1>5. lines \in [Wheels -> [d1 : {0, 1}, d2 : {0, 1}]]
  BY DEF TypeOK
<1> HIDE DEF l, r
<1>6. Left!TypeOK' /\ Right!TypeOK'
  BY <1>3 DEF TypeOK, Left!TypeOK, Right!TypeOK, leftPwm, rightPwm
<1>7. CASE from = "leftD1"
  <2>1. lines' = [lines EXCEPT !["left"].d1 = l.d1] /\ at = "leftD1" /\ at' = "leftD2"
    BY <1>3, <1>4, <1>7 DEF l
  <2>2. /\ lines'["left"].d1 = l.d1 /\ lines'["right"] = lines["right"]
        /\ lines' \in [Wheels -> [d1 : {0, 1}, d2 : {0, 1}]]
    BY <1>2, <1>5, <2>1
  <2>3. TypeOK'
    BY <1>3, <1>6, <2>1, <2>2 DEF TypeOK, Writes
  <2>4. DrivenUnlessReversing'
    BY <1>3, <2>1, <2>2 DEF DrivenUnlessReversing, rightPwm, Stopped
  <2>5. Obeyed' /\ Progress'
    BY <1>3, <2>1, <2>2 DEF Obeyed, Progress, l
  <2> QED  BY <2>3, <2>4, <2>5
<1>8. CASE from = "leftD2"
  <2>1. lines' = [lines EXCEPT !["left"].d2 = l.d2] /\ at = "leftD2" /\ at' = "leftPwm"
    BY <1>3, <1>4, <1>8 DEF l
  <2>2. lines["left"].d1 = l.d1
    BY <2>1 DEF Progress, l
  <2>3. /\ lines'["left"] = l /\ lines'["right"] = lines["right"]
        /\ lines' \in [Wheels -> [d1 : {0, 1}, d2 : {0, 1}]]
    BY <1>2, <1>5, <2>1, <2>2
  <2>4. TypeOK'
    BY <1>3, <1>6, <2>1, <2>3 DEF TypeOK, Writes
  <2>5. DrivenUnlessReversing'
    BY <1>2, <1>3, <2>1, <2>3 DEF DrivenUnlessReversing, rightPwm, Stopped
  <2>6. Obeyed' /\ Progress'
    BY <1>3, <2>1, <2>3 DEF Obeyed, Progress, LeftDirected, l
  <2> QED  BY <2>4, <2>5, <2>6
<1>9. CASE from = "rightD1"
  <2>1. lines' = [lines EXCEPT !["right"].d1 = r.d1] /\ at = "rightD1" /\ at' = "rightD2"
    BY <1>3, <1>4, <1>9 DEF r
  <2>2. /\ lines'["right"].d1 = r.d1 /\ lines'["left"] = lines["left"]
        /\ lines' \in [Wheels -> [d1 : {0, 1}, d2 : {0, 1}]]
    BY <1>2, <1>5, <2>1
  <2>3. TypeOK'
    BY <1>3, <1>6, <2>1, <2>2 DEF TypeOK, Writes
  <2>4. DrivenUnlessReversing'
    BY <1>3, <2>1, <2>2 DEF DrivenUnlessReversing, leftPwm, Stopped
  <2>5. Obeyed' /\ Progress'
    BY <1>3, <2>1, <2>2 DEF Obeyed, Progress, LeftDirected, leftPwm, r
  <2> QED  BY <2>3, <2>4, <2>5
<1>10. CASE from = "rightD2"
  <2>1. lines' = [lines EXCEPT !["right"].d2 = r.d2] /\ at = "rightD2" /\ at' = "rightPwm"
    BY <1>3, <1>4, <1>10 DEF r
  <2>2. lines["right"].d1 = r.d1
    BY <2>1 DEF Progress, r
  <2>3. /\ lines'["right"] = r /\ lines'["left"] = lines["left"]
        /\ lines' \in [Wheels -> [d1 : {0, 1}, d2 : {0, 1}]]
    BY <1>2, <1>5, <2>1, <2>2
  <2>4. TypeOK'
    BY <1>3, <1>6, <2>1, <2>3 DEF TypeOK, Writes
  <2>5. DrivenUnlessReversing'
    BY <1>2, <1>3, <2>1, <2>3 DEF DrivenUnlessReversing, leftPwm, Stopped
  <2>6. Obeyed' /\ Progress'
    BY <1>3, <2>1, <2>3 DEF Obeyed, Progress, LeftDirected, RightDirected, leftPwm, r
  <2> QED  BY <2>4, <2>5, <2>6
<1> QED  BY <1>7, <1>8, <1>9, <1>10

\* The speed is written once the direction is set: the value is the event's.
LEMMA WriteIInv ==
    ASSUME IInv,
           \/ /\ at = "leftPwm" /\ at' = "rightD1"
              /\ Left!Write(cmd["left"].speed)
              /\ UNCHANGED <<app, cmd, lines, rightPwm>>
           \/ /\ at = "rightPwm" /\ at' = "idle"
              /\ Right!Write(cmd["right"].speed)
              /\ UNCHANGED <<app, cmd, lines, leftPwm>>
    PROVE  IInv'
<1> USE DriveAssumption DEF IInv, Wheels
<1>1. /\ cmd["left"].speed \in 0..PwmRange /\ cmd["left"].dir \in BOOLEAN
      /\ cmd["right"].speed \in 0..PwmRange /\ cmd["right"].dir \in BOOLEAN
  BY DEF TypeOK
<1>2. CASE at = "leftPwm" /\ at' = "rightD1"
  <2>1. /\ Left!Write(cmd["left"].speed)
        /\ UNCHANGED <<app, cmd, lines, rightPwm>>
    BY <1>2
  <2>2. leftValue' = cmd["left"].speed
    BY <1>1, <2>1 DEF Left!Write, Left!Clamp
  <2>3. TypeOK'
    BY <1>1, <1>2, <2>1, <2>2
       DEF TypeOK, Writes, Left!TypeOK, Right!TypeOK, Left!Write, rightPwm
  <2>4. LeftDirected
    BY <1>2 DEF Progress
  <2>5. DrivenUnlessReversing'
    BY <1>1, <1>2, <2>1, <2>4, DirectionType
       DEF DrivenUnlessReversing, LeftDirected, rightPwm, Stopped
  <2>6. Obeyed' /\ Progress'
    BY <1>2, <2>1, <2>2, <2>4 DEF Obeyed, Progress, LeftDirected
  <2> QED  BY <2>3, <2>5, <2>6
<1>3. CASE at = "rightPwm" /\ at' = "idle"
  <2>1. /\ Right!Write(cmd["right"].speed)
        /\ UNCHANGED <<app, cmd, lines, leftPwm>>
    BY <1>3
  <2>2. rightValue' = cmd["right"].speed
    BY <1>1, <2>1 DEF Right!Write, Right!Clamp
  <2>3. TypeOK'
    BY <1>1, <1>3, <2>1, <2>2
       DEF TypeOK, Writes, Left!TypeOK, Right!TypeOK, Right!Write, leftPwm
  <2>4. LeftDirected /\ RightDirected /\ leftValue = cmd["left"].speed
    BY <1>3 DEF Progress
  <2>5. DrivenUnlessReversing'
    BY <1>1, <1>3, <2>1, <2>4, DirectionType
       DEF DrivenUnlessReversing, RightDirected, leftPwm, Stopped
  <2>6. Obeyed' /\ Progress'
    BY <1>3, <2>1, <2>2, <2>4
       DEF Obeyed, Progress, LeftDirected, RightDirected, leftPwm
  <2> QED  BY <2>3, <2>5, <2>6
<1> QED  BY <1>2, <1>3

LEMMA NextIInv == IInv /\ [Next]_vars => IInv'
<1> SUFFICES ASSUME IInv, [Next]_vars PROVE IInv'
  OBVIOUS
<1> USE DriveAssumption DEF IInv
<1>1. CASE PostConstruct
  <2>1. Left!TypeOK' /\ Right!TypeOK'
    <3>1. ASSUME UNCHANGED <<rightPwm, alive>>
          PROVE  Right!TypeOK'
      BY <3>1 DEF rightPwm, TypeOK, Right!TypeOK
    <3>2. CASE UNCHANGED <<leftPwm, rightPwm, alive>>
      BY <3>1, <3>2 DEF leftPwm, TypeOK, Left!TypeOK
    <3>3. CASE Left!Setup(0) /\ UNCHANGED rightPwm
      <4>1. Left!TypeOK' /\ alive' \in BOOLEAN
        BY <3>3, LeftSetupType DEF TypeOK, Left!TypeOK
      <4> QED  BY <3>3, <4>1 DEF rightPwm, TypeOK, Right!TypeOK
    <3>4. CASE Left!Setup(0) /\ Right!Setup(0)
      BY <3>4, LeftSetupType, RightSetupType DEF TypeOK
    <3> QED  BY <1>1, <3>2, <3>3, <3>4 DEF PostConstruct
  <2>2. UNCHANGED <<cmd, at, lines>> /\ app = "new" /\ app' \in {"up", "failed"}
    BY <1>1 DEF PostConstruct
  <2>3. /\ leftValue' = 0 \/ leftValue' = leftValue
        /\ rightValue' = 0 \/ rightValue' = rightValue
    BY <1>1 DEF PostConstruct, leftPwm, rightPwm,
                Left!Setup, Left!Die, Right!Setup, Right!Die
  <2>4. TypeOK'
    BY <2>1, <2>2 DEF TypeOK
  <2>5. at = "idle" /\ UNCHANGED <<leftValue, rightValue>>
    BY <2>2, <2>3 DEF Progress
  <2> QED  BY <2>2, <2>4, <2>5 DEF DrivenUnlessReversing, Obeyed, Progress
<1>2. CASE PreDestroy
  <2>1. UNCHANGED <<cmd, at, lines, leftValue, leftLoops, leftLevel,
                    rightValue, rightLoops, rightLevel>>
    BY <1>2 DEF PreDestroy, Left!Shutdown, Left!Die, Right!Shutdown, Right!Die
  <2>2. /\ leftThread' = leftThread \/ leftThread' = 0
        /\ rightThread' = rightThread \/ rightThread' = 0
        /\ alive' \in BOOLEAN /\ app' = "down"
    BY <1>2 DEF PreDestroy, Left!Shutdown, Left!Die, Right!Shutdown, Right!Die,
                TypeOK, Left!TypeOK
  <2>3. Len(leftLoops) \in Nat /\ Len(rightLoops) \in Nat
    BY LenProperties DEF TypeOK, Left!TypeOK, Right!TypeOK
  <2>4. TypeOK'
    BY <2>1, <2>2, <2>3 DEF TypeOK, Left!TypeOK, Right!TypeOK
  <2> QED  BY <2>1, <2>2, <2>4 DEF DrivenUnlessReversing, Obeyed, Progress,
                             LeftDirected, RightDirected
<1>3. ASSUME NEW e \in Events, Joystick(e) PROVE IInv'
  <2>1. /\ UNCHANGED <<app, lines, leftPwm, rightPwm, alive>>
        /\ cmd' = Command(e) /\ at = "idle" /\ at' = "leftD1" /\ app # "new"
    BY <1>3 DEF Joystick
  <2>2. TypeOK'
    BY <2>1, CommandType
       DEF TypeOK, Writes, leftPwm, rightPwm, Left!TypeOK, Right!TypeOK
  <2> QED  BY <2>1, <2>2 DEF DrivenUnlessReversing, Obeyed, Progress,
                             leftPwm, rightPwm
<1>4. CASE LeftWheel
  BY <1>4, SetLineIInv, WriteIInv DEF LeftWheel, Wheels
<1>5. CASE RightWheel
  BY <1>5, SetLineIInv, WriteIInv DEF RightWheel, Wheels
<1>6. CASE Pulse
  <2>1. TypeOK' /\ UNCHANGED <<drive, leftValue, rightValue>>
    <3>1. CASE Left!Run /\ UNCHANGED <<drive, rightPwm>>
      <4>1. Left!TypeOK' /\ leftValue' = leftValue
        BY <3>1, LeftRunType DEF TypeOK
      <4> QED  BY <3>1, <4>1 DEF TypeOK, drive, rightPwm, Left!TypeOK, Right!TypeOK
    <3>2. CASE Right!Run /\ UNCHANGED <<drive, leftPwm>>
      <4>1. Right!TypeOK' /\ rightValue' = rightValue
        BY <3>2, RightRunType DEF TypeOK
      <4> QED  BY <3>2, <4>1 DEF TypeOK, drive, leftPwm, Left!TypeOK, Right!TypeOK
    <3> QED  BY <1>6, <3>1, <3>2 DEF Pulse
  <2> QED  BY <2>1 DEF drive, DrivenUnlessReversing, Obeyed, Progress,
                       LeftDirected, RightDirected
<1>7. CASE UNCHANGED vars
  BY <1>7 DEF vars, drive, leftPwm, rightPwm, TypeOK, Left!TypeOK, Right!TypeOK,
              DrivenUnlessReversing, Obeyed, Progress, LeftDirected, RightDirected
<1> QED  BY <1>1, <1>2, <1>3, <1>4, <1>5, <1>6, <1>7 DEF Next

-----------------------------------------------------------------------------
THEOREM Invariance == Spec => []IInv
<1> QED  BY InitIInv, NextIInv, PTL DEF Spec

\* Types: every speed, mark and space is within the PWM's range.
THEOREM TypeCorrect == Spec => []TypeOK
<1>1. IInv => TypeOK
  BY DEF IInv
<1> QED  BY <1>1, Invariance, PTL

\* A wheel's two lines differ, except within a reversal.
THEOREM DrivenAlways == Spec => []DrivenUnlessReversing
<1>1. IInv => DrivenUnlessReversing
  BY DEF IInv
<1> QED  BY <1>1, Invariance, PTL

\* When the handler is done, both wheels are as the last event wants them.
THEOREM ObeyedAlways == Spec => []Obeyed
<1>1. IInv => Obeyed
  BY DEF IInv
<1> QED  BY <1>1, Invariance, PTL

\* No wheel runs at a new speed in an old direction.
THEOREM DirectionFirst == Spec => SpeedAfterDirection
<1> DEFINE P == /\ leftValue' # leftValue /\ app # "new" => LeftDirected
                /\ rightValue' # rightValue /\ app # "new" => RightDirected
<1>1. IInv /\ [Next]_vars => P
  <2> SUFFICES ASSUME IInv, [Next]_vars PROVE P
    OBVIOUS
  <2>1. CASE PostConstruct
    BY <2>1 DEF PostConstruct
  <2>2. CASE PreDestroy
    BY <2>2 DEF PreDestroy, Left!Shutdown, Left!Die, Right!Shutdown, Right!Die
  <2>3. CASE \E e \in Events : Joystick(e)
    BY <2>3 DEF Joystick, leftPwm, rightPwm
  <2>4. CASE LeftWheel
    BY <2>4 DEF LeftWheel, SetLine, leftPwm, rightPwm, IInv, Progress
  <2>5. CASE RightWheel
    BY <2>5 DEF RightWheel, SetLine, leftPwm, rightPwm, IInv, Progress
  <2>6. CASE Pulse
    BY <2>6, LeftRunType, RightRunType DEF Pulse, IInv, TypeOK, leftPwm, rightPwm
  <2>7. CASE UNCHANGED vars
    BY <2>7 DEF vars, leftPwm, rightPwm
  <2> QED  BY <2>1, <2>2, <2>3, <2>4, <2>5, <2>6, <2>7 DEF Next
<1>2. P => (/\ leftValue' # leftValue /\ app # "new" =>
                  lines["left"] = Direction("left", cmd["left"].dir)
            /\ rightValue' # rightValue /\ app # "new" =>
                  lines["right"] = Direction("right", cmd["right"].dir))
  BY DEF LeftDirected, RightDirected
<1> QED  BY <1>1, <1>2, Invariance, PTL DEF Spec, SpeedAfterDirection

-----------------------------------------------------------------------------
(* The wheels as two PWMs.                                                 *)

\* The drive uses its two PWMs as soft_pwm is meant to be used and does nothing
\* else to their values, threads and lines (DCMotor.cpp:40-108): whatever is shown
\* of SoftPwm is true of both wheels.
THEOREM WheelsArePwms == Spec => Left!Spec /\ Right!Spec
<1>1. Init => Left!Init /\ Right!Init
  BY DEF Init
<1>2. IInv /\ [Next]_vars => [Left!Next]_(Left!vars) /\ [Right!Next]_(Right!vars)
  <2> SUFFICES ASSUME IInv, [Next]_vars
               PROVE  [Left!Next]_(Left!vars) /\ [Right!Next]_(Right!vars)
    OBVIOUS
  <2> USE DEF Left!Next, Right!Next, Left!vars, Right!vars
  <2>1. CASE UNCHANGED <<leftPwm, rightPwm, alive>>
    BY <2>1 DEF leftPwm, rightPwm
  <2>2. CASE PostConstruct
    <3>1. 0 \in 0..PwmRange
      BY DriveAssumption
    <3>2. CASE Left!Setup(0) /\ UNCHANGED rightPwm
      <4>1. UNCHANGED alive \/ Right!Crash
        BY <3>2 DEF Left!Setup, Left!Die, rightPwm, Right!Crash, Right!Die
      <4> QED  BY <3>1, <3>2, <4>1 DEF rightPwm
    <3> QED  BY <2>1, <2>2, <3>1, <3>2 DEF PostConstruct
  <2>3. CASE PreDestroy
    BY <2>3 DEF PreDestroy
  <2>4. ASSUME Left!Write(cmd["left"].speed), UNCHANGED rightPwm
        PROVE  [Left!Next]_(Left!vars) /\ [Right!Next]_(Right!vars)
    <3>1. cmd["left"].speed \in 0..PwmRange
      BY DEF IInv, TypeOK, Wheels
    <3>2. cmd["left"].speed \in -1..(PwmRange + 1)
      BY <3>1, DriveAssumption
    <3>3. UNCHANGED <<rightPwm, alive>>
      BY <2>4 DEF Left!Write
    <3> QED  BY <2>4, <3>2, <3>3 DEF rightPwm
  <2>5. ASSUME Right!Write(cmd["right"].speed), UNCHANGED leftPwm
        PROVE  [Left!Next]_(Left!vars) /\ [Right!Next]_(Right!vars)
    <3>1. cmd["right"].speed \in 0..PwmRange
      BY DEF IInv, TypeOK, Wheels
    <3>2. cmd["right"].speed \in -1..(PwmRange + 1)
      BY <3>1, DriveAssumption
    <3>3. UNCHANGED <<leftPwm, alive>>
      BY <2>5 DEF Right!Write
    <3> QED  BY <2>5, <3>2, <3>3 DEF leftPwm
  <2>6. CASE Left!Run /\ UNCHANGED <<drive, rightPwm>>
    <3>1. UNCHANGED alive \/ Right!Crash
      BY <2>6 DEF Left!Run, Left!Step, Left!At, Left!LoadMark, Left!LoadSpace, Left!Rise, Left!Fall,
                  Left!Set, Left!Skip, Left!Die, rightPwm, Right!Crash, Right!Die
    <3> QED  BY <2>6, <3>1 DEF rightPwm
  <2>7. CASE Right!Run /\ UNCHANGED <<drive, leftPwm>>
    <3>1. UNCHANGED alive \/ Left!Crash
      BY <2>7 DEF Right!Run, Right!Step, Right!At, Right!LoadMark, Right!LoadSpace, Right!Rise, Right!Fall,
                  Right!Set, Right!Skip, Right!Die, leftPwm, Left!Crash, Left!Die
    <3> QED  BY <2>7, <3>1 DEF leftPwm
  <2> QED  BY <2>1, <2>2, <2>3, <2>4, <2>5, <2>6, <2>7
              DEF Next, vars, Joystick, LeftWheel, RightWheel, SetLine, Pulse
<1> QED  BY <1>1, <1>2, Invariance, PTL DEF Spec, Left!Spec, Right!Spec

\* What SoftPwmProofs shows, of each of the two.
LeftFacts == INSTANCE SoftPwmProofs WITH
    value <- leftValue, thread <- leftThread, loops <- leftLoops, level <- leftLevel,
    Requested <- FALSE

RightFacts == INSTANCE SoftPwmProofs WITH
    value <- rightValue, thread <- rightThread, loops <- rightLoops, level <- rightLevel,
    Requested <- FALSE

\* Neither wheel's line is requested (DCMotor.cpp:73 and 79): a thread that has a
\* pulse or a space to give does not come to the end of its frame, by what is
\* proved of one PWM.
THEOREM WheelsNeverTurn ==
    Spec => LeftFacts!OnlyEmptyFramesEnd /\ RightFacts!OnlyEmptyFramesEnd
<1>1. PwmRange \in Nat \ {0} /\ MaxThreads \in Nat
  BY DriveAssumption
<1>2. LeftFacts!Spec => LeftFacts!OnlyEmptyFramesEnd
  BY <1>1, LeftFacts!UnrequestedLine
<1>3. RightFacts!Spec => RightFacts!OnlyEmptyFramesEnd
  BY <1>1, RightFacts!UnrequestedLine
<1>4. Left!Spec => LeftFacts!Spec
  <2>1. Left!Init => LeftFacts!Init
    BY DEF Left!Init, LeftFacts!Init
  <2>2. [Left!Next]_(Left!vars) => [LeftFacts!Next]_(LeftFacts!vars)
    BY DEF Left!Next, Left!Setup, Left!Die, Left!Top, Left!Write, Left!Clamp,
          Left!Shutdown, Left!Run, Left!Step, Left!LoadMark, Left!LoadSpace,
          Left!Rise, Left!Fall, Left!At, Left!Set, Left!Skip, Left!Crash, Left!vars, LeftFacts!Next,
          LeftFacts!Setup, LeftFacts!Die, LeftFacts!Top, LeftFacts!Write,
          LeftFacts!Clamp, LeftFacts!Shutdown, LeftFacts!Run, LeftFacts!Step,
          LeftFacts!LoadMark, LeftFacts!LoadSpace, LeftFacts!Rise,
          LeftFacts!Fall, LeftFacts!At, LeftFacts!Set, LeftFacts!Skip, LeftFacts!Crash, LeftFacts!vars
  <2> QED  BY <2>1, <2>2, PTL DEF Left!Spec, LeftFacts!Spec
<1>5. Right!Spec => RightFacts!Spec
  <2>1. Right!Init => RightFacts!Init
    BY DEF Right!Init, RightFacts!Init
  <2>2. [Right!Next]_(Right!vars) => [RightFacts!Next]_(RightFacts!vars)
    BY DEF Right!Next, Right!Setup, Right!Die, Right!Top, Right!Write,
          Right!Clamp, Right!Shutdown, Right!Run, Right!Step, Right!LoadMark,
          Right!LoadSpace, Right!Rise, Right!Fall, Right!At, Right!Set, Right!Skip, Right!Crash,
          Right!vars, RightFacts!Next, RightFacts!Setup, RightFacts!Die,
          RightFacts!Top, RightFacts!Write, RightFacts!Clamp,
          RightFacts!Shutdown, RightFacts!Run, RightFacts!Step,
          RightFacts!LoadMark, RightFacts!LoadSpace, RightFacts!Rise,
          RightFacts!Fall, RightFacts!At, RightFacts!Set, RightFacts!Skip, RightFacts!Crash, RightFacts!vars
  <2> QED  BY <2>1, <2>2, PTL DEF Right!Spec, RightFacts!Spec
<1> QED  BY <1>2, <1>3, <1>4, <1>5, WheelsArePwms, PTL
=============================================================================
