----------------------------- MODULE ServoProofs ----------------------------
(***************************************************************************)
(* Proofs about Servo, for any set of positions of the stick.              *)
(***************************************************************************)
EXTENDS Servo, TLAPS

\* What is known at each place of setPWMFreq as long as nothing failed.
SetUpSoFar ==
    faulty \cap SetUp = {} =>
        /\ at = "read" => ~chip.asleep
        /\ at \in {"sleep", "prescale", "wake", "restart"} => ~oldMode
        /\ at = "prescale" => chip.asleep
        /\ at \in {"wake", "restart"} => chip.prescale = PreScale
        /\ at \notin SetUp => ~chip.asleep /\ chip.prescale = PreScale

\* What the first write of setPWM has left for the second.
WrittenSoFar ==
    /\ at \in SetUp => axis = NoEvent
    /\ at \in Writes => axis \in Axes
    /\ at = "high" /\ faulty \cap Writes = {} => chip.low = LowByte(Off(axis))
    /\ at = "idle" /\ axis # NoEvent /\ faulty \cap Writes = {} => End = Off(axis)

IInv == TypeOK /\ SetUpSoFar /\ WrittenSoFar

-----------------------------------------------------------------------------
\* setServoPulse stays within the servo's range for every position of a
\* 16-bit axis, and no product overflows 32 bits (I2CServoMotor.cpp:46-60).
THEOREM PulseRange ==
    ASSUME NEW x \in Axes
    PROVE  /\ (-x + 32768) * 2000 < 2147483648
           /\ Pulse(x) \in 500..2500
           /\ Pulse(x) * 4096 < 2147483648
           /\ Off(x) \in 102..512
  <1> DEFINE n == -x + 32768
  <1>1. n \in Int /\ 1 <= n /\ n <= 65536
    BY AxesAssumption, SMT
  <1> HIDE DEF n
  <1>2. n * 2000 \in Int /\ 1 <= n * 2000 /\ n * 2000 <= 131072000
    BY <1>1, SMT
  <1>3. /\ (n * 2000) \div 65535 \in Int
        /\ 0 <= (n * 2000) \div 65535 /\ (n * 2000) \div 65535 <= 2000
    BY <1>2, SMT
  <1>4. Pulse(x) \in Int /\ 500 <= Pulse(x) /\ Pulse(x) <= 2500
    <2>1. Pulse(x) = (n * 2000) \div 65535 + 500
      BY SMT DEF Pulse, n
    <2> QED
      BY <1>3, <2>1, SMT
  <1>5. /\ Pulse(x) * 4096 \in Int
        /\ 2048000 <= Pulse(x) * 4096 /\ Pulse(x) * 4096 <= 10240000
    BY <1>4, SMT
  <1>6. Off(x) \in 102..512
    BY <1>5, SMT DEF Off
  <1> QED
    BY <1>2, <1>4, <1>5, <1>6, SMT DEF n

\* The two bytes of a pulse make up the pulse, and each fits its register.
LEMMA Bytes ==
    ASSUME NEW off \in 0..512
    PROVE  /\ LowByte(off) \in Byte /\ HighByte(off) \in 0..2
           /\ LowByte(off) + 256 * HighByte(off) = off
  BY DEF LowByte, HighByte, Byte

LEMMA BytesOfEvent ==
    ASSUME NEW x \in Axes
    PROVE  /\ LowByte(Off(x)) \in Byte /\ HighByte(Off(x)) \in 0..2
           /\ LowByte(Off(x)) + 256 * HighByte(Off(x)) = Off(x)
           /\ Off(x) \in 102..512
  <1>1. Off(x) \in 102..512
    BY PulseRange
  <1>2. Off(x) \in 0..512
    BY <1>1
  <1> QED
    BY <1>1, <1>2, Bytes

-----------------------------------------------------------------------------
LEMMA InitIInv == Init => IInv
  <1> SUFFICES ASSUME Init PROVE IInv
    OBVIOUS
  <1>1. chip.low \in Byte /\ chip.high \in 0..2
    <2>1. 0 \in Byte /\ 0 \in 0..2
      BY DEF Byte
    <2> QED
      BY <2>1, BytesOfEvent DEF Init
  <1>2. chip \in [asleep : BOOLEAN, prescale : {PowerOn, PreScale}, low : Byte, high : 0..2]
    BY <1>1 DEF Init
  <1> QED
    BY <1>2 DEF Init, IInv, TypeOK, SetUpSoFar, WrittenSoFar, SetUp, Writes

LEMMA PostConstructIInv == IInv /\ PostConstruct => IInv'
  <1> SUFFICES ASSUME IInv, PostConstruct PROVE IInv'
    OBVIOUS
  <1> USE DEF IInv, SetUp, Writes
  <1>1. TypeOK'
    BY DEF TypeOK, PostConstruct, Clear, ReadMode, Sleep, WritePreScale, Wake,
           WriteMode, Access
  <1>2. axis = NoEvent /\ axis' = NoEvent /\ at' \in SetUp \cup {"idle"}
    BY DEF WrittenSoFar, PostConstruct, Clear, ReadMode, Sleep, WritePreScale, Wake,
           WriteMode, Access
  <1>3. SetUpSoFar'
    <2>1. CASE Clear
      BY <2>1 DEF TypeOK, SetUpSoFar, Clear, WriteMode, Access
    <2>2. CASE ReadMode
      BY <2>2 DEF TypeOK, SetUpSoFar, ReadMode
    <2>3. CASE Sleep
      BY <2>3 DEF TypeOK, SetUpSoFar, Sleep, WriteMode, Access
    <2>4. CASE WritePreScale
      BY <2>4 DEF TypeOK, SetUpSoFar, WritePreScale, Access
    <2>5. CASE Wake
      BY <2>5 DEF TypeOK, SetUpSoFar, Wake, WriteMode, Access
    <2> QED
      BY <2>1, <2>2, <2>3, <2>4, <2>5 DEF PostConstruct
  <1>4. WrittenSoFar'
    BY <1>2 DEF WrittenSoFar, TypeOK
  <1> QED
    BY <1>1, <1>3, <1>4

LEMMA JoystickIInv ==
    ASSUME NEW x \in Axes, IInv, Joystick(x)
    PROVE  IInv'
  <1> USE DEF IInv, SetUp, Writes, Joystick
  <1>1. TypeOK'
    BY DEF TypeOK
  <1>2. SetUpSoFar'
    BY DEF TypeOK, SetUpSoFar
  <1>3. WrittenSoFar'
    BY DEF TypeOK, WrittenSoFar
  <1> QED
    BY <1>1, <1>2, <1>3

LEMMA SetPWMIInv == IInv /\ SetPWM => IInv'
  <1> SUFFICES ASSUME IInv, SetPWM PROVE IInv'
    OBVIOUS
  <1> USE DEF IInv, SetUp, Writes, SetPWM, Access
  <1>1. axis \in Axes /\ at \in Writes
    BY DEF WrittenSoFar
  <1>2. /\ LowByte(Off(axis)) \in Byte /\ HighByte(Off(axis)) \in 0..2
        /\ LowByte(Off(axis)) + 256 * HighByte(Off(axis)) = Off(axis)
        /\ Off(axis) \in 102..512
    BY <1>1, BytesOfEvent
  <1>3. TypeOK'
    BY <1>1, <1>2 DEF TypeOK
  <1>4. SetUpSoFar'
    BY <1>1 DEF TypeOK, SetUpSoFar
  <1>5. WrittenSoFar'
    BY <1>1, <1>2 DEF TypeOK, WrittenSoFar, End
  <1> QED
    BY <1>3, <1>4, <1>5

THEOREM Invariance == Spec => []IInv
  <1>1. IInv /\ [Next]_vars => IInv'
    <2> SUFFICES ASSUME IInv, [Next]_vars PROVE IInv'
      OBVIOUS
    <2>1. CASE PostConstruct
      BY <2>1, PostConstructIInv
    <2>2. CASE SetPWM
      BY <2>2, SetPWMIInv
    <2>3. CASE \E x \in Axes : Joystick(x)
      BY <2>3, JoystickIInv
    <2>4. CASE UNCHANGED vars
      BY <2>4 DEF vars, IInv, TypeOK, SetUpSoFar, WrittenSoFar, End
    <2> QED
      BY <2>1, <2>2, <2>3, <2>4 DEF Next
  <1> QED
    BY <1>1, InitIInv, PTL DEF Spec

\* Every write to a register is a byte, also when a write is repeated or fails
\* at any point, for every position that a stick of 16 bits can have.
THEOREM TypeCorrect == Spec => []TypeOK
  BY Invariance, PTL DEF IInv

\* The chip is awake and at 50 Hz before the first event, unless an access of
\* postConstruct failed (I2CServoMotor.cpp:29-39).
THEOREM SetUpDoneAlways == Spec => []SetUpDone
  <1>1. IInv => SetUpDone
    BY DEF IInv, SetUpSoFar, SetUpDone
  <1> QED
    BY <1>1, Invariance, PTL

\* At the prescaler of set-up the steps of a pulse last what the event asks for,
\* to within 20 us.
LEMMA WidthOfEvent ==
    ASSUME NEW x \in Axes
    PROVE  (Off(x) * (PreScale + 1)) \div 25 \in (Pulse(x) - 3)..(Pulse(x) + 20)
  <1>1. Pulse(x) \in 500..2500
    BY PulseRange
  <1> DEFINE p == Pulse(x)
             off == (p * 4096) \div 20000
  <1>2. off \in Int /\ 20000 * off <= p * 4096 /\ p * 4096 < 20000 * (off + 1)
    <2>0. p \in Int
      BY <1>1
    <2> HIDE DEF p
    <2>1. p * 4096 \in Int
      BY <2>0, SMT
    <2> QED
      BY <2>1, SMT
  <1> HIDE DEF p, off
  <1>3. (off * 123) \div 25 \in (p - 3)..(p + 20)
    <2>1. p \in 500..2500
      BY <1>1 DEF p
    <2> DEFINE w == (off * 123) \div 25
    <2>2. w \in Int /\ 25 * w <= off * 123 /\ off * 123 < 25 * (w + 1)
      BY <1>2, SMT
    <2> HIDE DEF w
    <2>3. w \in (p - 3)..(p + 20)
      BY <1>2, <2>1, <2>2, SMT
    <2> QED
      BY <2>3 DEF w
  <1> QED
    BY <1>3 DEF p, off, Off, PreScale

\* After a set-up without failure two successful writes give the servo the pulse
\* that the event asks for, whatever went wrong in earlier events or runs
\* (I2CServoMotor.cpp:29-48).
THEOREM InPositionAlways == Spec => []InPosition
  <1>1. ASSUME IInv, at = "idle", axis # NoEvent, faulty = {}
        PROVE  ~chip.asleep /\ Width \in (Pulse(axis) - 3)..(Pulse(axis) + 20)
    <2>1. axis \in Axes /\ End = Off(axis)
      BY <1>1 DEF IInv, TypeOK, WrittenSoFar
    <2>2. ~chip.asleep /\ chip.prescale = PreScale
      BY <1>1 DEF IInv, SetUpSoFar, SetUp
    <2> QED
      BY <2>1, <2>2, WidthOfEvent DEF Width
  <1>2. IInv => InPosition
    BY <1>1 DEF InPosition
  <1> QED
    BY <1>2, Invariance, PTL
=============================================================================
