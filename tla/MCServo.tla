------------------------------- MODULE MCServo ------------------------------
(* Servo for TLC: both ends of the axis, the middle, and the positions on   *)
(* both sides of the change of the high byte.                               *)
EXTENDS Servo

MCAxes == {-32768, -32767, -1, 0, 8191, 8192, 8193, 32767}
=============================================================================
