----------------------------- MODULE MCDCMotor ------------------------------
(* DCMotor for TLC: sticks and triggers at their ends and in between, every *)
(* wheel forwards, backwards and stopped.                                   *)
EXTENDS DCMotor

Sticks == {<<-(Span + 1), -2>>, <<-(Span + 1), Span>>, <<2, 0>>, <<2, Span>>, <<0, 0>>}

MCEvents ==
    {[type |-> "gamepad", left |-> s[1], right |-> s[2]] : s \in Sticks}
    \cup {[type |-> "joystick", left |-> -(Span + 1), right |-> Span, lb |-> b, rb |-> ~b] :
             b \in BOOLEAN}
=============================================================================
