------------------------------- MODULE MCPins -------------------------------
(* An instance of Pins for TLC: pin 0 of port A on two timers, its pin 4   *)
(* and the pin 0 of port B on one of them each.                            *)
EXTENDS Pins

MCPinDefs == {[port |-> 0, number |-> MaskOf(0), timer |-> "T1"],
              [port |-> 0, number |-> MaskOf(0), timer |-> "T2"],
              [port |-> 0, number |-> MaskOf(4), timer |-> "T2"],
              [port |-> 1, number |-> MaskOf(0), timer |-> "T1"]}

LOCAL Gpio(port, pin, type, state) ==
  [port |-> port, number |-> MaskOf(pin), type |-> type, state |-> state,
   timer |-> "None", frequency |-> 0]
LOCAL Pwm(port, pin, timer, frequency) ==
  [port |-> port, number |-> MaskOf(pin), type |-> "PWM", state |-> "NoChange",
   timer |-> timer, frequency |-> frequency]

(* Pin 8 is the mask 0, which is the slot of pin 4 of the port before;     *)
(* pin 5 is refused, and so is a pin without a state.  Of the two PWM      *)
(* signals without a frequency one is on a pin that has no such timer.     *)
MCGiven ==
  {Gpio(0, 0, "PushPull", "Low"), Gpio(0, 0, "PushPull", "High"),
   Gpio(0, 0, "HighZ", "Low"), Gpio(0, 0, "PushPull", "NoChange"),
   Gpio(0, 4, "OpenDrain", "High"), Gpio(0, 5, "PushPull", "High"),
   Gpio(1, 0, "PushPull", "High"), Gpio(1, 8, "PushPull", "High"),
   Pwm(0, 0, "T1", 1), Pwm(0, 0, "T2", 1), Pwm(0, 0, "None", 2),
   Pwm(0, 4, "T2", 2), Pwm(1, 0, "T1", 2), Pwm(1, 0, "T2", 0),
   Pwm(0, 0, "T1", 0)}
=============================================================================
