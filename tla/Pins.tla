-------------------------------- MODULE Pins --------------------------------
(***************************************************************************)
(* What the objects of a message do to the pins: the second half of        *)
(* MessageHandlerThread::parseJson, Configuration::handleConfiguration     *)
(* with its table, Pin and PWM, and the replay of the table at start-up    *)
(* (reroute_tx_app).  The storage is the subject of WearLeveling: here a   *)
(* store succeeds.  Of a PWM signal only the frequency is kept, which the  *)
(* pins of a timer share; duty cycles and channels are left out.  The      *)
(* frequency 0 stands for all that are too low for any prescaler, and for  *)
(* one that is missing: the loop of startPWM does not end for them.        *)
(***************************************************************************)
EXTENDS Naturals

CONSTANTS
  LastPort,      \* ports are numbered from 0; nine on the board
  Timers,
  PinDefs,       \* _pin_defenitions: records [port, number, timer]
  Given,         \* bound: what the objects of the messages ask for
  MaxObjects     \* bound: how many objects are handled

Ports == 0 .. LastPort

(* A pinNumber is a mask in a uint8_t: 1 << n loses what is above bit 7.   *)
MaskOf(n) == IF n < 8 THEN 2 ^ n ELSE 0

Outputs == {"PushPull", "OpenDrain"}
Modes   == {"analog", "HighZ"} \cup Outputs

ASSUME PinsAssumption ==
  /\ LastPort \in Nat
  /\ Timers \cap Modes = {}
  /\ \A d \in PinDefs :
       d.port \in Ports /\ d.number \in Nat \ {0} /\ d.timer \in Timers
  /\ \A p \in Given :
       /\ p.port \in Ports /\ \E n \in 0 .. 31 : p.number = MaskOf(n)
       /\ p.type \in {"HighZ", "PWM"} \cup Outputs
       /\ p.state \in {"NoChange", "Low", "High"}
       /\ p.timer \in Timers \cup {"None"}
       /\ p.frequency \in Nat

VARIABLES
  table,         \* data.pinConfigurations, row after row
  io,            \* the hardware: mode of each pin, level of its output, timers;
                 \* hung: who set it is in a loop of startPWM that does not end
  storage,       \* the table in flash, as it would be loaded
  stored, reset, \* locals of parseJson
  objects,       \* how many objects were handled
  kept,          \* history: io at the last store
  clash,         \* history: of the configurations in the table or those that
                 \* led to it, one clashed with another pin's: see Clashes
  exact          \* history: none of those in storage had

vars == <<table, io, storage, stored, reset, objects, kept, clash, exact>>

Row == 16
Slots == 0 .. Row * (LastPort + 1) - 1
Pins == Ports \X (0 .. 4)        \* no valid mask selects another

(* The constructor of Data: every byte is 0xFF.                            *)
Erased == [port |-> 255, number |-> 255, type |-> "255", state |-> "255",
           timer |-> "255", frequency |-> 255]
Data == [s \in Slots |-> Erased]

(* The pins of a port that a mask selects *)
Selected(mask) == {k \in 0 .. 4 : (mask \div (2 ^ k)) % 2 = 1}

(* The slot that pinConfigurations[port][pinNumber] is: pin 4, with the    *)
(* mask 16, falls on the first slot of the next row.                       *)
Slot(p) == p.port * Row + p.number

-----------------------------------------------------------------------------
(* PinConfiguration::valid, Configuration::handleConfiguration *)

validAnyState(p) ==              \* mutant: the state of a pin is not looked at
  p.port \in Ports /\ p.number <= 16

valid(p) ==
  /\ p.port \in Ports
  /\ p.number <= 16
  /\ p.type # "PWM" => p.state \in {"Low", "High"}

findPinDef(p) ==
  {d \in PinDefs : /\ d.port = p.port /\ d.number = p.number
                   /\ p.timer \in {"None", d.timer}}

(* Pin::handleConfiguration: the mode of the selected pins, and their level *)
SetPin(at, p) ==
  LET some == {p.port} \X Selected(p.number) IN
  [at EXCEPT !.mode = [q \in Pins |-> IF q \in some THEN p.type ELSE @[q]],
             !.level = [q \in Pins |-> IF q \in some THEN p.state ELSE @[q]]]

(* PWM::startPWM: the pin goes to the timer, and the timer, once a         *)
(* prescaler is found, to the frequency.                                   *)
StartPWM(at, d, p) ==
  [at EXCEPT !.mode = [q \in Pins |-> IF q \in {d.port} \X Selected(d.number)
                                      THEN d.timer ELSE @[q]],
             !.timer[d.timer] = IF p.frequency = 0 THEN @ ELSE p.frequency,
             !.hung = p.frequency = 0]

Apply(at, p) ==
  IF at.hung THEN at
  ELSE IF p.type # "PWM" THEN SetPin(at, p)
  ELSE IF findPinDef(p) = {} THEN at
  ELSE StartPWM(at, CHOOSE d \in findPinDef(p) : TRUE, p)

Fresh ==
  [mode |-> [q \in Pins |-> "analog"], level |-> [q \in Pins |-> "Low"],
   timer |-> [x \in Timers |-> 0], hung |-> FALSE]

ReplayMasked(t) ==               \* mutant: the slot of a row is taken for the pin
  LET after[n \in 0 .. Row * (LastPort + 1)] ==
        IF n = 0 THEN Fresh
        ELSE IF valid(t[n - 1])
             THEN Apply(after[n - 1], [t[n - 1] EXCEPT !.number = (n - 1) % Row])
             ELSE after[n - 1]
  IN  after[Row * (LastPort + 1)]

(* The loops of reroute_tx_app: every slot in its order *)
Replay(t) ==
  LET after[n \in 0 .. Row * (LastPort + 1)] ==
        IF n = 0 THEN Fresh
        ELSE IF valid(t[n - 1]) THEN Apply(after[n - 1], t[n - 1]) ELSE after[n - 1]
  IN  after[Row * (LastPort + 1)]

-----------------------------------------------------------------------------

(* An object that is a command only *)
NoPin == [port |-> 0, number |-> 1, type |-> "HighZ", state |-> "NoChange",
          timer |-> "None", frequency |-> 0]

Init ==
  /\ table = Data
  /\ io = Fresh
  /\ storage = Data
  /\ stored = FALSE /\ reset = FALSE
  /\ objects = 0
  /\ kept = Fresh
  /\ clash = FALSE
  /\ exact = TRUE

(* History: p takes over the slot of another pin, or the frequency of one  *)
(* that is on the same timer, or is a PWM pin that is none.                *)
Clashes(p) ==
  \/ table[Slot(p)] # Erased /\ table[Slot(p)].number # p.number
  \/ /\ p.type = "PWM"
     /\ \/ findPinDef(p) = {}
        \/ \E q \in Pins \ ({p.port} \X Selected(p.number)) :
              /\ io.mode[q] \in Timers
              /\ Apply(io, p).timer[io.mode[q]] # io.timer[io.mode[q]]

(* handleConfiguration: the table changes before the pin does.  Pin 4 of   *)
(* the last port lies behind the array and is left out: what it overwrites *)
(* is not part of this model.                                              *)
Handle(p) ==
  IF valid(p)
  THEN /\ Slot(p) \in Slots
       /\ table' = [table EXCEPT ![Slot(p)] = p]
       /\ io' = Apply(io, p)
       /\ clash' = (clash \/ Clashes(p))
  ELSE UNCHANGED <<table, io, clash>>

(* One turn of the loop over the objects of the array.  Without a          *)
(* "PinType" an object is HighZ, without a "PinState" NoChange, without a  *)
(* "Port" of port A, without a "PinNumber" of pin 0: a mere command        *)
(* changes no pin, as NoChange is not valid.                               *)
ObjectWritesThrough(p, command) ==   \* mutant: the table is stored as it changes
  /\ ~io.hung /\ objects < MaxObjects
  /\ objects' = objects + 1
  /\ stored' = (stored \/ command = "StoreConfig")
  /\ reset' = (reset \/ command = "ResetStorage")
  /\ Handle(p)
  /\ storage' = table'
  /\ UNCHANGED <<kept, exact>>

Object(p, command) ==
  /\ ~io.hung /\ objects < MaxObjects
  /\ objects' = objects + 1
  /\ stored' = (stored \/ command = "StoreConfig")
  /\ reset' = (reset \/ command = "ResetStorage")
  /\ Handle(p)
  /\ UNCHANGED <<storage, kept, exact>>

(* After the loop: a store if one was asked for, else a reset *)
ResetForgotten ==                \* mutant: a reset leaves the storage as it is
  /\ ~io.hung /\ (stored \/ reset)
  /\ IF stored THEN storage' = table ELSE UNCHANGED storage
  /\ kept' = (IF stored THEN io ELSE Fresh)
  /\ exact' = (IF stored THEN ~clash ELSE TRUE)
  /\ stored' = FALSE /\ reset' = FALSE
  /\ UNCHANGED <<table, io, objects, clash>>

EndOfMessage ==
  /\ ~io.hung /\ (stored \/ reset)
  /\ IF stored
     THEN storage' = table /\ kept' = io /\ exact' = ~clash
     ELSE storage' = Data /\ kept' = Fresh /\ exact' = TRUE
  /\ stored' = FALSE /\ reset' = FALSE
  /\ UNCHANGED <<table, io, objects, clash>>

(* Power is lost, or the reset button is pressed: the constructor of       *)
(* Configuration loads the table, and reroute_tx_app replays it, before    *)
(* any thread runs.                                                        *)
Restart ==
  /\ table' = storage
  /\ io' = Replay(table')
  /\ stored' = FALSE /\ reset' = FALSE
  /\ clash' = ~exact
  /\ UNCHANGED <<storage, objects, kept, exact>>

Next ==
  \/ \E p \in Given \cup {NoPin}, command \in {"none", "StoreConfig", "ResetStorage"} :
       Object(p, command)
  \/ EndOfMessage
  \/ Restart

Spec == Init /\ [][Next]_vars

-----------------------------------------------------------------------------
(* Properties *)

TypeOK ==
  /\ DOMAIN table = Slots
  /\ \A s \in Slots : table[s] # Erased => table[s] \in Given /\ Slot(table[s]) = s
  /\ io.mode \in [Pins -> Modes \cup Timers]
  /\ io.level \in [Pins -> {"Low", "High"}]
  /\ io.timer \in [Timers -> {p.frequency : p \in Given} \cup {0}]
  /\ io.hung \in BOOLEAN
  /\ {stored, reset, clash, exact} \subseteq BOOLEAN

(* What can be seen at a pin *)
Seen(at, q) ==
  CASE at.mode[q] \in Outputs -> <<at.mode[q], at.level[q]>>
    [] at.mode[q] \in Timers  -> <<at.mode[q], at.timer[at.mode[q]]>>
    [] OTHER -> <<at.mode[q]>>

(* "To store the current configuration" (readme.md:32): after a restart    *)
(* the pins are what they were when the configuration was stored, if none  *)
(* of the configurations that led there had clashed with another pin's.    *)
RestartRestoresPins ==
  [][Restart /\ exact => \A q \in Pins : Seen(io', q) = Seen(kept, q)]_vars

(* A frequency for which startPWM does not end stops the handler, but a    *)
(* restart brings the board back: what is stored never holds a             *)
(* configuration in which the replay of the start-up would hang as well.   *)
StartUpEnds == ~Replay(storage).hung

(* The table of handleConfiguration says what the pins are, in whatever    *)
(* order they were configured and reconfigured: replayed slot by slot it   *)
(* gives the pins as they are, as long as no configuration clashed with    *)
(* another pin's and none is being tried for ever.                         *)
MirrorsTheTable ==
  LET again == Replay(table) IN
    ~clash /\ ~io.hung => \A q \in Pins : Seen(again, q) = Seen(io, q)

=============================================================================
