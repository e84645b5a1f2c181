---------------------------- MODULE Pins_proofs ----------------------------
(***************************************************************************)
(* Proofs about the pins and the table that is stored, for any number of   *)
(* ports, any timers, any pins that have one, and any configurations.      *)
(***************************************************************************)
EXTENDS Pins, Recursion

-----------------------------------------------------------------------------
(* The inductive invariant *)

Hardware ==
  [mode : [Pins -> Modes \cup Timers], level : [Pins -> {"Low", "High"}],
   timer : [Timers -> {p.frequency : p \in Given} \cup {0}], hung : BOOLEAN]

Tables == [Slots -> Given \cup {Erased}]

(* Each entry lies in the slot where handleConfiguration puts it. *)
Good(t) ==
  /\ t \in Tables
  /\ \A s \in Slots : t[s] # Erased => valid(t[s]) /\ Slot(t[s]) = s

(* The slot where the entry of a pin would be, and whether it is there *)
Home(q) == q[1] * Row + 2 ^ q[2]
Owns(t, q) == Home(q) \in Slots /\ t[Home(q)] # Erased /\ t[Home(q)].number = 2 ^ q[2]

Def(p) == CHOOSE d \in findPinDef(p) : TRUE

Defined(t) == \A s \in Slots : t[s].type = "PWM" => findPinDef(t[s]) # {}

(* The loop of startPWM does not end for p; it ends for every entry of t. *)
Endless(p) == p.type = "PWM" /\ findPinDef(p) # {} /\ p.frequency = 0
Ends(t) == \A s \in Slots : ~Endless(t[s])

(* The hardware is what the entries of the table say. *)
Shown(p, at, q) ==
  IF p.type = "PWM" THEN at.mode[q] = Def(p).timer /\ at.timer[Def(p).timer] = p.frequency
                    ELSE at.mode[q] = p.type /\ at.level[q] = p.state

Shows(t, at) ==
  \A q \in Pins : IF Owns(t, q) THEN Shown(t[Home(q)], at, q) ELSE at.mode[q] = "analog"

TypeInv ==
  /\ Good(table) /\ Good(storage) /\ io \in Hardware
  /\ {stored, reset, clash, exact} \subseteq BOOLEAN

EndsInv ==
  /\ Ends(storage)
  /\ ~io.hung => Ends(table)

ShownInv ==
  /\ ~clash /\ ~io.hung => Defined(table) /\ Shows(table, io)
  /\ exact => Defined(storage) /\ Shows(storage, kept)

-----------------------------------------------------------------------------
(* Masks and slots *)

Powers == {1, 2, 4, 8, 16}

LEMMA PowerOfTwo ==
  ASSUME NEW k \in 0 .. 4
  PROVE  /\ 2 ^ k \in Powers
         /\ \/ k = 0 /\ 2 ^ k = 1
            \/ k = 1 /\ 2 ^ k = 2
            \/ k = 2 /\ 2 ^ k = 4
            \/ k = 3 /\ 2 ^ k = 8
            \/ k = 4 /\ 2 ^ k = 16
<1>1. 2 ^ 0 = 1 /\ 2 ^ 1 = 2 /\ 2 ^ 2 = 4 /\ 2 ^ 3 = 8 /\ 2 ^ 4 = 16  OBVIOUS
<1>2. k = 0 \/ k = 1 \/ k = 2 \/ k = 3 \/ k = 4  OBVIOUS
<1>3. CASE k = 0
  <2>1. 2 ^ k = 2 ^ 0  BY <1>3
  <2> QED BY <1>1, <1>3, <2>1 DEF Powers
<1>4. CASE k = 1
  <2>1. 2 ^ k = 2 ^ 1  BY <1>4
  <2> QED BY <1>1, <1>4, <2>1 DEF Powers
<1>5. CASE k = 2
  <2>1. 2 ^ k = 2 ^ 2  BY <1>5
  <2> QED BY <1>1, <1>5, <2>1 DEF Powers
<1>6. CASE k = 3
  <2>1. 2 ^ k = 2 ^ 3  BY <1>6
  <2> QED BY <1>1, <1>6, <2>1 DEF Powers
<1>7. CASE k = 4
  <2>1. 2 ^ k = 2 ^ 4  BY <1>7
  <2> QED BY <1>1, <1>7, <2>1 DEF Powers
<1> QED BY <1>2, <1>3, <1>4, <1>5, <1>6, <1>7

(* A valid configuration selects one of the pins 0 to 4, or none. *)
LEMMA ValidMask ==
  ASSUME NEW p \in Given, valid(p)
  PROVE  p.number \in Powers \cup {0} /\ p.port \in Ports /\ p.port \in Nat
<1>1. PICK n \in 0 .. 31 : p.number = MaskOf(n)  BY PinsAssumption DEF PinsAssumption
<1>2. p.number <= 16 /\ p.port \in Ports /\ p.port \in Nat  BY DEF valid, Ports
<1>3. CASE n \in 0 .. 4
  <2>1. p.number = 2 ^ n  BY <1>1, <1>3 DEF MaskOf
  <2> QED BY <1>2, <1>3, <2>1, PowerOfTwo
<1>4. CASE n = 5 \/ n = 6 \/ n = 7
  <2>1. 2 ^ 5 = 32 /\ 2 ^ 6 = 64 /\ 2 ^ 7 = 128  OBVIOUS
  <2>2. p.number = 2 ^ 5 \/ p.number = 2 ^ 6 \/ p.number = 2 ^ 7
    <3>1. n < 8  BY <1>4
    <3>2. p.number = 2 ^ n  BY <1>1, <3>1 DEF MaskOf
    <3> QED BY <1>4, <3>2
  <2> QED BY <1>2, <2>1, <2>2
<1>5. CASE ~(n < 8)  BY <1>1, <1>2, <1>5 DEF MaskOf
<1> QED BY <1>3, <1>4, <1>5

LEMMA SelectedPins ==
  ASSUME NEW mask \in Powers \cup {0}, NEW k \in 0 .. 4
  PROVE  k \in Selected(mask) <=> mask = 2 ^ k
<1>1. k \in Selected(mask) <=> (mask \div (2 ^ k)) % 2 = 1  BY DEF Selected
<1>2. mask = 0 \/ mask = 1 \/ mask = 2 \/ mask = 4 \/ mask = 8 \/ mask = 16  BY DEF Powers
<1>3. CASE k = 0 /\ 2 ^ k = 1  BY <1>1, <1>2, <1>3
<1>4. CASE k = 1 /\ 2 ^ k = 2  BY <1>1, <1>2, <1>4
<1>5. CASE k = 2 /\ 2 ^ k = 4  BY <1>1, <1>2, <1>5
<1>6. CASE k = 3 /\ 2 ^ k = 8  BY <1>1, <1>2, <1>6
<1>7. CASE k = 4 /\ 2 ^ k = 16  BY <1>1, <1>2, <1>7
<1> QED BY <1>3, <1>4, <1>5, <1>6, <1>7, PowerOfTwo

(* The pins that a configuration sets are those whose slot it takes under  *)
(* their own number.                                                       *)
LEMMA ItsPins ==
  ASSUME NEW p \in Given, valid(p), NEW q \in Pins
  PROVE  q \in {p.port} \X Selected(p.number) <=> Home(q) = Slot(p) /\ p.number = 2 ^ q[2]
<1>1. /\ q[1] \in Ports /\ q[1] \in Nat /\ q[2] \in 0 .. 4 /\ q = <<q[1], q[2]>>
  BY DEF Pins, Ports
<1>2. p.number \in Powers \cup {0} /\ p.port \in Nat  BY ValidMask
<1>3. q[2] \in Selected(p.number) <=> p.number = 2 ^ q[2]  BY <1>1, <1>2, SelectedPins
<1>4. q \in {p.port} \X Selected(p.number) <=> q[1] = p.port /\ q[2] \in Selected(p.number)
  <2>1. ASSUME q[1] = p.port, q[2] \in Selected(p.number)
        PROVE  q \in {p.port} \X Selected(p.number)
    BY <1>1, <2>1
  <2> QED BY <2>1
<1>5. ASSUME p.number = 2 ^ q[2] PROVE q[1] = p.port <=> Home(q) = Slot(p)
  <2>1. p.number \in Nat  BY <1>2 DEF Powers
  <2> QED BY <1>1, <1>2, <1>5, <2>1 DEF Home, Slot, Row
<1> QED BY <1>3, <1>4, <1>5

LEMMA ErasedIsNone ==
  /\ Erased \notin Given /\ ~valid(Erased)
  /\ \A p \in Given : p.type \in {"HighZ", "PWM"} \cup Outputs /\ p.type # "255"
<1>1. \A p \in Given : p.type \in {"HighZ", "PWM"} \cup Outputs
  BY PinsAssumption DEF PinsAssumption
<1>2. Erased.type = "255" /\ Erased.number = 255  BY DEF Erased
<1>3. \A p \in Given : p.type # "255"  BY <1>1 DEF Outputs
<1>4. ~valid(Erased)  BY <1>2 DEF valid
<1> QED BY <1>1, <1>2, <1>3, <1>4

-----------------------------------------------------------------------------
(* What a configuration does to the hardware *)

LEMMA DefOf ==
  ASSUME NEW p, findPinDef(p) # {}
  PROVE  /\ Def(p) \in PinDefs /\ Def(p).timer \in Timers
         /\ Def(p).port = p.port /\ Def(p).number = p.number /\ p.number # 0
<1>1. Def(p) \in findPinDef(p)  BY DEF Def
<1>2. Def(p) \in PinDefs /\ Def(p).port = p.port /\ Def(p).number = p.number
  BY <1>1 DEF findPinDef
<1>3. \A d \in PinDefs : d.number # 0 /\ d.timer \in Timers
  BY PinsAssumption DEF PinsAssumption
<1> QED BY <1>2, <1>3

LEMMA SetPinFacts ==
  ASSUME NEW at \in Hardware, ~at.hung, NEW p \in Given, valid(p), p.type # "PWM"
  PROVE  /\ Apply(at, p) \in Hardware /\ Apply(at, p).timer = at.timer /\ ~Apply(at, p).hung
         /\ \A q \in Pins :
              IF q \in {p.port} \X Selected(p.number)
              THEN Apply(at, p).mode[q] = p.type /\ Apply(at, p).level[q] = p.state
              ELSE Apply(at, p).mode[q] = at.mode[q] /\ Apply(at, p).level[q] = at.level[q]
<1> DEFINE some == {p.port} \X Selected(p.number)
<1>1. Apply(at, p) = [at EXCEPT !.mode = [q \in Pins |-> IF q \in some THEN p.type ELSE @[q]],
                                !.level = [q \in Pins |-> IF q \in some THEN p.state ELSE @[q]]]
  BY DEF Apply, SetPin
<1> DEFINE F == {r.frequency : r \in Given} \cup {0}
<1>2. p.type \in Modes /\ p.state \in {"Low", "High"}
  <2>1. p.type \in {"HighZ", "PWM"} \cup Outputs  BY ErasedIsNone
  <2> QED BY <2>1 DEF valid, Modes
<1>3. at \in [mode : [Pins -> Modes \cup Timers], level : [Pins -> {"Low", "High"}],
              timer : [Timers -> F], hung : BOOLEAN]
  BY DEF Hardware
<1> HIDE DEF some, F
<1>4. PICK new : new = Apply(at, p)  OBVIOUS
<1>5. new = [at EXCEPT !.mode = [q \in Pins |-> IF q \in some THEN p.type ELSE at.mode[q]],
                         !.level = [q \in Pins |-> IF q \in some THEN p.state ELSE at.level[q]]]
  BY <1>1, <1>4
<1>6. /\ new.mode = [q \in Pins |-> IF q \in some THEN p.type ELSE at.mode[q]]
      /\ new.level = [q \in Pins |-> IF q \in some THEN p.state ELSE at.level[q]]
      /\ new.timer = at.timer /\ new.hung = at.hung
      /\ new \in [mode : [Pins -> Modes \cup Timers], level : [Pins -> {"Low", "High"}],
                  timer : [Timers -> F], hung : BOOLEAN]
  BY <1>2, <1>3, <1>5
<1> QED BY <1>4, <1>6 DEF Hardware, F, some

LEMMA StartPWMFacts ==
  ASSUME NEW at \in Hardware, ~at.hung,
         NEW p \in Given, valid(p), p.type = "PWM", findPinDef(p) # {}
  PROVE  /\ Apply(at, p) \in Hardware /\ Apply(at, p).level = at.level
         /\ Apply(at, p).hung <=> p.frequency = 0
         /\ p.frequency # 0 => Apply(at, p).timer[Def(p).timer] = p.frequency
         /\ \A x \in Timers \ {Def(p).timer} : Apply(at, p).timer[x] = at.timer[x]
         /\ \A q \in Pins :
              Apply(at, p).mode[q] = IF q \in {p.port} \X Selected(p.number)
                                     THEN Def(p).timer ELSE at.mode[q]
<1> DEFINE some == {p.port} \X Selected(p.number)
           x    == Def(p).timer
           F    == {r.frequency : r \in Given} \cup {0}
           then == IF p.frequency = 0 THEN at.timer[x] ELSE p.frequency
<1>1. Apply(at, p) = [at EXCEPT !.mode = [q \in Pins |-> IF q \in some THEN x ELSE @[q]],
                                !.timer[x] = then, !.hung = p.frequency = 0]
  <2>1. Apply(at, p) = StartPWM(at, Def(p), p)  BY DEF Apply, Def
  <2>2. Def(p).port = p.port /\ Def(p).number = p.number  BY DefOf
  <2> HIDE DEF Def
  <2> QED BY <2>1, <2>2 DEF StartPWM
<1>2. x \in Timers /\ p.frequency \in F  BY DefOf
<1>7. then \in F  BY <1>2 DEF Hardware
<1>8. p.frequency # 0 => then = p.frequency  OBVIOUS
<1>3. at \in [mode : [Pins -> Modes \cup Timers], level : [Pins -> {"Low", "High"}],
                 timer : [Timers -> F], hung : BOOLEAN]
  BY DEF Hardware
<1> HIDE DEF some, x, F, then
<1>4. PICK new : new = Apply(at, p)  OBVIOUS
<1>5. new = [at EXCEPT !.mode = [q \in Pins |-> IF q \in some THEN x ELSE at.mode[q]],
                       !.timer = [at.timer EXCEPT ![x] = then], !.hung = p.frequency = 0]
  BY <1>1, <1>4
<1>6. /\ new.mode = [q \in Pins |-> IF q \in some THEN x ELSE at.mode[q]]
      /\ new.level = at.level /\ new.timer = [at.timer EXCEPT ![x] = then]
      /\ new.hung = (p.frequency = 0)
      /\ new \in [mode : [Pins -> Modes \cup Timers], level : [Pins -> {"Low", "High"}],
                  timer : [Timers -> F], hung : BOOLEAN]
  BY <1>2, <1>3, <1>5, <1>7
<1> QED BY <1>2, <1>3, <1>4, <1>6, <1>8 DEF Hardware, F, some, x

LEMMA ApplyType ==
  ASSUME NEW at \in Hardware, NEW p \in Given, valid(p)
  PROVE  /\ Apply(at, p) \in Hardware
         /\ Apply(at, p).hung <=> at.hung \/ Endless(p)
<1>1. CASE ~at.hung /\ p.type # "PWM"  BY <1>1, SetPinFacts DEF Endless
<1>2. CASE ~at.hung /\ p.type = "PWM" /\ findPinDef(p) # {}
  BY <1>2, StartPWMFacts DEF Endless
<1>3. CASE ~at.hung /\ p.type = "PWM" /\ findPinDef(p) = {}  BY <1>3 DEF Apply, Endless
<1>4. CASE at.hung  BY <1>4 DEF Apply
<1> QED BY <1>1, <1>2, <1>3, <1>4

(* p meets no other pin's entry in t, and no other pin's timer in at: what *)
(* Clashes(p) denies of the table and the hardware.                        *)
Harmless(t, at, p) ==
  /\ t[Slot(p)] = Erased \/ t[Slot(p)].number = p.number
  /\ p.type = "PWM" =>
       /\ findPinDef(p) # {}
       /\ \A q \in Pins \ ({p.port} \X Selected(p.number)) :
            at.mode[q] \in Timers => Apply(at, p).timer[at.mode[q]] = at.timer[at.mode[q]]

(* What the pins show and the table says is changed alike. *)
LEMMA ApplyShows ==
  ASSUME NEW t, Good(t), Defined(t), NEW at \in Hardware, ~at.hung, Shows(t, at),
         NEW p \in Given, valid(p), Slot(p) \in Slots, Harmless(t, at, p), ~Endless(p),
         NEW u, u = [t EXCEPT ![Slot(p)] = p]
  PROVE  Good(u) /\ Defined(u) /\ Shows(u, Apply(at, p))
<1>1. t \in Tables /\ \A s \in Slots : t[s] # Erased => valid(t[s]) /\ Slot(t[s]) = s
  BY DEF Good
<1>2. /\ u \in Tables /\ u[Slot(p)] = p
      /\ \A s \in Slots : s # Slot(p) => u[s] = t[s]
  BY <1>1 DEF Tables
<1>3. Good(u)  BY <1>1, <1>2 DEF Good
<1>4. Defined(u)  BY <1>2 DEF Harmless, Defined
<1>5. PICK new : new = Apply(at, p)  OBVIOUS
<1>6. ASSUME NEW q \in Pins, q \in {p.port} \X Selected(p.number)
      PROVE  IF Owns(u, q) THEN Shown(u[Home(q)], new, q) ELSE new.mode[q] = "analog"
  <2>1. Home(q) = Slot(p) /\ p.number = 2 ^ q[2]  BY <1>6, ItsPins
  <2>2. Owns(u, q) /\ u[Home(q)] = p  BY <1>2, <2>1, ErasedIsNone DEF Owns
  <2>3. CASE p.type = "PWM"
    <3>1. findPinDef(p) # {} /\ p.frequency # 0  BY <2>3 DEF Harmless, Endless
    <3> QED BY <1>5, <1>6, <2>2, <2>3, <3>1, StartPWMFacts DEF Shown
  <2>4. CASE p.type # "PWM"  BY <1>5, <1>6, <2>2, <2>4, SetPinFacts DEF Shown
  <2> QED BY <2>3, <2>4
<1>7. ASSUME NEW q \in Pins, q \notin {p.port} \X Selected(p.number)
      PROVE  IF Owns(u, q) THEN Shown(u[Home(q)], new, q) ELSE new.mode[q] = "analog"
  <2>1. ~(Home(q) = Slot(p) /\ p.number = 2 ^ q[2])  BY <1>7, ItsPins
  <2>2. (Owns(u, q) <=> Owns(t, q)) /\ (Owns(t, q) => u[Home(q)] = t[Home(q)])
    <3>1. CASE Home(q) = Slot(p)  BY <1>2, <2>1, <3>1 DEF Owns, Harmless
    <3>2. CASE Home(q) # Slot(p)  BY <1>2, <3>2 DEF Owns
    <3> QED BY <3>1, <3>2
  <2>3. IF Owns(t, q) THEN Shown(t[Home(q)], at, q) ELSE at.mode[q] = "analog"  BY DEF Shows
  <2>4. new.mode[q] = at.mode[q]
    <3>1. CASE p.type = "PWM"
      <4>1. findPinDef(p) # {}  BY <3>1 DEF Harmless
      <4> QED BY <1>5, <1>7, <3>1, <4>1, StartPWMFacts
    <3>2. CASE p.type # "PWM"  BY <1>5, <1>7, <3>2, SetPinFacts
    <3> QED BY <3>1, <3>2
  <2>5. CASE ~Owns(t, q)  BY <2>2, <2>3, <2>4, <2>5
  <2>6. CASE Owns(t, q)
    <3>1. PICK e : e = t[Home(q)]  OBVIOUS
    <3>2. Shown(e, at, q) /\ u[Home(q)] = e /\ Owns(u, q) /\ Home(q) \in Slots
      BY <2>2, <2>3, <2>6, <3>1 DEF Owns
    <3>3. CASE e.type = "PWM"
      <4>1. findPinDef(e) # {}  BY <3>1, <3>2, <3>3 DEF Defined
      <4>2. Def(e).timer \in Timers  BY <4>1, DefOf
      <4>3. at.mode[q] = Def(e).timer /\ at.timer[Def(e).timer] = e.frequency
        BY <3>2, <3>3 DEF Shown
      <4>4. new.timer[Def(e).timer] = at.timer[Def(e).timer]
        <5>1. CASE p.type = "PWM"  BY <1>5, <1>7, <4>2, <4>3, <5>1 DEF Harmless
        <5>2. CASE p.type # "PWM"  BY <1>5, <5>2, SetPinFacts
        <5> QED BY <5>1, <5>2
      <4> QED BY <2>4, <3>2, <3>3, <4>3, <4>4 DEF Shown
    <3>4. CASE e.type # "PWM"
      <4>1. new.level[q] = at.level[q]
        <5>1. CASE p.type = "PWM"
          <6>1. findPinDef(p) # {}  BY <5>1 DEF Harmless
          <6> QED BY <1>5, <5>1, <6>1, StartPWMFacts
        <5>2. CASE p.type # "PWM"  BY <1>5, <1>7, <5>2, SetPinFacts
        <5> QED BY <5>1, <5>2
      <4> QED BY <2>4, <3>2, <3>4, <4>1 DEF Shown
    <3> QED BY <3>3, <3>4
  <2> QED BY <2>5, <2>6
<1>8. Shows(u, new)  BY <1>6, <1>7 DEF Shows
<1> QED BY <1>3, <1>4, <1>5, <1>8

(* Two states of the hardware that show the same table look the same. *)
LEMMA SeenAlike ==
  ASSUME NEW t, Good(t), Defined(t), NEW a, NEW b, Shows(t, a), Shows(t, b), NEW q \in Pins
  PROVE  Seen(a, q) = Seen(b, q)
<1>1. Timers \cap Modes = {}  BY PinsAssumption DEF PinsAssumption
<1>2. CASE ~Owns(t, q)
  <2>1. a.mode[q] = "analog" /\ b.mode[q] = "analog"  BY <1>2 DEF Shows
  <2>2. "analog" \notin Outputs /\ "analog" \notin Timers  BY <1>1 DEF Outputs, Modes
  <2> QED BY <2>1, <2>2 DEF Seen
<1>3. CASE Owns(t, q)
  <2>1. PICK e : e = t[Home(q)]  OBVIOUS
  <2>2. Shown(e, a, q) /\ Shown(e, b, q)  BY <1>3, <2>1 DEF Shows
  <2>3. e \in Given /\ Home(q) \in Slots
    BY <1>3, <2>1 DEF Owns, Good, Tables
  <2>4. CASE e.type = "PWM"
    <3>1. Def(e).timer \in Timers  BY <2>1, <2>3, <2>4, DefOf DEF Defined
    <3>2. Def(e).timer \notin Outputs  BY <1>1, <3>1 DEF Modes
    <3>3. a.mode[q] = b.mode[q] /\ a.mode[q] = Def(e).timer
          /\ a.timer[Def(e).timer] = b.timer[Def(e).timer]
      BY <2>2, <2>4 DEF Shown
    <3> QED BY <3>1, <3>2, <3>3 DEF Seen
  <2>5. CASE e.type # "PWM"
    <3>1. a.mode[q] = e.type /\ b.mode[q] = e.type /\ a.level[q] = b.level[q]
      BY <2>2, <2>5 DEF Shown
    <3>2. e.type \in Modes  BY <2>3, <2>5, ErasedIsNone DEF Modes
    <3>3. e.type \notin Timers  BY <1>1, <3>2
    <3> QED BY <3>1, <3>3 DEF Seen
  <2> QED BY <2>4, <2>5
<1> QED BY <1>2, <1>3

-----------------------------------------------------------------------------
(* The replay of a table *)

End == Row * (LastPort + 1)

LEMMA EndType == End \in Nat /\ Slots = 0 .. End - 1
  BY PinsAssumption DEF PinsAssumption, End, Slots, Row

ReplayedBy(f, t) ==
  f = [n \in 0 .. End |->
         IF n = 0 THEN Fresh
         ELSE IF valid(t[n - 1]) THEN Apply(f[n - 1], t[n - 1]) ELSE f[n - 1]]

Replays(f, t) ==
  /\ f[0] = Fresh
  /\ \A n \in 1 .. End :
       f[n] = IF valid(t[n - 1]) THEN Apply(f[n - 1], t[n - 1]) ELSE f[n - 1]

LEMMA ReplaySteps ==
  ASSUME NEW t, NEW f, ReplayedBy(f, t)
  PROVE  Replays(f, t)
<1>1. ASSUME NEW n \in 0 .. End
      PROVE  f[n] = IF n = 0 THEN Fresh
                    ELSE IF valid(t[n - 1]) THEN Apply(f[n - 1], t[n - 1]) ELSE f[n - 1]
  BY DEF ReplayedBy
<1>2. 0 \in 0 .. End /\ \A n \in 1 .. End : n \in 0 .. End /\ n # 0  BY EndType
<1> QED BY <1>1, <1>2 DEF Replays

LEMMA FreshType == Fresh \in Hardware
  BY DEF Fresh, Hardware, Modes

(* An entry of the table is a configuration, or nothing. *)
LEMMA EntryType ==
  ASSUME NEW t, Good(t), NEW s \in Slots
  PROVE  /\ valid(t[s]) <=> t[s] # Erased
         /\ valid(t[s]) => t[s] \in Given /\ Slot(t[s]) = s
         /\ t[s].type = "PWM" => valid(t[s])
<1>1. t[s] \in Given \cup {Erased} /\ (t[s] # Erased => valid(t[s]) /\ Slot(t[s]) = s)
  BY DEF Good, Tables
<1>2. ~valid(Erased) /\ Erased.type # "PWM"  BY ErasedIsNone DEF Erased
<1> QED BY <1>1, <1>2

LEMMA ReplayExists ==
  ASSUME NEW t, Good(t)
  PROVE  \E f \in [0 .. End -> Hardware] : ReplayedBy(f, t)
<1> DEFINE step == [n \in 1 .. End |-> [at \in Hardware |->
                      IF valid(t[n - 1]) THEN Apply(at, t[n - 1]) ELSE at]]
<1>1. End \in Nat /\ Fresh \in Hardware  BY EndType, FreshType
<1>2. ASSUME NEW n \in 1 .. End, NEW at \in Hardware
      PROVE  (IF valid(t[n - 1]) THEN Apply(at, t[n - 1]) ELSE at) \in Hardware
  <2>1. n - 1 \in Slots  BY EndType
  <2> QED BY <2>1, EntryType, ApplyType
<1>3. StaysIn(Hardware, End, step)  BY <1>2 DEF StaysIn
<1>4. PICK f \in [0 .. End -> Hardware] : GoesBy(f, End, Fresh, step)
  <2> HIDE DEF step
  <2> QED BY ONLY <1>1, <1>3, Recursively
<1>5. ASSUME NEW n \in 0 .. End
      PROVE  f[n] = IF n = 0 THEN Fresh
                    ELSE IF valid(t[n - 1]) THEN Apply(f[n - 1], t[n - 1]) ELSE f[n - 1]
  <2>1. CASE n = 0  BY <1>4, <2>1 DEF GoesBy
  <2>2. CASE n # 0
    <3>1. n \in 1 .. End /\ n - 1 \in 0 .. End  BY <1>1, <2>2
    <3>2. f[n - 1] \in Hardware  BY <1>4, <3>1
    <3> QED BY <1>4, <2>2, <3>1, <3>2 DEF GoesBy
  <2> QED BY <2>1, <2>2
<1>6. ReplayedBy(f, t)  BY <1>4, <1>5 DEF ReplayedBy
<1> QED BY <1>4, <1>6

LEMMA Replaying ==
  ASSUME NEW t, Good(t)
  PROVE  \E f \in [0 .. End -> Hardware] : Replays(f, t) /\ Replay(t) = f[End]
<1> DEFINE g == CHOOSE f : ReplayedBy(f, t)
<1>1. Replay(t) = g[End]  BY Zenon DEF Replay, ReplayedBy, End
<1>2. PICK f \in [0 .. End -> Hardware] : ReplayedBy(f, t)  BY ReplayExists
<1>3. ReplayedBy(g, t)  BY <1>2
<1> HIDE DEF g
<1>4. Replays(f, t) /\ Replays(g, t)  BY <1>2, <1>3, ReplaySteps
<1>5. Alike(f, g, End)  BY <1>4 DEF Replays, Alike
<1>6. End \in Nat /\ End \in 0 .. End  BY EndType
<1>7. f[End] = g[End]  BY <1>5, <1>6, Agree
<1> QED BY <1>1, <1>2, <1>4, <1>7

LEMMA ReplayType ==
  ASSUME NEW t, Good(t)
  PROVE  Replay(t) \in Hardware
<1>1. PICK f \in [0 .. End -> Hardware] : Replays(f, t) /\ Replay(t) = f[End]  BY Replaying
<1>2. End \in 0 .. End  BY EndType
<1> QED BY <1>1, <1>2

LEMMA NothingShown ==
  ASSUME NEW t, t = [s \in Slots |-> Erased]
  PROVE  Good(t) /\ Defined(t) /\ Shows(t, Fresh)
<1>1. Good(t)  BY DEF Good, Tables
<1>2. Defined(t)
  <2>1. Erased.type # "PWM"  BY DEF Erased
  <2> QED BY <2>1 DEF Defined
<1>3. Shows(t, Fresh)
  <2> SUFFICES ASSUME NEW q \in Pins PROVE ~Owns(t, q) /\ Fresh.mode[q] = "analog"
    BY DEF Shows
  <2> QED BY DEF Owns, Fresh
<1> QED BY <1>1, <1>2, <1>3

(* All PWM entries of a table that is shown on one timer have one          *)
(* frequency: that of the timer.                                           *)
LEMMA TimerOfEntry ==
  ASSUME NEW t, Good(t), Defined(t), NEW at, Shows(t, at), NEW s \in Slots, t[s].type = "PWM"
  PROVE  at.timer[Def(t[s]).timer] = t[s].frequency
<1>1. PICK e : e = t[s]  OBVIOUS
<1>2. e \in Given /\ valid(e) /\ Slot(e) = s /\ e # Erased  BY <1>1, EntryType
<1>3. findPinDef(e) # {}  BY <1>1 DEF Defined
<1>4. e.number \in Powers /\ e.port \in Ports /\ e.port \in Nat
  BY <1>2, <1>3, ValidMask, DefOf
<1>5. PICK k \in 0 .. 4 : e.number = 2 ^ k
  <2>1. 2 ^ 0 = 1 /\ 2 ^ 1 = 2 /\ 2 ^ 2 = 4 /\ 2 ^ 3 = 8 /\ 2 ^ 4 = 16  OBVIOUS
  <2>2. 0 \in 0 .. 4 /\ 1 \in 0 .. 4 /\ 2 \in 0 .. 4 /\ 3 \in 0 .. 4 /\ 4 \in 0 .. 4  OBVIOUS
  <2>3. e.number = 1 \/ e.number = 2 \/ e.number = 4 \/ e.number = 8 \/ e.number = 16
    BY <1>4 DEF Powers
  <2> QED BY <2>1, <2>2, <2>3
<1>6. PICK q : q = <<e.port, k>>  OBVIOUS
<1>7. q \in Pins /\ q[1] = e.port /\ q[2] = k  BY <1>4, <1>5, <1>6 DEF Pins
<1>8. Home(q) = s  BY <1>2, <1>5, <1>7 DEF Home, Slot
<1>9. Owns(t, q)  BY <1>1, <1>2, <1>5, <1>7, <1>8 DEF Owns
<1>10. Shown(e, at, q)  BY <1>1, <1>7, <1>8, <1>9 DEF Shows
<1> QED BY <1>1, <1>10 DEF Shown

(* A table that some hardware shows is what its replay shows. *)
LEMMA ReplayShows ==
  ASSUME NEW t, Good(t), Defined(t), Ends(t), NEW at, Shows(t, at)
  PROVE  Shows(t, Replay(t))
<1>1. PICK f \in [0 .. End -> Hardware] : Replays(f, t) /\ Replay(t) = f[End]  BY Replaying
<1>2. End \in Nat /\ Slots = 0 .. End - 1  BY EndType
<1>3. f[0] = Fresh /\ \A n \in 1 .. End :
                        f[n] = IF valid(t[n - 1]) THEN Apply(f[n - 1], t[n - 1]) ELSE f[n - 1]
  BY <1>1 DEF Replays
<1>4. t \in Tables  BY DEF Good
<1> DEFINE Begun(n) == [s \in Slots |-> IF s < n THEN t[s] ELSE Erased]
           S == {n \in 0 .. End : /\ Good(Begun(n)) /\ Defined(Begun(n)) /\ ~f[n].hung
                                  /\ Shows(Begun(n), f[n])}
<1>5. 0 \in S
  <2>1. Begun(0) = [s \in Slots |-> Erased]  BY <1>2
  <2> HIDE DEF Begun
  <2>2. ~f[0].hung  BY <1>3 DEF Fresh
  <2> QED BY <1>2, <1>3, <2>1, <2>2, NothingShown
<1>6. ASSUME NEW n \in 0 .. End, n \in S, n < End PROVE n + 1 \in S
  <2>1. n \in Slots /\ n + 1 \in 1 .. End /\ n + 1 \in 0 .. End /\ (n + 1) - 1 = n
    BY <1>2, <1>6
  <2>2. PICK b : b = Begun(n)  OBVIOUS
  <2>3. PICK u : u = Begun(n + 1)  OBVIOUS
  <2>4. PICK e : e = t[n]  OBVIOUS
  <2>5. Good(b) /\ Defined(b) /\ Shows(b, f[n]) /\ f[n] \in Hardware /\ ~f[n].hung
    BY <1>1, <1>6, <2>2
  <2>6. b[n] = Erased /\ \A s \in Slots : b[s] # Erased => b[s] = t[s]
    BY <2>1, <2>2
  <2>7. u = [b EXCEPT ![n] = e]
    <3>1. \A s \in Slots : s < n + 1 <=> s < n \/ s = n  BY <1>2, <2>1
    <3> QED BY <2>1, <2>2, <2>3, <2>4, <3>1
  <2> HIDE DEF Begun
  <2>8. f[n + 1] = IF valid(e) THEN Apply(f[n], e) ELSE f[n]  BY <1>3, <2>1, <2>4
  <2>9. CASE ~valid(e)
    <3>1. e = Erased  BY <2>1, <2>4, <2>9, EntryType
    <3>2. u = b  BY <2>1, <2>5, <2>6, <2>7, <3>1 DEF Good, Tables
    <3> QED BY <2>1, <2>3, <2>5, <2>8, <2>9, <3>2
  <2>10. CASE valid(e)
    <3>1. e \in Given /\ Slot(e) = n /\ ~Endless(e)
      BY <2>1, <2>4, <2>10, EntryType DEF Ends
    <3>2. ASSUME e.type = "PWM",
                 NEW q \in Pins, q \notin {e.port} \X Selected(e.number),
                 f[n].mode[q] \in Timers
          PROVE  Apply(f[n], e).timer[f[n].mode[q]] = f[n].timer[f[n].mode[q]]
      <4>1. findPinDef(e) # {}  BY <2>1, <2>4, <3>2 DEF Defined
      <4>2. PICK x : x = f[n].mode[q]  OBVIOUS
      <4>3. CASE x # Def(e).timer
        BY <2>5, <2>10, <3>1, <3>2, <4>1, <4>2, <4>3, StartPWMFacts
      <4>4. CASE x = Def(e).timer
        <5>1. Timers \cap Modes = {} /\ x \notin Modes
          BY <3>2, <4>2, PinsAssumption DEF PinsAssumption
        <5>2. Owns(b, q) /\ Shown(b[Home(q)], f[n], q)
          <6>1. x # "analog"  BY <5>1 DEF Modes
          <6> QED BY <2>5, <4>2, <6>1 DEF Shows
        <5>3. PICK d : d = b[Home(q)]  OBVIOUS
        <5>4. Home(q) \in Slots /\ d # Erased  BY <5>2, <5>3 DEF Owns
        <5>5. d = t[Home(q)]  BY <2>6, <5>3, <5>4
        <5>6. d \in Given  BY <2>5, <5>3, <5>4, EntryType
        <5>7. d.type = "PWM"
          <6>1. ASSUME d.type # "PWM" PROVE FALSE
            <7>1. x = d.type  BY <4>2, <5>2, <5>3, <6>1 DEF Shown
            <7>2. d.type \in Modes  BY <5>6, <6>1, ErasedIsNone DEF Modes
            <7> QED BY <5>1, <7>1, <7>2
          <6> QED BY <6>1
        <5>8. x = Def(d).timer /\ f[n].timer[x] = d.frequency
          BY <4>2, <5>2, <5>3, <5>7 DEF Shown
        <5>9. at.timer[x] = d.frequency  BY <5>4, <5>5, <5>7, <5>8, TimerOfEntry
        <5>10. at.timer[x] = e.frequency  BY <2>1, <2>4, <3>2, <4>4, TimerOfEntry
        <5>11. Apply(f[n], e).timer[x] = e.frequency
          BY <2>5, <2>10, <3>1, <3>2, <4>1, <4>4, StartPWMFacts DEF Endless
        <5> QED BY <4>2, <5>8, <5>9, <5>10, <5>11
      <4> QED BY <4>3, <4>4
    <3>3. e.type = "PWM" => findPinDef(e) # {}  BY <2>1, <2>4 DEF Defined
    <3>4. Harmless(b, f[n], e)
      <4>1. b[Slot(e)] = Erased  BY <2>6, <3>1
      <4> QED BY <3>2, <3>3, <4>1 DEF Harmless
    <3>5. Good(u) /\ Defined(u) /\ Shows(u, Apply(f[n], e))
      BY <2>1, <2>5, <2>7, <2>10, <3>1, <3>4, ApplyShows
    <3>6. ~Apply(f[n], e).hung  BY <2>5, <2>10, <3>1, ApplyType
    <3> QED BY <2>1, <2>3, <2>8, <2>10, <3>5, <3>6
  <2> QED BY <2>9, <2>10
<1>7. End \in S
  <2> HIDE DEF S
  <2>1. \A n \in 0 .. End : n \in S  BY <1>2, <1>5, <1>6, UpTo
  <2> QED BY <1>2, <2>1
<1>8. Begun(End) = t
  <2>1. \A s \in Slots : s < End  BY <1>2
  <2> QED BY <1>4, <2>1 DEF Tables
<1> HIDE DEF Begun
<1> QED BY <1>1, <1>7, <1>8

(* A table of entries that end is replayed to its end. *)
LEMMA ReplayEnds ==
  ASSUME NEW t, Good(t), Ends(t)
  PROVE  ~Replay(t).hung
<1>1. PICK f \in [0 .. End -> Hardware] : Replays(f, t) /\ Replay(t) = f[End]  BY Replaying
<1>2. End \in Nat /\ Slots = 0 .. End - 1 /\ End \in 0 .. End  BY EndType
<1>3. f[0] = Fresh /\ \A n \in 1 .. End :
                        f[n] = IF valid(t[n - 1]) THEN Apply(f[n - 1], t[n - 1]) ELSE f[n - 1]
  BY <1>1 DEF Replays
<1> DEFINE S == {n \in 0 .. End : ~f[n].hung}
<1>4. 0 \in S  BY <1>2, <1>3 DEF Fresh
<1>5. ASSUME NEW n \in 0 .. End, n \in S, n < End PROVE n + 1 \in S
  <2>1. n \in Slots /\ n + 1 \in 1 .. End /\ n + 1 \in 0 .. End /\ (n + 1) - 1 = n
    BY <1>2, <1>5
  <2>2. PICK e : e = t[n]  OBVIOUS
  <2>3. f[n + 1] = IF valid(e) THEN Apply(f[n], e) ELSE f[n]  BY <1>3, <2>1, <2>2
  <2>4. f[n] \in Hardware /\ ~f[n].hung  BY <1>1, <1>5
  <2>5. CASE ~valid(e)  BY <2>1, <2>3, <2>4, <2>5
  <2>6. CASE valid(e)
    <3>1. e \in Given /\ ~Endless(e)  BY <2>1, <2>2, <2>6, EntryType DEF Ends
    <3> QED BY <2>1, <2>3, <2>4, <2>6, <3>1, ApplyType
  <2> QED BY <2>5, <2>6
<1>6. End \in S
  <2> HIDE DEF S
  <2>1. \A n \in 0 .. End : n \in S  BY <1>2, <1>4, <1>5, UpTo
  <2> QED BY <1>2, <2>1
<1> QED BY <1>1, <1>6

-----------------------------------------------------------------------------
(* The invariant holds *)

Inv == TypeInv /\ EndsInv /\ ShownInv

LEMMA NothingHangs == Ends(Data)
<1>1. \A s \in Slots : Data[s].type # "PWM"  BY DEF Data, Erased
<1> QED BY <1>1 DEF Ends, Endless

LEMMA InitInv == Init => Inv
<1> SUFFICES ASSUME Init PROVE TypeInv /\ EndsInv /\ ShownInv  BY DEF Inv
<1>1. /\ table = Data /\ storage = Data /\ io = Fresh /\ kept = Fresh
      /\ stored = FALSE /\ reset = FALSE /\ clash = FALSE /\ exact = TRUE
  BY DEF Init
<1>2. Good(Data) /\ Defined(Data) /\ Shows(Data, Fresh)  BY NothingShown DEF Data
<1> QED BY <1>1, <1>2, FreshType, NothingHangs DEF TypeInv, EndsInv, ShownInv

(* The entry of a valid configuration: what handleConfiguration does *)
LEMMA HandleInv ==
  ASSUME TypeInv, EndsInv, ShownInv, ~io.hung, NEW p \in Given, valid(p), Handle(p),
         storage' = storage, kept' = kept, exact' = exact,
         stored' \in BOOLEAN, reset' \in BOOLEAN
  PROVE  TypeInv' /\ EndsInv' /\ ShownInv'
<1>1. /\ Slot(p) \in Slots /\ table' = [table EXCEPT ![Slot(p)] = p] /\ io' = Apply(io, p)
      /\ clash' = (clash \/ Clashes(p))
  BY DEF Handle
<1>2. Good(table) /\ Good(storage) /\ io \in Hardware /\ {clash, exact} \subseteq BOOLEAN
  BY DEF TypeInv
<1>3. TypeInv'
  <2>1. Good(table')
    <3>1. table' \in Tables  BY <1>1, <1>2 DEF Good, Tables
    <3> QED BY <1>1, <1>2, <3>1 DEF Good, Tables
  <2>2. Good(table)' /\ Good(storage)'  BY <1>2, <2>1
  <2>3. io' \in Hardware  BY <1>1, <1>2, ApplyType
  <2>4. clash' \in BOOLEAN /\ exact' \in BOOLEAN  BY <1>1, <1>2
  <2> QED BY <2>2, <2>3, <2>4 DEF TypeInv
<1>6. io'.hung <=> Endless(p)  BY <1>1, <1>2, ApplyType
<1>7. ASSUME ~Endless(p) PROVE Ends(table')
  <2>1. /\ table' = [table EXCEPT ![Slot(p)] = p] /\ Ends(table) /\ table \in Tables
    BY <1>1, <1>2 DEF EndsInv, Good
  <2>2. \A s \in Slots : table'[s] = IF s = Slot(p) THEN p ELSE table[s]
    BY <2>1 DEF Tables
  <2> QED BY <1>7, <2>1, <2>2 DEF Ends
<1>8. EndsInv'  BY <1>6, <1>7 DEF EndsInv
<1>4. ASSUME ~clash', ~io'.hung PROVE Defined(table)' /\ Shows(table, io)'
  <2>1. ~clash /\ ~Clashes(p)  BY <1>1, <1>4
  <2>2. Defined(table) /\ Shows(table, io)  BY <2>1 DEF ShownInv
  <2>3. Harmless(table, io, p)  BY <2>1 DEF Clashes, Harmless
  <2>4. Defined(table') /\ Shows(table', io')
    BY <1>1, <1>2, <1>4, <1>6, <2>2, <2>3, ApplyShows
  <2> QED BY <2>4
<1>5. exact' => Defined(storage)' /\ Shows(storage, kept)'  BY DEF ShownInv
<1> QED BY <1>3, <1>4, <1>5, <1>8 DEF ShownInv

LEMMA ObjectInv ==
  ASSUME TypeInv, EndsInv, ShownInv, NEW p, p \in Given \/ ~valid(p), NEW command,
         Object(p, command)
  PROVE  TypeInv' /\ EndsInv' /\ ShownInv'
<1>1. /\ Handle(p) /\ ~io.hung /\ storage' = storage /\ kept' = kept /\ exact' = exact
      /\ stored' = (stored \/ command = "StoreConfig")
      /\ reset' = (reset \/ command = "ResetStorage")
  BY DEF Object
<1>2. stored \in BOOLEAN /\ reset \in BOOLEAN  BY DEF TypeInv
<1>3. stored' \in BOOLEAN /\ reset' \in BOOLEAN  BY <1>1, <1>2
<1>4. CASE valid(p)  BY <1>1, <1>3, <1>4, HandleInv
<1>5. CASE ~valid(p)
  <2>1. table' = table /\ io' = io /\ clash' = clash  BY <1>1, <1>5 DEF Handle
  <2>2. TypeInv'  BY <1>1, <1>3, <2>1 DEF TypeInv
  <2>3. EndsInv' /\ ShownInv'  BY <1>1, <2>1 DEF EndsInv, ShownInv
  <2> QED BY <2>2, <2>3
<1> QED BY <1>4, <1>5

LEMMA EndOfMessageInv ==
  ASSUME TypeInv, EndsInv, ShownInv, EndOfMessage
  PROVE  TypeInv' /\ EndsInv' /\ ShownInv'
<1>1. ~io.hung /\ table' = table /\ io' = io /\ clash' = clash /\ stored' = FALSE /\ reset' = FALSE
  BY DEF EndOfMessage
<1>2. Good(table) /\ io \in Hardware /\ {clash, exact} \subseteq BOOLEAN  BY DEF TypeInv
<1>3. CASE stored
  <2>1. storage' = table /\ kept' = io /\ exact' = ~clash  BY <1>3 DEF EndOfMessage
  <2>2. exact' \in BOOLEAN  BY <1>2, <2>1
  <2>3. TypeInv'  BY <1>1, <1>2, <2>1, <2>2 DEF TypeInv
  <2>4. EndsInv' /\ ShownInv'  BY <1>1, <2>1 DEF EndsInv, ShownInv
  <2> QED BY <2>3, <2>4
<1>4. CASE ~stored
  <2>1. storage' = Data /\ kept' = Fresh /\ exact' = TRUE  BY <1>4 DEF EndOfMessage
  <2>2. Good(Data) /\ Defined(Data) /\ Shows(Data, Fresh)  BY NothingShown DEF Data
  <2>3. Good(storage)' /\ Defined(storage)' /\ Shows(storage, kept)'  BY <2>1, <2>2
  <2>4. TypeInv'  BY <1>1, <1>2, <2>1, <2>3 DEF TypeInv
  <2>5. EndsInv' /\ ShownInv'  BY <1>1, <2>1, <2>3, NothingHangs DEF EndsInv, ShownInv
  <2> QED BY <2>4, <2>5
<1> QED BY <1>3, <1>4

LEMMA RestartInv ==
  ASSUME TypeInv, EndsInv, ShownInv, Restart
  PROVE  TypeInv' /\ EndsInv' /\ ShownInv'
<1>1. /\ table' = storage /\ io' = Replay(storage) /\ storage' = storage
      /\ kept' = kept /\ exact' = exact /\ clash' = ~exact /\ stored' = FALSE /\ reset' = FALSE
  BY DEF Restart
<1>2. Good(storage) /\ exact \in BOOLEAN  BY DEF TypeInv
<1>3. TypeInv'
  <2>1. Good(table)' /\ Good(storage)'  BY <1>1, <1>2
  <2>2. io' \in Hardware  BY <1>1, <1>2, ReplayType
  <2>3. clash' \in BOOLEAN /\ exact' \in BOOLEAN  BY <1>1, <1>2
  <2> QED BY <1>1, <2>1, <2>2, <2>3 DEF TypeInv
<1>4. ASSUME exact PROVE Defined(storage) /\ Shows(storage, Replay(storage))
  BY <1>2, <1>4, ReplayShows DEF EndsInv, ShownInv
<1>5. exact' => Defined(storage)' /\ Shows(storage, kept)'  BY <1>1 DEF ShownInv
<1>6. ~clash' => Defined(table)' /\ Shows(table, io)'  BY <1>1, <1>2, <1>4
<1>7. EndsInv'  BY <1>1 DEF EndsInv
<1> QED BY <1>3, <1>5, <1>6, <1>7 DEF ShownInv

LEMMA NextInv == Inv /\ [Next]_vars => Inv'
<1> SUFFICES ASSUME TypeInv, EndsInv, ShownInv, [Next]_vars PROVE TypeInv' /\ EndsInv' /\ ShownInv'
  BY DEF Inv
<1> DEFINE Commands == {"none", "StoreConfig", "ResetStorage"}
<1>1. CASE \E p \in Given \cup {NoPin}, command \in Commands : Object(p, command)
  <2>1. ~valid(NoPin)  BY DEF NoPin, valid
  <2> QED BY <1>1, <2>1, ObjectInv
<1>2. CASE EndOfMessage  BY <1>2, EndOfMessageInv
<1>3. CASE Restart  BY <1>3, RestartInv
<1>4. CASE UNCHANGED vars
  <2>1. TypeInv'  BY <1>4 DEF vars, TypeInv
  <2>2. EndsInv' /\ ShownInv'  BY <1>4 DEF vars, EndsInv, ShownInv
  <2> QED BY <2>1, <2>2
<1> QED BY <1>1, <1>2, <1>3, <1>4 DEF Next

LEMMA InvHolds == Spec => []Inv
BY InitInv, NextInv, PTL DEF Spec

-----------------------------------------------------------------------------
(* Theorems *)

(* An entry of the table is one that was given, and lies in the slot that  *)
(* its port and number say; the hardware is in a mode that it has.         *)
THEOREM PinsTyped == Spec => []TypeOK
<1>1. TypeInv => TypeOK
  <2> SUFFICES ASSUME TypeInv PROVE TypeOK  OBVIOUS
  <2>1. /\ DOMAIN table = Slots
        /\ \A s \in Slots : table[s] # Erased => table[s] \in Given /\ Slot(table[s]) = s
    BY DEF TypeInv, Good, Tables
  <2>2. /\ io.mode \in [Pins -> Modes \cup Timers] /\ io.level \in [Pins -> {"Low", "High"}]
        /\ io.timer \in [Timers -> {p.frequency : p \in Given} \cup {0}]
        /\ io.hung \in BOOLEAN
    BY DEF TypeInv, Hardware
  <2> QED BY <2>1, <2>2 DEF TypeOK, TypeInv
<1>2. Inv => TypeOK  BY <1>1 DEF Inv
<1> QED BY <1>2, InvHolds, PTL

(* The replay of the start-up ends, whatever was configured, stored and    *)
(* reset before, and whatever hung the handler: a configuration that       *)
(* startPWM never ends for is in the table, but no store comes after it.   *)
THEOREM RestartsEnd == Spec => []StartUpEnds
<1>1. Inv => StartUpEnds  BY ReplayEnds DEF Inv, TypeInv, EndsInv, StartUpEnds
<1> QED BY <1>1, InvHolds, PTL

(* Replaying the table of handleConfiguration slot by slot gives the pins  *)
(* as they are, in whatever order they were configured, stored, reset and  *)
(* restarted, unless a configuration clashed with another pin's or hangs.  *)
THEOREM TableIsMirrored == Spec => []MirrorsTheTable
<1>1. Inv => MirrorsTheTable
  <2> SUFFICES ASSUME TypeInv, EndsInv, ShownInv, ~clash, ~io.hung, NEW q \in Pins
               PROVE  Seen(Replay(table), q) = Seen(io, q)
    BY DEF MirrorsTheTable, Inv
  <2>1. Good(table) /\ Defined(table) /\ Ends(table) /\ Shows(table, io)
    BY DEF TypeInv, EndsInv, ShownInv
  <2>2. Shows(table, Replay(table))  BY <2>1, ReplayShows
  <2> QED BY <2>1, <2>2, SeenAlike
<1> QED BY <1>1, InvHolds, PTL

(* After a restart every pin is what it was at the last store, or as the   *)
(* board starts if none was stored since the last reset, unless one of the *)
(* stored configurations clashed with another pin's.                       *)
THEOREM RestartRestores == Spec => RestartRestoresPins
<1> DEFINE Back == \A q \in Pins : Seen(io', q) = Seen(kept, q)
<1>1. Inv /\ [Next]_vars => [Restart /\ exact => Back]_vars
  <2> SUFFICES ASSUME TypeInv, EndsInv, ShownInv, Restart, exact, NEW q \in Pins
               PROVE  Seen(io', q) = Seen(kept, q)
    BY DEF Inv
  <2>1. io' = Replay(storage)  BY DEF Restart
  <2>2. Good(storage) /\ Defined(storage) /\ Ends(storage) /\ Shows(storage, kept)
    BY DEF TypeInv, EndsInv, ShownInv
  <2>3. Shows(storage, Replay(storage))  BY <2>2, ReplayShows
  <2>4. Seen(Replay(storage), q) = Seen(kept, q)  BY <2>2, <2>3, SeenAlike
  <2> QED BY <2>1, <2>4
<1> QED BY <1>1, InvHolds, PTL DEF Spec, RestartRestoresPins
=============================================================================
