------------------------------- MODULE LampProofs -------------------------------
(***************************************************************************)
(* Every output of the LEDs shows its setting, for any set of LEDs, servos *)
(* and values.  The argument: no two colours share a channel (Distinct),   *)
(* so that what SetLeds gives a colour is what its channel has and no      *)
(* other changes (SetLedsShows); the light show, which runs while all the  *)
(* settings are 0, leaves every colour dark.                               *)
(***************************************************************************)
EXTENDS Lamp, TLAPS

\* What an output has during the light show, and its setting afterwards.
Shine(led, var) ==
  IF show = 0 THEN Lit(led, var)
  ELSE IF show < 4 /\ var = Colours[led][4 - show] THEN 255 ELSE 0

\* The inductive invariant: during the light show every setting is still 0.
IInv ==
  /\ TypeOK
  /\ show > 0 => VALUES = [var \in Vars |-> 0]
  /\ \A led \in Leds : \A var \in ColoursOf(led) :
       /\ width[Channel(var)] = Shine(led, var)
       /\ Soft(var) => softPwmEnabled[var] = Shine(led, var)

----------------------------------------------------------------------------
(* The variables (pwmdriver.h).                                            *)

\* The colours of each LED.
LEMMA ColoursAre ==
  /\ ColoursOf(1) = {33, 10, 11} /\ ColoursOf(2) = {34, 6, 7} /\ ColoursOf(3) = {35, 29, 30}
  /\ ColoursOf(4) = {31, 0, 36} /\ ColoursOf(5) = {37, 38, 5} /\ ColoursOf(6) = {9, 8, 13, 12}
<1>1. ColoursOf(1) = {33, 10, 11} BY DEF ColoursOf, Colours
<1>2. ColoursOf(2) = {34, 6, 7} BY DEF ColoursOf, Colours
<1>3. ColoursOf(3) = {35, 29, 30} BY DEF ColoursOf, Colours
<1>4. ColoursOf(4) = {31, 0, 36} BY DEF ColoursOf, Colours
<1>5. ColoursOf(5) = {37, 38, 5} BY DEF ColoursOf, Colours
<1>6. ColoursOf(6) = {9, 8, 13, 12} BY DEF ColoursOf, Colours
<1> QED BY <1>1, <1>2, <1>3, <1>4, <1>5, <1>6

\* The first three colours of a LED differ, and are its own.
LEMMA ThreeColours ==
  ASSUME NEW led \in 1..6
  PROVE  /\ \A k \in 1..3 : Colours[led][k] \in ColoursOf(led)
         /\ \A j, k \in 1..3 : Colours[led][j] = Colours[led][k] => j = k
<1>1. CASE led = 1 BY <1>1 DEF ColoursOf, Colours
<1>2. CASE led = 2 BY <1>2 DEF ColoursOf, Colours
<1>3. CASE led = 3 BY <1>3 DEF ColoursOf, Colours
<1>4. CASE led = 4 BY <1>4 DEF ColoursOf, Colours
<1>5. CASE led = 5 BY <1>5 DEF ColoursOf, Colours
<1>6. CASE led = 6 BY <1>6 DEF ColoursOf, Colours
<1> QED BY <1>1, <1>2, <1>3, <1>4, <1>5, <1>6

\* No variable is a colour of two LEDs.
LEMMA OneLed ==
  ASSUME NEW led \in 1..6, NEW other \in 1..6, NEW var \in ColoursOf(led), var \in ColoursOf(other)
  PROVE  led = other
BY ColoursAre

\* The numbers of the colours.
Numbers == {0} \cup 5..13 \cup 29..31 \cup 33..38

LEMMA ColourRange == LedVars \subseteq Numbers
<1>1. ASSUME NEW led \in 1..6 PROVE ColoursOf(led) \subseteq Numbers
  BY ColoursAre DEF Numbers
<1> QED BY <1>1, LampAssumption DEF LedVars

\* No two colours share a channel: those of the soft PWM have no output.
LEMMA Distinct ==
  ASSUME NEW var \in LedVars, NEW v \in LedVars, Channel(var) = Channel(v)
  PROVE  var = v
BY ColourRange DEF Channel, Numbers

\* The settings are those of colours, switches and servos, and no number is of two kinds.
LEMMA Kinds ==
  /\ \A led \in Leds : ColoursOf(led) \subseteq LedVars /\ On(led) \in Vars /\ On(led) \notin LedVars
  /\ \A led, other \in Leds : On(led) = On(other) => led = other
  /\ \A s \in Servos : ServoVar(s) \in Vars /\ ServoVar(s) \notin LedVars
  /\ \A s \in Servos, led \in Leds : ServoVar(s) # On(led)
  /\ LedVars \subseteq Vars
<1>1. \A led \in Leds : ColoursOf(led) \subseteq LedVars /\ On(led) \in Vars
  BY DEF LedVars, Vars
<1>2. \A led \in Leds : On(led) \in 50..55
  BY LampAssumption DEF On
<1>3. \A s \in Servos : ServoVar(s) \in 61..65
  BY LampAssumption DEF ServoVar
<1>4. \A n \in 50..65 : n \notin LedVars
  BY ColourRange DEF Numbers
<1>5. \A led, other \in Leds : On(led) = On(other) => led = other
  BY LampAssumption DEF On
<1>6. (\A s \in Servos : ServoVar(s) \in Vars) /\ LedVars \subseteq Vars
  BY DEF Vars
<1> QED BY <1>1, <1>2, <1>3, <1>4, <1>5, <1>6

----------------------------------------------------------------------------
(* setLedI.                                                                *)

\* What SetLeds gives a colour is what its outputs have, and no other colour changes.
LEMMA SetLedsShows ==
  ASSUME TypeOK, NEW power, DOMAIN power \subseteq LedVars, SetLeds(power)
  PROVE  \A var \in LedVars :
           /\ width'[Channel(var)] = IF var \in DOMAIN power THEN power[var] ELSE width[Channel(var)]
           /\ Soft(var) => softPwmEnabled'[var] =
                IF var \in DOMAIN power THEN power[var] ELSE softPwmEnabled[var]
<1> SUFFICES ASSUME NEW var \in LedVars
             PROVE  /\ width'[Channel(var)] = IF var \in DOMAIN power THEN power[var] ELSE width[Channel(var)]
                    /\ Soft(var) => softPwmEnabled'[var] =
                         IF var \in DOMAIN power THEN power[var] ELSE softPwmEnabled[var]
  OBVIOUS
<1> DEFINE ch == Channel(var)
           sharing == {v \in DOMAIN power : Channel(v) = ch}
<1>1. ch \in Channels
  BY DEF Channels
<1>2. width'[ch] = IF \E v \in DOMAIN power : Channel(v) = ch
                   THEN power[CHOOSE v \in DOMAIN power : Channel(v) = ch] ELSE width[ch]
  BY <1>1 DEF SetLeds, Widths
<1>3. \A v \in DOMAIN power : Channel(v) = ch => v = var
  BY Distinct
<1>4. width'[ch] = IF var \in DOMAIN power THEN power[var] ELSE width[ch]
  <2>1. CASE var \in DOMAIN power
    <3>1. (CHOOSE v \in DOMAIN power : Channel(v) = ch) = var
      BY <1>3, <2>1
    <3> QED BY <1>2, <2>1, <3>1
  <2>2. CASE var \notin DOMAIN power
    BY <1>2, <1>3, <2>2
  <2> QED BY <2>1, <2>2
<1>5. Soft(var) => softPwmEnabled'[var] =
        IF var \in DOMAIN power THEN power[var] ELSE softPwmEnabled[var]
  BY DEF SetLeds, Enabled, SoftVars
<1> QED BY <1>4, <1>5

\* SetLeds keeps the types.
LEMMA SetLedsType ==
  ASSUME TypeOK, NEW power, DOMAIN power \subseteq LedVars, SetLeds(power),
         \A var \in DOMAIN power : power[var] \in Nat
  PROVE  /\ width' \in [Channels -> Nat] /\ softPwmEnabled' \in [SoftVars -> Nat]
         /\ notification' \subseteq SoftVars
<1>1. \A ch \in Channels :
        Widths(power)[ch] \in Nat
  <2> SUFFICES ASSUME NEW ch \in Channels PROVE Widths(power)[ch] \in Nat
    OBVIOUS
  <2>1. CASE \E var \in DOMAIN power : Channel(var) = ch
    <3>1. (CHOOSE var \in DOMAIN power : Channel(var) = ch) \in DOMAIN power
      BY <2>1
    <3> QED BY <2>1, <3>1 DEF Widths
  <2>2. CASE ~\E var \in DOMAIN power : Channel(var) = ch
    BY <2>2 DEF Widths, TypeOK
  <2> QED BY <2>1, <2>2
<1>2. width' \in [Channels -> Nat]
  BY <1>1 DEF SetLeds, Widths
<1>3. softPwmEnabled' \in [SoftVars -> Nat]
  BY DEF SetLeds, Enabled, TypeOK
<1>4. notification' \subseteq SoftVars
  BY DEF SetLeds, TypeOK
<1> QED BY <1>2, <1>3, <1>4

----------------------------------------------------------------------------
(* The inductive invariant.                                                *)

LEMMA InitInv == Init => IInv
<1> SUFFICES ASSUME Init PROVE IInv
  OBVIOUS
<1>1. TypeOK
  BY DEF Init, TypeOK
<1>2. ASSUME NEW led \in Leds, NEW var \in ColoursOf(led)
      PROVE  /\ width[Channel(var)] = Shine(led, var)
             /\ Soft(var) => softPwmEnabled[var] = Shine(led, var)
  <2>1. var \in LedVars /\ Channel(var) \in Channels /\ (Soft(var) => var \in SoftVars)
    BY <1>2, Kinds DEF Channels, SoftVars
  <2> QED BY <2>1 DEF Init, Shine
<1> QED BY <1>1, <1>2 DEF Init, IInv

\* A step of the light show.
LEMMA ShowInv ==
  ASSUME IInv, Show
  PROVE  IInv'
<1> DEFINE power == [var \in LedVars |->
       IF show > 1 /\ \E led \in Leds : var = Colours[led][5 - show] THEN 255
       ELSE IF show < 4 /\ \E led \in Leds : var = Colours[led][4 - show] THEN 0
       ELSE width[Channel(var)]]
<1>0. TypeOK /\ show \in 1..4 /\ show' = show - 1 /\ SetLeds(power)
  BY DEF IInv, TypeOK, Show
<1>1. DOMAIN power = LedVars
  OBVIOUS
<1>2. \A var \in LedVars : power[var] \in Nat
  BY <1>0 DEF TypeOK, Channels
<1>3. TypeOK'
  <2>1. /\ width' \in [Channels -> Nat] /\ softPwmEnabled' \in [SoftVars -> Nat]
        /\ notification' \subseteq SoftVars
    <3> HIDE DEF power
    <3> QED BY <1>0, <1>1, <1>2, SetLedsType
  <2> QED BY <2>1, <1>0 DEF Show, settings, soft, servos, TypeOK
<1>4. \A var \in LedVars :
        /\ width'[Channel(var)] = power[var]
        /\ Soft(var) => softPwmEnabled'[var] = power[var]
  <2> HIDE DEF power
  <2> QED BY <1>0, <1>1, SetLedsShows
<1>5. VALUES' = [var \in Vars |-> 0]
  BY <1>0 DEF IInv, Show, settings
<1>6. ASSUME NEW led \in Leds, NEW var \in ColoursOf(led)
      PROVE  power[var] = Shine(led, var)'
  <2>1. var \in LedVars /\ On(led) \in Vars /\ var \in Vars /\ led \in 1..6
    BY <1>6, Kinds, LampAssumption
  <2>2. \A other \in Leds, k \in 1..3 : var = Colours[other][k] => other = led
    BY <2>1, <1>6, ThreeColours, OneLed, LampAssumption
  <2>3. \A j, k \in 1..3 : Colours[led][j] = Colours[led][k] => j = k
    BY <2>1, ThreeColours
  <2>4. width[Channel(var)] = Shine(led, var)
    BY <1>6 DEF IInv
  <2>5. Lit(led, var)' = 0
    BY <2>1, <1>5 DEF Lit
  <2>6. power[var] = IF show > 1 /\ var = Colours[led][5 - show] THEN 255
                     ELSE IF show < 4 /\ var = Colours[led][4 - show] THEN 0
                     ELSE Shine(led, var)
    BY <1>6, <2>1, <2>2, <2>4, <1>0
  <2>7. Shine(led, var)' = IF show > 1 /\ var = Colours[led][5 - show] THEN 255 ELSE 0
    BY <2>5, <1>0 DEF Shine
  <2>8. Shine(led, var) = IF show < 4 /\ var = Colours[led][4 - show] THEN 255 ELSE 0
    BY <1>0 DEF Shine
  <2> HIDE DEF power
  <2> QED BY <2>6, <2>7, <2>8
<1>7. ASSUME NEW led \in Leds, NEW var \in ColoursOf(led)
      PROVE  /\ width'[Channel(var)] = Shine(led, var)'
             /\ Soft(var) => softPwmEnabled'[var] = Shine(led, var)'
  <2>1. var \in LedVars
    BY <1>7, Kinds
  <2> HIDE DEF power
  <2> QED BY <2>1, <1>7, <1>4, <1>6
<1> QED BY <1>3, <1>5, <1>7 DEF IInv

\* A LED is switched on or off: its colours follow, those of the others stay.
LEMMA SwitchInv ==
  ASSUME IInv, NEW led \in Leds, NEW value \in {0, 1}, SwitchLed(led, value)
  PROVE  IInv'
<1> DEFINE power == [var \in ColoursOf(led) |-> IF value # 0 THEN VALUES[var] ELSE 0]
<1>0. /\ TypeOK /\ show = 0 /\ show' = 0 /\ SetLeds(power)
      /\ VALUES' = [VALUES EXCEPT ![On(led)] = value]
  BY DEF IInv, SwitchLed
<1>1. DOMAIN power = ColoursOf(led) /\ ColoursOf(led) \subseteq LedVars
  BY Kinds
<1>2. \A var \in ColoursOf(led) : power[var] \in Nat
  BY <1>0, Kinds DEF TypeOK
<1>3. TypeOK'
  <2>1. /\ width' \in [Channels -> Nat] /\ softPwmEnabled' \in [SoftVars -> Nat]
        /\ notification' \subseteq SoftVars
    <3> HIDE DEF power
    <3> QED BY <1>0, <1>1, <1>2, SetLedsType
  <2>2. VALUES' \in [Vars -> Nat]
    <3>1. value \in Nat /\ VALUES \in [Vars -> Nat]
      BY <1>0 DEF TypeOK
    <3> QED BY <3>1, <1>0
  <2> QED BY <2>1, <2>2, <1>0 DEF SwitchLed, soft, servos, TypeOK
<1>4. \A var \in LedVars :
        /\ width'[Channel(var)] = IF var \in ColoursOf(led) THEN power[var] ELSE width[Channel(var)]
        /\ Soft(var) => softPwmEnabled'[var] =
             IF var \in ColoursOf(led) THEN power[var] ELSE softPwmEnabled[var]
  <2> HIDE DEF power
  <2> QED BY <1>0, <1>1, SetLedsShows
<1>5. ASSUME NEW other \in Leds, NEW var \in ColoursOf(other)
      PROVE  /\ width'[Channel(var)] = Shine(other, var)'
             /\ Soft(var) => softPwmEnabled'[var] = Shine(other, var)'
  <2>1. /\ var \in LedVars /\ var \in Vars /\ On(other) \in Vars /\ On(led) \in Vars
        /\ On(led) # var
    BY <1>5, Kinds
  <2>2. Shine(other, var)' = Lit(other, var)'
    BY <1>0 DEF Shine
  <2>3. CASE other = led
    <3>1. Lit(other, var)' = IF value # 0 THEN VALUES[var] ELSE 0
      BY <2>1, <2>3, <1>0 DEF Lit, TypeOK
    <3>2. power[var] = IF value # 0 THEN VALUES[var] ELSE 0
      BY <2>3, <1>5
    <3> HIDE DEF power
    <3> QED BY <3>1, <3>2, <2>1, <2>2, <2>3, <1>4, <1>5
  <2>4. CASE other # led
    <3>1. var \notin ColoursOf(led)
      BY <2>4, <1>5, OneLed, LampAssumption
    <3>2. Lit(other, var)' = Lit(other, var)
      BY <2>1, <2>4, <1>0, Kinds DEF Lit, TypeOK
    <3>3. Lit(other, var) = Shine(other, var)
      BY <1>0 DEF Shine
    <3> HIDE DEF power
    <3> QED BY <3>1, <3>2, <3>3, <2>1, <2>2, <1>4, <1>5 DEF IInv
  <2> QED BY <2>3, <2>4
<1> QED BY <1>3, <1>5, <1>0 DEF IInv

\* A colour is set: it is shown if its LED is on, and no other output changes.
LEMMA ColourInv ==
  ASSUME IInv, NEW led \in Leds, NEW var \in ColoursOf(led), NEW value \in Nat,
         SetColour(led, var, value)
  PROVE  IInv'
<1> DEFINE power == [v \in {var} |-> value]
<1>0. /\ TypeOK /\ show = 0 /\ show' = 0 /\ VALUES' = [VALUES EXCEPT ![var] = value]
      /\ var \in LedVars /\ var \in Vars
  BY Kinds DEF IInv, SetColour
<1>1. VALUES' \in [Vars -> Nat]
  BY <1>0 DEF TypeOK
<1>2. CASE VALUES[On(led)] # 0
  <2>1. SetLeds(power) /\ DOMAIN power = {var} /\ power[var] = value
    BY <1>2 DEF SetColour
  <2> HIDE DEF power
  <2>2. /\ width' \in [Channels -> Nat] /\ softPwmEnabled' \in [SoftVars -> Nat]
        /\ notification' \subseteq SoftVars
    BY <1>0, <2>1, SetLedsType
  <2>3. TypeOK'
    BY <2>2, <1>1, <1>0 DEF SetColour, soft, servos, TypeOK
  <2>4. \A v \in LedVars :
          /\ width'[Channel(v)] = IF v = var THEN value ELSE width[Channel(v)]
          /\ Soft(v) => softPwmEnabled'[v] = IF v = var THEN value ELSE softPwmEnabled[v]
    BY <1>0, <2>1, SetLedsShows
  <2>5. ASSUME NEW other \in Leds, NEW v \in ColoursOf(other)
        PROVE  /\ width'[Channel(v)] = Shine(other, v)'
               /\ Soft(v) => softPwmEnabled'[v] = Shine(other, v)'
    <3>1. v \in LedVars /\ v \in Vars /\ On(other) \in Vars /\ On(other) # var
      BY <2>5, <1>0, Kinds
    <3>2. Shine(other, v)' = IF VALUES[On(other)] # 0 THEN VALUES'[v] ELSE 0
      BY <1>0, <3>1 DEF Shine, Lit, TypeOK
    <3>3. v = var => other = led
      BY <2>5, OneLed, LampAssumption
    <3>4. CASE v = var
      BY <3>2, <3>3, <3>4, <2>4, <1>2, <1>0 DEF TypeOK
    <3>5. CASE v # var
      BY <3>1, <3>2, <3>5, <2>4, <2>5, <1>0 DEF IInv, Shine, Lit, TypeOK
    <3> QED BY <3>4, <3>5
  <2> QED BY <2>3, <2>5, <1>0 DEF IInv
<1>3. CASE VALUES[On(led)] = 0
  <2>1. UNCHANGED outputs
    BY <1>3 DEF SetColour
  <2>2. TypeOK'
    BY <2>1, <1>1, <1>0 DEF SetColour, outputs, soft, servos, TypeOK
  <2>3. ASSUME NEW other \in Leds, NEW v \in ColoursOf(other)
        PROVE  Shine(other, v)' = Shine(other, v)
    <3>1. v \in LedVars /\ v \in Vars /\ On(other) \in Vars /\ On(other) # var
      BY <2>3, <1>0, Kinds
    <3>2. v = var => other = led
      BY <2>3, OneLed, LampAssumption
    <3> QED BY <3>1, <3>2, <1>3, <1>0 DEF Shine, Lit, TypeOK
  <2> QED BY <2>1, <2>2, <2>3, <1>0 DEF IInv, outputs
<1> QED BY <1>2, <1>3

\* A servo is set: no LED changes.
LEMMA ServoInv ==
  ASSUME IInv, NEW s \in Servos, NEW value \in Nat, SetServo(s, value)
  PROVE  IInv'
<1>0. /\ TypeOK /\ show = 0 /\ show' = 0 /\ VALUES' = [VALUES EXCEPT ![ServoVar(s)] = value]
      /\ UNCHANGED outputs
  BY DEF IInv, SetServo
<1>1. TypeOK'
  BY <1>0 DEF SetServo, outputs, soft, servos, TypeOK
<1>2. ASSUME NEW led \in Leds, NEW var \in ColoursOf(led)
      PROVE  Shine(led, var)' = Shine(led, var)
  <2>1. var \in Vars /\ On(led) \in Vars /\ ServoVar(s) # var /\ ServoVar(s) # On(led)
    BY <1>2, Kinds
  <2> QED BY <2>1, <1>0 DEF Shine, Lit, TypeOK
<1> QED BY <1>0, <1>1, <1>2 DEF IInv, outputs

\* What leaves the settings, the outputs and the show alone keeps the invariant.
LEMMA OutputsKeepInv ==
  ASSUME IInv, UNCHANGED <<settings, outputs, show>>, TypeOK'
  PROVE  IInv'
<1>1. ASSUME NEW led \in Leds, NEW var \in ColoursOf(led)
      PROVE  Shine(led, var)' = Shine(led, var)
  BY DEF Shine, Lit, settings
<1> QED BY <1>1 DEF IInv, settings, outputs

LEMMA InterruptInv ==
  ASSUME IInv, Interrupt
  PROVE  IInv'
<1>0. TypeOK
  BY DEF IInv
<1>1. ASSUME NEW t \in SoftTimers, Period(t) PROVE IInv'
  <2>1. \A var \in SoftVars : width[Channel(var)] \in Nat
    BY <1>0 DEF TypeOK, SoftVars, Channels
  <2>2. \A var \in SoftVars : Latched(width[Channel(var)]) \in 0..255
    BY <2>1 DEF Latched
  <2>3. latched' \in [SoftVars -> 0..255]
    BY <1>0, <1>1, <2>2 DEF Period, TypeOK
  <2>4. pad' \in [SoftVars -> BOOLEAN]
    BY <1>0, <1>1 DEF Period, TypeOK
  <2> QED BY <1>0, <1>1, <2>3, <2>4, OutputsKeepInv
          DEF Period, TypeOK, settings, outputs, servos
<1>2. ASSUME NEW var \in SoftVars, Compare(var) PROVE IInv'
  <2>1. latched' \in [SoftVars -> 0..255]
    BY <1>0, <1>2 DEF Compare, TypeOK
  <2>2. pad' \in [SoftVars -> BOOLEAN]
    BY <1>0, <1>2 DEF Compare, TypeOK
  <2> QED BY <1>0, <1>2, <2>1, <2>2, OutputsKeepInv
          DEF Compare, TypeOK, settings, outputs, servos
<1>3. ASSUME ServoTick PROVE IInv'
  <2>1. left' \in [Servos -> Nat]
    <3>1. ASSUME NEW s \in Servos
          PROVE  (IF pulse[s] # 0 THEN pulse[s] ELSE IF left[s] = 0 THEN 0 ELSE left[s] - 20000) \in Nat
      <4>1. pulse[s] \in Nat /\ left[s] \in Nat
        BY <3>1, <1>0 DEF TypeOK
      <4>2. ~Ending(s)
        BY <3>1, <1>3 DEF ServoTick
      <4>3. left[s] = 0 \/ left[s] >= 20000
        BY <4>1, <4>2 DEF Ending
      <4>4. left[s] # 0 => left[s] - 20000 \in Nat
        BY <4>1, <4>3
      <4> QED BY <4>1, <4>4
    <3> QED BY <3>1, <1>3 DEF ServoTick
  <2>2. servoPad' \in [Servos -> BOOLEAN]
    BY <1>0, <1>3 DEF ServoTick, TypeOK
  <2> QED BY <1>0, <1>3, <2>1, <2>2, OutputsKeepInv
          DEF ServoTick, TypeOK, settings, outputs, soft
<1>4. ASSUME NEW s \in Servos, ClearServo(s) PROVE IInv'
  BY <1>0, <1>4, OutputsKeepInv DEF ClearServo, TypeOK, settings, outputs, soft
<1> QED BY <1>1, <1>2, <1>3, <1>4 DEF Interrupt

LEMMA StepInv == IInv /\ [Next]_vars => IInv'
<1> SUFFICES ASSUME IInv, [Next]_vars PROVE IInv'
  OBVIOUS
<1>1. CASE Show
  BY <1>1, ShowInv
<1>2. CASE Set
  BY <1>2, SwitchInv, ColourInv, ServoInv, LampAssumption DEF Set
<1>3. CASE Interrupt
  BY <1>3, InterruptInv
<1>4. CASE UNCHANGED vars
  <2>1. TypeOK'
    BY <1>4 DEF IInv, TypeOK, vars, settings, outputs, soft, servos
  <2> QED BY <1>4, <2>1, OutputsKeepInv DEF vars
<1> QED BY <1>1, <1>2, <1>3, <1>4 DEF Next

LEMMA Invariance == Spec => []IInv
<1>1. Init => IInv
  BY InitInv
<1>2. IInv /\ [Next]_vars => IInv'
  BY StepInv
<1> QED BY <1>1, <1>2, PTL DEF Spec

----------------------------------------------------------------------------
(* What is shown.                                                          *)

\* The types of the LEDs and servos hold for any set of LEDs, servos and values: in
\* particular no width beyond the period is ever counted to (pwmdriver.c:118-157).
THEOREM LampTypeCorrect == Spec => []TypeOK
<1>1. IInv => TypeOK
  BY DEF IInv
<1> QED BY <1>1, Invariance, PTL

\* After the light show every output of every LED shows its setting, in whatever order the
\* colours are set and the LEDs switched on and off (pwmdriver.c:266-286, 356).
THEOREM LedsShown == Spec => []Shown
<1>1. IInv => Shown
  BY DEF IInv, Shown, Shine
<1> QED BY <1>1, Invariance, PTL
=============================================================================
