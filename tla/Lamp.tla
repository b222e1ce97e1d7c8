---------------------------------- MODULE Lamp ----------------------------------
(***************************************************************************)
(* The LEDs and servos of the plant (pwmdriver.c): the settings VALUES,    *)
(* the widths of the PWM channels, the pads that have no PWM output and    *)
(* are driven by the interrupts of a channel ("soft" PWM), the pulses of   *)
(* the servos; and the light show of main.c at the end of startup.         *)
(*                                                                         *)
(* The system lock makes setValue atomic; the callbacks run in interrupts. *)
(***************************************************************************)
EXTENDS Integers

CONSTANTS Leds,   \* the LEDs: 1..5, and 6 for the high power one
          Servos, \* the servos: 1..5
          Powers, \* the values a LED can be given
          Pulses  \* the values a servo can be given, in microseconds

\* pwmdriver.h: the variables of the colours of a LED (R, G, B, and W for the last one),
\* the one that switches it on, and the one of a servo.
Colours ==
  << <<33, 10, 11>>, <<34, 6, 7>>, <<35, 29, 30>>, <<31, 0, 36>>, <<37, 38, 5>>, <<9, 8, 13, 12>> >>
ColoursOf(led) == {Colours[led][k] : k \in DOMAIN Colours[led]}
On(led) == 49 + led
ServoVar(servo) == 60 + servo

LedVars == UNION {ColoursOf(led) : led \in Leds}
Vars == LedVars \cup {On(led) : led \in Leds} \cup {ServoVar(s) : s \in Servos}

\* A pulse of a multiple of 20 ms would end at the very instant of a tick.
ASSUME LampAssumption ==
  /\ Leds \subseteq 1..6 /\ Servos \subseteq 1..5
  /\ Powers \subseteq Nat /\ Pulses \subseteq {p \in Nat : p = 0 \/ p % 20000 # 0}

\* The variables above 32 have no PWM output: their pad follows a channel of their own.
Soft(var) == var > 32
Slot(var) == var - 33

\* The channel, four to a timer, that setLedI gives a variable.
Channel(var) == IF var <= 32 THEN var ELSE IF var < 37 THEN var - 32 ELSE var - 23

Channels == {Channel(var) : var \in LedVars}
SoftVars == {var \in LedVars : Soft(var)}
Timer(var) == Channel(var) \div 4
SoftTimers == {Timer(var) : var \in SoftVars}

VARIABLES
  VALUES,         \* the settings
  width,          \* the width of each PWM channel
  softPwmEnabled, \* of the soft PWM variables: what their period callback looks at
  pulse,          \* of the servos: softPwmEnabled[5 + servo]
  notification,   \* the variables whose channel calls back at the end of its width
  latched,        \* soft PWM: the width the timer counts to in this period
  pad,            \* soft PWM: the pad is high
  servoPad,       \* the pad of each servo is high
  left,           \* its timer: the time left at the last tick, 0 when it is not armed
  show            \* the light show: the steps to come

settings == <<VALUES, pulse>>
outputs == <<width, softPwmEnabled, notification>>
soft == <<latched, pad>>
servos == <<servoPad, left>>
vars == <<settings, outputs, soft, servos, show>>

\* pwmUserInit
Init ==
  /\ VALUES = [var \in Vars |-> 0] /\ pulse = [s \in Servos |-> 0]
  /\ width = [ch \in Channels |-> 0] /\ softPwmEnabled = [var \in SoftVars |-> 0]
  /\ notification = {}
  /\ latched = [var \in SoftVars |-> 0] /\ pad = [var \in SoftVars |-> FALSE]
  /\ servoPad = [s \in Servos |-> FALSE] /\ left = [s \in Servos |-> 0]
  /\ show = 4

----------------------------------------------------------------------------
(* setLedI, for the variables in the domain of power.                      *)

Widths(power) ==
  [ch \in Channels |->
     IF \E var \in DOMAIN power : Channel(var) = ch
     THEN power[CHOOSE var \in DOMAIN power : Channel(var) = ch] ELSE width[ch]]
Enabled(power) ==
  [var \in SoftVars |-> IF var \in DOMAIN power THEN power[var] ELSE softPwmEnabled[var]]

\* Mutant of SetLeds: the end of the width calls nobody back.
SetLedsSilent(power) ==
  /\ width' = Widths(power) /\ softPwmEnabled' = Enabled(power)
  /\ UNCHANGED notification

SetLeds(power) ==
  /\ width' = Widths(power) /\ softPwmEnabled' = Enabled(power)
  /\ notification' = notification \cup (DOMAIN power \cap SoftVars)

\* The light show: all the LEDs in red, then green, then blue, then dark (main.c).
Show ==
  /\ show > 0 /\ show' = show - 1
  /\ SetLeds([var \in LedVars |->
       IF show > 1 /\ \E led \in Leds : var = Colours[led][5 - show] THEN 255
       ELSE IF show < 4 /\ \E led \in Leds : var = Colours[led][4 - show] THEN 0
       ELSE width[Channel(var)]])
  /\ UNCHANGED <<settings, soft, servos>>

----------------------------------------------------------------------------
(* setValueI, by websocket_ext, the alarm or the touch sensors, which      *)
(* start after the light show.                                             *)

SwitchLed(led, value) ==
  /\ show = 0
  /\ VALUES' = [VALUES EXCEPT ![On(led)] = value]
  /\ SetLeds([var \in ColoursOf(led) |-> IF value # 0 THEN VALUES[var] ELSE 0])
  /\ UNCHANGED <<pulse, soft, servos, show>>

\* Mutant of SetColour: the LED need not be on.
SetColourAnyway(led, var, value) ==
  /\ show = 0
  /\ VALUES' = [VALUES EXCEPT ![var] = value]
  /\ SetLeds([v \in {var} |-> value])
  /\ UNCHANGED <<pulse, soft, servos, show>>

SetColour(led, var, value) ==
  /\ show = 0
  /\ VALUES' = [VALUES EXCEPT ![var] = value]
  /\ IF VALUES[On(led)] # 0 THEN SetLeds([v \in {var} |-> value]) ELSE UNCHANGED outputs
  /\ UNCHANGED <<pulse, soft, servos, show>>

SetServo(s, value) ==
  /\ show = 0
  /\ VALUES' = [VALUES EXCEPT ![ServoVar(s)] = value]
  /\ pulse' = [pulse EXCEPT ![s] = value]
  /\ UNCHANGED <<outputs, soft, servos, show>>

----------------------------------------------------------------------------
(* Interrupts: the timers of the soft PWM, and the virtual timers of the   *)
(* servos.                                                                 *)

\* Mutant of Latched: a width beyond the period is latched.
LatchedBeyond(w) == w

\* The timers count 256 ticks: what is beyond is never reached.
Latched(w) == IF w < 256 THEN w ELSE 0

\* The end of a period of timer t: the new widths are latched, one of 0 is reached at once
\* and one beyond the period never, then tim1cb, tim2cb or tim4cb raises the pads.
Period(t) ==
  LET ofTimer == {var \in SoftVars : Timer(var) = t}
      next(var) == width[Channel(var)]
  IN
  /\ \A var \in ofTimer : latched[var] = 0
  /\ latched' = [var \in SoftVars |->
       IF var \in ofTimer THEN Latched(next(var)) ELSE latched[var]]
  /\ pad' = [var \in SoftVars |->
       IF var \notin ofTimer THEN pad[var]
       ELSE softPwmEnabled[var] # 0 \/ (pad[var] /\ ~(next(var) = 0 /\ var \in notification))]
  /\ UNCHANGED <<settings, outputs, servos, show>>

\* softpwm0 .. softpwm5: the timer has reached the width.
Compare(var) ==
  /\ latched[var] # 0
  /\ latched' = [latched EXCEPT ![var] = 0]
  /\ pad' = [pad EXCEPT ![var] = @ /\ var \notin notification]
  /\ UNCHANGED <<settings, outputs, servos, show>>

\* The timer of the pulse expires before the next tick.
Ending(s) == left[s] > 0 /\ left[s] < 20000

\* Mutant of ServoTick: the timers of the pulses are not set.
ServoTickUntimed ==
  /\ \A s \in Servos : ~Ending(s)
  /\ servoPad' = [s \in Servos |-> servoPad[s] \/ pulse[s] # 0]
  /\ UNCHANGED <<settings, outputs, soft, left, show>>

\* setServosI, every 20 ms: a servo that has a value is given a pulse of that length.  The
\* timer of a pulse that is longer is set again.
ServoTick ==
  /\ \A s \in Servos : ~Ending(s)
  /\ servoPad' = [s \in Servos |-> servoPad[s] \/ pulse[s] # 0]
  /\ left' = [s \in Servos |->
       IF pulse[s] # 0 THEN pulse[s] ELSE IF left[s] = 0 THEN 0 ELSE left[s] - 20000]
  /\ UNCHANGED <<settings, outputs, soft, show>>

\* clearServo1 .. clearServo5
ClearServo(s) ==
  /\ Ending(s)
  /\ servoPad' = [servoPad EXCEPT ![s] = FALSE]
  /\ left' = [left EXCEPT ![s] = 0]
  /\ UNCHANGED <<settings, outputs, soft, show>>

Set ==
  \/ \E led \in Leds :
       \/ \E value \in {0, 1} : SwitchLed(led, value)
       \/ \E var \in ColoursOf(led), value \in Powers : SetColour(led, var, value)
  \/ \E s \in Servos, value \in Pulses : SetServo(s, value)

Interrupt ==
  \/ \E t \in SoftTimers : Period(t)
  \/ \E var \in SoftVars : Compare(var)
  \/ ServoTick \/ \E s \in Servos : ClearServo(s)

Next == Show \/ Set \/ Interrupt

\* The timers run.
Fairness ==
  /\ \A t \in SoftTimers : WF_vars(Period(t))
  /\ \A var \in SoftVars : WF_vars(Compare(var))
  /\ WF_vars(ServoTick) /\ \A s \in Servos : WF_vars(ClearServo(s))

Spec == Init /\ [][Next]_vars /\ Fairness

----------------------------------------------------------------------------

\* The type invariant.
TypeOK ==
  /\ VALUES \in [Vars -> Nat] /\ pulse \in [Servos -> Nat]
  /\ width \in [Channels -> Nat] /\ softPwmEnabled \in [SoftVars -> Nat]
  /\ notification \subseteq SoftVars
  /\ latched \in [SoftVars -> 0..255] /\ pad \in [SoftVars -> BOOLEAN]
  /\ servoPad \in [Servos -> BOOLEAN] /\ left \in [Servos -> Nat]
  /\ show \in 0..4

\* The light of a colour, given the settings.
Lit(led, var) == IF VALUES[On(led)] # 0 THEN VALUES[var] ELSE 0

\* Once the light show is over each output shows its setting: a LED that is on the colours
\* that were set last, in whatever order they came and whether the LED was on then or not,
\* and a LED that is off nothing; no two colours share a channel (pwmdriver.c:266-286, 356).
Shown ==
  show = 0 =>
    \A led \in Leds : \A var \in ColoursOf(led) :
      /\ width[Channel(var)] = Lit(led, var)
      /\ Soft(var) => softPwmEnabled[var] = Lit(led, var)

\* A soft PWM pad whose colour is switched off goes dark, at whatever moment of the period
\* this happens and even if its width was beyond the period (pwmdriver.c:64-116, 274).
GoesDark ==
  \A var \in SoftVars : softPwmEnabled[var] = 0 ~> (~pad[var] \/ softPwmEnabled[var] # 0)

\* The pulses of a servo end, unless its value is beyond the 20 ms that separate them
\* (pwmdriver.c:36-61).
PulseEnds == \A s \in Servos : servoPad[s] ~> (~servoPad[s] \/ pulse[s] > 20000)

=============================================================================
