SPECIFICATION Spec
CONSTANTS
  Leds = {5}
  Servos = {1}
  Powers = {0, 100, 300}
  Pulses = {0, 1500, 30000}
INVARIANTS TypeOK Shown
PROPERTIES GoesDark 
