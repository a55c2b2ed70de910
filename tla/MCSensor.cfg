\* The tick and the delay of the firmware, the conversion time its comment names,
\* every kind of chip, a bus that fails and recovers at any time.
SPECIFICATION Spec
CONSTANTS
  TickMs = 10
  DelayMs = 45
  ConvMs = 41
  Chips = {"bme280", "bmp280", "other"}
INVARIANTS
  TypeOK
  StoresMeasured
PROPERTIES
  MeasuresAgain
