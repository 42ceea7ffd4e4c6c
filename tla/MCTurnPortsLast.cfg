CONSTANTS
  RingSize = 8
  CounterSize = 64
  Start = 4
  Stop = 7
  MaxHigh = 20
SPECIFICATION Spec
PROPERTY ImplementsPool
