CONSTANTS
  RingSize = 7
  CounterSize = 70
  Start = 2
  Stop = 5
  MaxHigh = 13
SPECIFICATION Spec
 
PROPERTY ImplementsPool
