CONSTANTS
  c1 = c1
  c2 = c2
  MaxInputs = 2
  Connection <- TwoConnections
  Policies <- AnyPolicy
  Messages <- Message
  Opening <- Message
  Faults <- EnginesRaise
SPECIFICATION FairSpec
INVARIANTS NoInputIsAnsweredTwice
PROPERTIES NobodyHangs
