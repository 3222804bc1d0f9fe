\* One and two register stages, valid port, reset.
CONSTANTS
  Depths = {1, 2}
  Shapes = {"join", "twoOut", "guard", "const", "plain"}
  UseReset = TRUE
  None = None
  Unknown = Unknown
  Apply <- Term
  Designs <- Small
SPECIFICATION FairSpec
INVARIANTS
  TypeOK
  RegistersAligned
  WiresAligned
  ResetOutputs
PROPERTIES
  ImplementsDelayLine
  ValidIsDelivered
