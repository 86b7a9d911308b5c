SPECIFICATION Spec
CONSTANTS
  wide = wide
  narrow = narrow
  imported = imported
  Rids <- RidsDef
  Width <- WidthDef
  External <- ExternalDef
  MaxLen = 2
INVARIANT DrawsStrictlyOrdered
