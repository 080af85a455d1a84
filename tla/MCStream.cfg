SPECIFICATION Spec
CONSTANTS
  Bodies <- MCBodies
  Cap = 12
  DamageBytes <- MCDamage
  MaxDamage = 2
INVARIANTS
  TypeOK
  Reassembled
  Resynchronised
  InStep
