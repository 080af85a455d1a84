SPECIFICATION Spec
CONSTANTS
  Bodies <- MCBodies
  Cap = 16
  DamageBytes <- MCDamage
  MaxDamage = 0
INVARIANTS
  FramesDelivered
