SPECIFICATION StartUp
CONSTANTS
  Names = {"playCustomAni"}
  Texts = {0, 1}
  Unset = Unset
INVARIANT AnimationIsOptional
