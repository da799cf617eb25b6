SPECIFICATION Spec
CONSTANTS
  Streams = {a, b, c}
  NoStream = NoStream
  Names = {t1, t2}
  NameOf <- TwoOfOneTarget
  HasIn = TRUE
  a = a
  b = b
  c = c
  t1 = t1
  t2 = t2
INVARIANTS LookupIsSound ClosesOpenStreams RunsUnlessStopped
PROPERTIES CallsReturn
