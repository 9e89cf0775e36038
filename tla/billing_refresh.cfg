SPECIFICATION Spec
CONSTANTS
  s1 = s1  s2 = s2  s3 = s3  c1 = c1  c2 = c2
  Subscriptions = {s1, s2, s3}
  Customers = {c1, c2}
  CustomerOf <- TwoCustomers
  Names <- WithStranger
  Created <- Successive
  Handlers = {w1, w2}
  MaxVersion = 2
  MaxGeneration = 3
  None = None
SYMMETRY HandlerSymmetry
CHECK_DEADLOCK FALSE
INVARIANTS TypeOK AnsweredMeansStored
PROPERTIES NoStaleSnapshot
