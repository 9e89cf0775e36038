SPECIFICATION Spec
CONSTANTS
  s1 = s1  s2 = s2  s3 = s3  c1 = c1  c2 = c2
  Subscriptions = {s1, s2}
  Customers = {c1}
  CustomerOf <- SameCustomer
  Names <- ByCheckout
  Created <- Successive
  Handlers = {w1, w2}
  MaxVersion = 2
  MaxGeneration = 4
  None = None
SYMMETRY HandlerSymmetry
CHECK_DEADLOCK FALSE
INVARIANTS PaidMeansPro
