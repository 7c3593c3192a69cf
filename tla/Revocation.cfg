SPECIFICATION PublishingSpec
CONSTANTS
  t1 = t1 k1 = k1 k2 = k2 c1 = c1 c2 = c2
  Tenants = {t1}
  Keys = {k1, k2}
  Owner <- MCOwner
  Issued = {k1}
  Sessions = {c1}
  MaxVersion = 3
PROPERTY
  RevocationTakesEffect
