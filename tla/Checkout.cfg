\* Two requests of two owners buy one thing, repeat themselves, open the portal and come
\* back from paying, while one dies, a customer is deleted and Stripe forgets its keys.
SPECIFICATION Spec
CONSTANTS
  Request = {q1, q2}
  Intent = {i1}
  Terms = {t1}
  Email = {e1, e2}
  Session = {s1, s2}
  Customer = {c1, c2, c3}
  None = None
  Lifetime = 1
  KeyKept = 1
  Horizon = 1
  Faults = 1
  Deletions = 1
SYMMETRY Symmetry
CHECK_DEADLOCK FALSE
INVARIANTS
  ChargedOnce
  ReturnIsHonest
  OneCustomer
  Repairable
