\* One subscription seen by one dashboard and two deliveries of one event; two
\* OAuth redirects; one business, with one deauthorization and
\* one deletion that two admins review; two executors of one erasure.
SPECIFICATION Spec
CONSTANTS
  Tabs = {t1}
  Deliveries = {h1, h2}
  MaxSubs = 2
  MaxEvents = 1
  Redirects = {r1, r2}
  MaxGrants = 3
  MaxLosses = 2
  u1 = u1
  u2 = u2
  d1 = d1
  x1 = x1
  Businesses = {b1}
  Users = {u1}
  Numbers = {n1}
  Signups = {s1}
  Settings = {f1}
  Admins = {a1, a2}
  Deauths = {d1}
  Deletions = {x1}
  Author <- MCAuthor
  NoOne = NoOne
  MaxClock = 2
  Executors = {e1, e2}
  MaxStamp = 4
INVARIANTS
  AccountsTypeOK
  AppliedOnce
  PaidPeriodKeepsAccess
  DeadTokensAreFound
  Forgotten
  LinksFollowTheConnection
  OneEraser
PROPERTIES
  StaleTrialEnds
  DueIsHandled
  ResolvedOnce
  CompletedIsFinal
CHECK_DEADLOCK FALSE
