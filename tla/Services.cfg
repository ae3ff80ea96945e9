\* One part at a time, two concurrent calls in each.
SPECIFICATION MCSpec
CONSTANTS
  Parts = {"sessions", "secondFactor", "companies", "federation", "tenancy", "voice"}
  a = a
  b = b
  d1 = d1
  d2 = d2
  p = p
  q = q
  it = it
  hr = hr
  m1 = m1
  m2 = m2
  x1 = x1
  x2 = x2
  c1 = c1
  c2 = c2
  Tickets = {x1, x2}
  SignIns = {c1, c2}
  PlatformRoles = {"EMPLOYEE", "SYSTEM_ADMIN"}
  Devices = {c1, c2}
  MaxSecrets = 2
  CodesPerList = 2
  Slugs = {a, b}
  Addresses = {m1, m2}
  Domains = {d1, d2}
  DomainOf <- MCDomainOf
  Controls <- MCControls
  Claims <- MCClaims
  Desks = {c1, c2}
  Nothing = Nothing
  Hosts = {a, b}
  Names = {p, q}
  Offers <- MCOffers
  Clients = {d1, d2}
  Welcome = {a}
  Logins = {m1}
  Returns = {m1}
  Nowhere = Nowhere
  Tenants = {a, b}
  Callers = {c1, c2}
  NoTenant = NoTenant
  Firms = {a, b}
  DeptCodes = {it, hr}
  TypeCodes = {m1}
  DeptRows <- MCDeptRows
  Speakers = {m1}
  Unknown = Unknown
SYMMETRY CallsAndTickets
INVARIANTS
  ServicesTypeOK
  NoWayAroundTheFactor
  EnabledIsConfirmed
  VerifiedIsApplied
  OneCompanyPerAddress
  LoginStaysWhereItBegan
  WithdrawnProviderAdmitsNobody
  OwnRowsOnly
  DraftIsGrounded
  NoFileLeftBehind
PROPERTIES
  RoleWasHeld
  OldSessionsAreRevoked
  CodeWorksOnce
  ProvisionedByDomain
CHECK_DEADLOCK FALSE
