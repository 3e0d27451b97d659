SPECIFICATION Spec
CONSTANTS
  Accounts = {a1, a2, a3}
  NoAccount = NoAccount
  Limit = 2
  Handlers = {h1, h2}
  Nobody = Nobody
  MaxGrants = 1
  MaxStops = 1
SYMMETRY Alike
INVARIANTS
  TypeOK
  ConnectionLimit
  OneByOneTheyAgree
PROPERTIES
  MixedByFailureOnly
