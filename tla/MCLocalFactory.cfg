SPECIFICATION FactorySpec
CONSTANTS
  Foo = Foo
  Bar = Bar
  i1 = i1
  i2 = i2
  get = get
  set = set
  sum = sum
  a1 = a1
  a2 = a2
  a3 = a3
  b1 = b1
  b2 = b2
  b3 = b3
  Classes <- MCClasses
  Ids <- MCIds
  Objects <- MCObjects
  ObjectClass <- MCObjectClass
  MemberFns <- MCMemberFns
  StaticFns <- MCStaticFns
  CreateIsolated = CreateIsolated
  CreateShared = CreateShared
  Delete = Delete
  Static = Static
  Unbound = Unbound
  None = None
INVARIANTS
  FactoryTypeOK
  BoundToLive
  ContextMatchesInstance
  SharedIsLive
  StaticsKept
PROPERTIES
  IdentityIsStable
