SPECIFICATION Spec
CONSTANTS
  Foo = Foo
  Bar = Bar
  i1 = i1
  i2 = i2
  k1 = k1
  k2 = k2
  get = get
  set = set
  sum = sum
  a1 = a1
  a2 = a2
  b1 = b1
  b2 = b2
  Classes <- OneClass
  Ids = {i1}
  Clients = {k1}
  Objects <- MCObjects
  ObjectClass <- MCObjectClass
  MemberFns <- MCMemberFns
  StaticFns <- MCStaticFns
  Base <- MCBase
  Uses <- AnyClass
  CreateIsolated = CreateIsolated
  CreateShared = CreateShared
  Delete = Delete
  Static = Static
  Unbound = Unbound
  None = None
  MaxCalls = 2
  MaxBreaks = 1
  MayThrow = FALSE
INVARIANTS
  AnnouncedIsCallable
CHECK_DEADLOCK FALSE
