SPECIFICATION Spec
CONSTANTS
  Foo = Foo
  Bar = Bar
  i1 = i1
  i2 = i2
  k1 = k1
  k2 = k2
  get = get
  set = set
  sum = sum
  a1 = a1
  a2 = a2
  b1 = b1
  b2 = b2
  Classes <- OneClass
  Ids = {i1, i2}
  Clients = {k1, k2}
  Objects <- MCObjects
  ObjectClass <- MCObjectClass
  MemberFns <- MCMemberFns
  StaticFns <- MCStaticFns
  Base <- MCBase
  Uses <- AnyClass
  CreateIsolated = CreateIsolated
  CreateShared = CreateShared
  Delete = Delete
  Static = Static
  Unbound = Unbound
  None = None
  MaxCalls = 3
  MaxBreaks = 1
  MayThrow = TRUE
SYMMETRY Symmetric
INVARIANTS
  NeverStranded
  AnnouncedIsCurrent
  GrantedIsCallable
  StaticsServed
  IsolatedHasOwner
  OwnersWatched
CHECK_DEADLOCK FALSE
