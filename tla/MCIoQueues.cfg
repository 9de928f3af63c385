CONSTANTS
  MaxIoQueues = 3
  ConfigMaxQueues = 2
  Sizes = {2, 3}
  Paired = TRUE
  Rewound = TRUE
  MaxSubmits = 3
SPECIFICATION Spec
INVARIANTS
  TypeOK
  TablesAgree
  ReapedOnceInOrder
  ForwardedIsAccountedFor
