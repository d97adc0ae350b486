CONSTANTS
  MaxCount = 3
  MaxObjects = 5
  MaxLocals = 3
  MaxBelow = 1
  ClassesInUse = {"Env", "Session", "Allocator", "ModelMetadata", "IoBinding", "Value",
                  "TypeInfo", "OptionalTypeInfo", "KernelContext", "KernelInfo"}
  TakesOptionalElement = FALSE
SPECIFICATION ApiSpec
INVARIANT NoMisuse
INVARIANT ThrowsClean
INVARIANT ReturnsAll
INVARIANT ApiTypeOK
INVARIANT LocalsStayValid
INVARIANT ConstStaysConst
PROPERTY ImplementsOwnership
PROPERTY HandedOverIsOwned
