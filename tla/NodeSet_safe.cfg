SPECIFICATION Spec
CONSTANT Half = 128
INVARIANT TypeOK
INVARIANT ParentsFirst
INVARIANT ChildrenFinishedFirst
INVARIANT AllOrError
INVARIANT CallbackIsDeclared
PROPERTY RefinesHierarchy
