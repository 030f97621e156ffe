\* Four rows: enough for a batch of two, a flush that fails or succeeds, and a
\* row on each side of it.
SPECIFICATION Spec
CONSTANT MaxRows = 4
INVARIANTS TypeOK SubscribedWhileVisible OffMeansOff StoredOnceInOrder LiveRowsAreFresh
