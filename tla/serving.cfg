\* One player against a worker that replaces or removes the file twice. Requests
\* of different players do not meet: they share nothing but the file.
SPECIFICATION FairSpec
CONSTANTS
    Readers = {player}
    Handlers = {"FilesController", "FileController"}
    AskedFor <- MCAskedFor
    Sizes = {0, 1, 3}
    MaxChanges = 2
INVARIANTS
    TypeOK
    RangeHonoured
    EndedAnswersAreExact
PROPERTY
    EveryRequestAnswered
