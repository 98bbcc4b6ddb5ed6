SPECIFICATION Spec
INVARIANTS
    TypeOK
    BooksInStep
    NothingAstray
PROPERTIES
    NothingHangs
\* Dialogs and pages may be left alone for good, and budgets run out.
CHECK_DEADLOCK FALSE
