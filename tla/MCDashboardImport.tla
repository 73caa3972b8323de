-------------------------- MODULE MCDashboardImport --------------------------
EXTENDS DashboardImport

\* The model values of the documents.
CONSTANTS l1, l2, a, b

Document(mode, line, names, skip) ==
  [mode |-> mode, line |-> line, names |-> names, skip |-> skip]

\* Every mode; a line that may be taken; two schemas with two names or one.
SomeInputs == {Document("dry", l1, <<a>>, FALSE), Document("incremental", l1, <<a, a>>, TRUE),
               Document("transaction", l1, <<a, b>>, FALSE),
               Document("transaction", l2, <<a, a>>, TRUE)}
=============================================================================
