\* The conformance loop over small OpenAI/Hadrian document pairs.  The
\* script returns its report and exits, so the final states have no
\* successor: deadlock is not checked.
CONSTANTS
    JsonTrue = JsonTrue
    JsonFalse = JsonFalse
    RecursionLimit = 12
    LongerSegments <- MCLonger
    Documents <- MCDocuments
    Filters <- MCFilters
    DocumentedMissing <- MCDocumentedMissing
    MarkedDescriptions <- MCMarked
SPECIFICATION Spec
INVARIANTS
    TypeOK
    EndpointAccounting
    DiffsSurviveDocumentation
    ViolationsMatchPerEndpointComparison
CHECK_DEADLOCK FALSE
