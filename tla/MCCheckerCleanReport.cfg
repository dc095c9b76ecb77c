\* Spec 8: no violations means every in-scope field is present or documented.
CONSTANTS
    JsonTrue = JsonTrue
    JsonFalse = JsonFalse
    RecursionLimit = 12
    LongerSegments <- MCLonger
    Documents <- MCDocuments
    Filters <- MCFilters
    DocumentedMissing <- MCDocumentedMissing
    MarkedDescriptions <- MCMarked
SPECIFICATION Spec
INVARIANT CleanReportMeansConformant
CHECK_DEADLOCK FALSE
