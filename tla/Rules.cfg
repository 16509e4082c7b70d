SPECIFICATION Spec
CONSTANTS
    AutoLimit = 1
    MaxLimit = 2
INVARIANTS
    ForeignRowsDoNotMatter
    OverlapIsRefused
    ComparisonIsDetermined
    OnlyOverchargesAreCredited
