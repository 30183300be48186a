SPECIFICATION Spec
CONSTANTS
    Students = {s1}
    Professors = {p1}
    Teachers = {t1}
    MaxTerm = 2
    MaxEnrollment = 2
    MaxCapacityRow = 2
    MaxCapacity = 1
    MaxEdit = 2
    Season <- TwoSeasons
    Seeds <- SecondTermOpen
    None = None
INVARIANT CancelHitsShownRow
