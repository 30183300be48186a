SPECIFICATION Spec
CONSTANTS
    Students = {s1, s2}
    Professors = {p1, p2}
    Teachers = {t1}
    MaxTerm = 2
    MaxEnrollment = 2
    MaxCapacityRow = 4
    MaxCapacity = 1
    MaxEdit = 2
    Season <- OneSeason
    Seeds <- FirstTermOpen
    None = None
SYMMETRY StudentSymmetry
INVARIANTS TypeOK OneTakenPerLesson WriteStaysOnRow
PROPERTY ImplementsSeatPool
