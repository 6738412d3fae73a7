SPECIFICATION Spec
CONSTANTS
    Agents = {Alpha, Rex}
    Nobody = Nobody
    Requests = {r1, r2}
    Tasks = {t1}
    NoTask = NoTask
    MaxCompleted = 1
    Statuses = {"done"}
    Origins = {"open"}
    MaxFailures = 0
PROPERTY FinishedStaysFinished
SYMMETRY Symmetry
