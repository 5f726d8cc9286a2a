SPECIFICATION FairSpec
CONSTANTS
    t1 = t1
    t2 = t2
    Tasks = {t1}
    MaxNotes = 0
    Disturbances = {"crash"}
    MaxDisturbances = 1
PROPERTIES
    SubmittedTaskIsFound
