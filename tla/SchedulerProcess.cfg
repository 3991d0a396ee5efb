\* The scheduler beside one other component: an edit of the schedules, a call that fails or a signal, restarts.
SPECIFICATION Spec
CONSTANTS
    Components = 2
    Owner = 1
    Resources = 2
    ScheduleCount = 2
    Versions = 2
    MaxEdits = 1
    MaxFaults = 1
INVARIANTS
    RegistrationsExact
    CleanExit
PROPERTIES
    StopEnds
    ChangesReach
