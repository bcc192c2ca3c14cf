SPECIFICATION WalkSpec
CONSTANTS
    LastDay = 146097
CHECK_DEADLOCK FALSE
INVARIANTS CalendarIsGregorian DatesAreNumbered
