\* The clocks are set back two slots after the start; 0 and 1 are in the first pass, 2 and 3 in the second.
CONSTANTS
    SlotsPerDay = 4
    Shift = 2
    Forward <- MCForward
    Back = 2
    MonthStart <- MCMonthStart
    FirstWeekday = 0
    Reminders <- MCReminders
    Rules <- MCRules
    Horizon = 3
    Ahead = 1
    MaxFailures = 1
SPECIFICATION FairSpec
INVARIANTS SilencedSoon
PROPERTIES AnnouncedOnce DueIsAnnounced
