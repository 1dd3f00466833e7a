\* 29 March is day 87 and 24 May day 143; the clocks change one slot into them.
CONSTANTS
    SlotsPerDay = 6
    Shift = 2
    Forward = 523
    Back = 859
    MonthStart <- MCMonthStart
    FirstWeekday = 3
    Days <- MCDays
    Clocks = {0, 1, 2, 3, 4, 5}
    Delays <- MCDelays
    RowRules <- MCRowRules
    MessageKeys = {"a", "b", "c"}
    DEDUPE_SECONDS = 4
    RATE_WINDOW = 3
    RATE_LIMIT = 2
    Lines <- MCLines
    TerminalSettings <- MCTerminalSettings
    Offers <- MCOffers
SPECIFICATION TablesSpec
INVARIANTS StrictestControlWins  OnlyWhatMattersAndNotTooOften
    NextIsFirstMatch
CHECK_DEADLOCK FALSE
