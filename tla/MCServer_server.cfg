\* Two coroutines, two seconds; two events: requests, the start, an end of the process.
CONSTANTS
    Callers = {c1, c2}
    Background = c1
    Providers = {"cloud", "here"}
    Remote = {"cloud"}
    FromEnvironment = {"here"}
    Order <- MCOrder
    Defaults <- MCDefaults
    Patches <- MCPatches
    FirstFiles <- MCFirstFiles
    Keys = {k1}
    NoKey = NoKey
    EnvironmentKey = EnvironmentKey
    Models = {m1}
    Labels = {"mine"}
    KeepLast = 2
    Interval = 5
    MaxSecond = 1
    MaxEvents = 2
SPECIFICATION Spec
INVARIANTS SettingsSurvive DeletedIsGone RefreshIsExact ApartIsWhole
