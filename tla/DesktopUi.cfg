SPECIFICATION UiLiveSpec
CONSTANTS
    Home = home
    Others = {info}
    MayFail = {}
    Texts = {t1}
    Effects = {FALSE}
    Minutes = {0, 1}
    Flags = {0, 1}
    MaxCount = 1
    Layouts <- MCLayouts
    DefaultLayout <- WholeConsole
    Diagnostics = {"scroll"}
    Saturate = 2
    Wrap = 3
    MaxUpsets = 2
INVARIANTS
    RecordsAreTrue
    ScreenIsTrue
PROPERTIES
    MinuteNeverBack
    PanelCatchesUp
