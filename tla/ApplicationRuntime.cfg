\* Any descriptor: every callback may fail, events may ask for a new view.
SPECIFICATION Spec
CONSTANTS
    Home = home
    Others = {info}
    MayFail = {"init", "start", "stop", "render"}
    Texts = {t1}
    Effects = {TRUE, FALSE}
    Minutes = {0, 1}
    Flags = {1}
    MaxCount = 2
INVARIANTS
    Lifecycle
    ViewIsCurrent
PROPERTIES
    FailuresLast
