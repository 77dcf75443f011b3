----------------------------- MODULE MCDesktopUi -----------------------------
(* Constants of the DesktopUi run: console rectangles that                 *)
(* oled_ui_layout_config_v1_validate accepts.                               *)
EXTENDS DesktopUi

WholeConsole == [y |-> 1, x |-> 1, rows |-> 3, cols |-> 3]   \* 1,10,126,22: the default
NarrowConsole == [y |-> 1, x |-> 2, rows |-> 3, cols |-> 2]  \* three rows, moved to the right
ShortConsole == [y |-> 2, x |-> 1, rows |-> 2, cols |-> 3]   \* two rows: never composed completely

MCLayouts == {WholeConsole, NarrowConsole, ShortConsole}
=============================================================================
