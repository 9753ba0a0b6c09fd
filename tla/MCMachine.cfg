\* Five inputs of any kind against two pipes of two commands, with and without
\* Gtk and the start_gui preference: enough to fill both.  The machine really
\* stops.
SPECIFICATION Spec
INVARIANTS GuiAgrees
PROPERTIES RequestStands ChangeHappens
CONSTANTS
    ToSize = 2
    FromSize = 2
    MaxInputs = 5
CHECK_DEADLOCK FALSE
