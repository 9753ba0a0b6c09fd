------------------------------- MODULE Machine -------------------------------
(***************************************************************************)
(* The life of the emulated machine (src/src/main.c: real_main and the     *)
(* uae_* requests) and the Gtk window that watches and steers it           *)
(* (src/src/gui-gtk/gtkui.c).  Two threads: the emulator runs real_main,   *)
(* the GUI runs Gtk's main loop.  They share uae_state and two pipes, each *)
(* with one writer and one reader; a pipe is the bounded queue the module  *)
(* CommPipe implements, and a command travels with its arguments as one    *)
(* element.  A request only changes uae_target_state; real_main brings     *)
(* uae_state after it at a few places, which is where requests cross.      *)
(*                                                                         *)
(* `out' is what the emulator has begun to write to the GUI: while it is   *)
(* not empty the emulator is inside write_comm_pipe_int and does nothing   *)
(* else.  `gout' is the same for the GUI thread.  Disk and ROM names, the  *)
(* debugger and saved states are left out.                                 *)
(***************************************************************************)
EXTENDS Naturals, Sequences

CONSTANTS
    ToSize,     \* commands to_gui_pipe holds
    FromSize,   \* commands from_gui_pipe holds
    MaxInputs   \* bound: keys, clicks, LED changes, failures, Amiga requests

ASSUME MachineAssumption ==
    ToSize \in Nat \ {0} /\ FromSize \in Nat \ {0} /\ MaxInputs \in Nat

VARIABLES
    uae_state, uae_target_state, restart_program,
    pc,                          \* where the emulator is in real_main
    out, box,                    \* its unfinished write, its message box
    to_gui_pipe, from_gui_pipe,
    gpc, gout,                   \* the GUI thread, its unfinished write
    gui_window, shown, pressed,  \* the window, the state its buttons show,
                                 \* and whether Pause is pressed in
    gui_available, start_gui,    \* Gtk came up; the start_gui preference
    inputs

stateVars == <<uae_state, uae_target_state, restart_program>>
emuVars   == <<pc, out, box>>
guiVars   == <<gpc, gout, gui_window, shown, pressed>>
fixedVars == <<gui_available, start_gui>>
vars == <<stateVars, emuVars, to_gui_pipe, from_gui_pipe, guiVars,
          fixedVars, inputs>>

States == {"stopped", "cold_start", "warm_start", "running", "paused"}
Targets == States \cup {"quitting"}
Commands == {"start", "stop", "quit", "reset", "pause", "resume"}
ToGui == [cmd : {"state"}, state : States] \cup
         [cmd : {"show", "leds", "msgbox"}]
PC == {"top", "config", "gui", "gui_check", "chosen", "init", "cycle",
       "reset", "enter", "run", "frame", "redraw", "left", "paused",
       "paused_keys", "exit", "done"}

\* The state right after main started gui_init and entered real_main.
Init ==
    /\ uae_state = "stopped" /\ uae_target_state = "stopped"
    /\ restart_program = 1
    /\ pc = "top" /\ out = <<>> /\ box = "none"
    /\ to_gui_pipe = <<>> /\ from_gui_pipe = <<>>
    /\ gpc = "loop" /\ gout = <<>>
    /\ gui_window = FALSE /\ shown = "stopped" /\ pressed = FALSE
    /\ gui_available \in BOOLEAN /\ start_gui \in BOOLEAN
    /\ inputs = 0

Input == inputs < MaxInputs /\ inputs' = inputs + 1

-----------------------------------------------------------------------------
(* The requests, as functions from the target state to the next one.       *)

uae_start(t)  == "cold_start"
uae_pause(t)  == IF t = "running" THEN "paused" ELSE t
uae_resume(t) == IF t = "paused" THEN "running" ELSE t
uae_quit(t)   == "quitting"
uae_stop(t)   == IF t = "quitting" THEN t ELSE "stopped"
\* Mutant: a reset also brings back a machine told to stop or quit.
MutResetAlways(t, to) == to

uae_reset(t, to) == IF t \in {"running", "paused"} THEN to ELSE t

\* Mutant: only a quit ends the loops that wait for a change.
MutPendingIsQuit(t) == t = "quitting"

\* uae_state_change_pending, with t for the target
change_pending(t) == uae_state # t

\* gui_handle_events on one command of the GUI
Obey(cmd, t) ==
    CASE cmd = "start"  -> uae_start(t)
      [] cmd = "stop"   -> uae_stop(t)
      [] cmd = "quit"   -> uae_quit(t)
      [] cmd = "reset"  -> uae_reset(t, "warm_start")
      [] cmd = "pause"  -> uae_pause(t)
      [] cmd = "resume" -> uae_resume(t)

\* What a key asks for: AKS_PAUSE looks at the state, not at the target.
KeyTargets ==
    LET t == uae_target_state IN
    {IF uae_state = "paused" THEN uae_resume(t) ELSE uae_pause(t),
     uae_quit(t), uae_reset(t, "warm_start"), uae_reset(t, "cold_start")}

-----------------------------------------------------------------------------
(* The emulator's thread.                                                  *)

\* It is neither inside a write nor waiting for a message box.
Free == out = <<>> /\ box = "none"

At(p) == pc = p /\ Free

\* write_comm_pipe_int goes through once the pipe has room.
Write ==
    /\ out # <<>> /\ Len(to_gui_pipe) < ToSize
    /\ to_gui_pipe' = Append(to_gui_pipe, Head(out))
    /\ out' = Tail(out)
    /\ UNCHANGED <<stateVars, pc, box, from_gui_pipe, guiVars, fixedVars,
                   inputs>>

\* Mutant: the GUI is told before the state changes hands, with the old one.
MutSetStateStale(s) ==
    /\ uae_state' = s
    /\ out' = IF gui_available
              THEN <<[cmd |-> "state", state |-> uae_state]>> ELSE out

\* set_state with gui_notify_state
set_state(s) ==
    /\ uae_state' = s
    /\ out' = IF gui_available THEN <<[cmd |-> "state", state |-> s]>> ELSE out

\* The outer loop's test and its first call.
Top ==
    /\ At("top")
    /\ IF uae_target_state = "quitting"
       THEN pc' = "done" /\ UNCHANGED <<uae_state, out>>
       ELSE pc' = "config" /\ set_state(uae_target_state)
    /\ UNCHANGED <<uae_target_state, restart_program, box, to_gui_pipe,
                   from_gui_pipe, guiVars, fixedVars, inputs>>

\* Should the window open?  gui_open answers -1 when there is no Gtk, and
\* after a stop there is then nothing left but to quit.
Config ==
    LET want_gui == restart_program = 3 \/ start_gui IN
    /\ At("config")
    /\ CASE want_gui /\ gui_available ->
              /\ pc' = "gui" /\ out' = <<[cmd |-> "show"]>>
              /\ UNCHANGED <<uae_target_state, restart_program>>
         [] want_gui /\ ~gui_available /\ restart_program = 3 ->
              /\ pc' = "chosen" /\ restart_program' = 0
              /\ uae_target_state' = uae_quit(uae_target_state)
              /\ UNCHANGED out
         [] OTHER ->
              /\ pc' = "chosen"
              /\ UNCHANGED <<uae_target_state, restart_program, out>>
    /\ UNCHANGED <<uae_state, box, to_gui_pipe, from_gui_pipe, guiVars,
                   fixedVars, inputs>>

\* gui_handle_events: one command after the other while there are any, in
\* the start-up loop, once a frame, and while paused.
HandleCommand ==
    /\ \E p \in {"gui", "frame", "paused"} : At(p)
    /\ gui_available /\ from_gui_pipe # <<>>
    /\ uae_target_state' = Obey(Head(from_gui_pipe), uae_target_state)
    /\ from_gui_pipe' = Tail(from_gui_pipe)
    /\ UNCHANGED <<uae_state, restart_program, emuVars, to_gui_pipe, guiVars,
                   fixedVars, inputs>>

\* comm_pipe_has_data has just said no.  What arrives from here on waits
\* for the next round.
Drained ==
    /\ \E p \in {<<"gui", "gui_check">>, <<"frame", "redraw">>,
                 <<"paused", "paused_keys">>} : At(p[1]) /\ pc' = p[2]
    /\ ~gui_available \/ from_gui_pipe = <<>>
    /\ UNCHANGED <<stateVars, out, box, to_gui_pipe, from_gui_pipe, guiVars,
                   fixedVars, inputs>>

\* The end of a round of the start-up loop.
GuiCheck ==
    /\ At("gui_check")
    /\ pc' = IF change_pending(uae_target_state) THEN "chosen" ELSE "gui"
    /\ UNCHANGED <<stateVars, out, box, to_gui_pipe, from_gui_pipe, guiVars,
                   fixedVars, inputs>>

\* Quit, or start whatever the target was.
Chosen ==
    /\ At("chosen")
    /\ restart_program' = 0
    /\ IF uae_target_state = "quitting"
       THEN pc' = "done" /\ UNCHANGED uae_target_state
       ELSE pc' = "init" /\ uae_target_state' = "cold_start"
    /\ UNCHANGED <<uae_state, out, box, to_gui_pipe, from_gui_pipe, guiVars,
                   fixedVars, inputs>>

\* do_init_machine; when it fails the program ends.
InitMachine ==
    /\ At("init")
    /\ \/ pc' = "cycle" /\ UNCHANGED inputs
       \/ pc' = "done" /\ Input
    /\ UNCHANGED <<stateVars, out, box, to_gui_pipe, from_gui_pipe, guiVars,
                   fixedVars>>

\* The inner loop's test, and the state a reset begins with.
Cycle ==
    /\ At("cycle")
    /\ IF uae_target_state \in {"quitting", "stopped"}
       THEN pc' = "exit" /\ UNCHANGED <<uae_state, out>>
       ELSE pc' = "reset" /\ set_state(uae_target_state)
    /\ UNCHANGED <<uae_target_state, restart_program, box, to_gui_pipe,
                   from_gui_pipe, guiVars, fixedVars, inputs>>

\* do_reset_machine is done: the machine runs, whatever was asked meanwhile.
ResetDone ==
    /\ At("reset")
    /\ pc' = "enter" /\ uae_target_state' = "running"
    /\ UNCHANGED <<uae_state, restart_program, out, box, to_gui_pipe,
                   from_gui_pipe, guiVars, fixedVars, inputs>>

Enter ==
    /\ At("enter")
    /\ pc' = "run" /\ set_state(uae_target_state)
    /\ UNCHANGED <<uae_target_state, restart_program, box, to_gui_pipe,
                   from_gui_pipe, guiVars, fixedVars, inputs>>

\* The vertical blank interrupts the 68k.
Vsync ==
    /\ At("run") /\ pc' = "frame"
    /\ UNCHANGED <<stateVars, out, box, to_gui_pipe, from_gui_pipe, guiVars,
                   fixedVars, inputs>>

\* inputdevice_handle_inputcode: at most one key, which makes a request or
\* asks for the window (gui_display).
Key ==
    \/ UNCHANGED <<uae_target_state, out, inputs>>
    \/ /\ Input /\ uae_target_state' \in KeyTargets
       /\ UNCHANGED out
    \/ /\ Input /\ gui_available
       /\ out' = <<[cmd |-> "show"]>>
       /\ UNCHANGED uae_target_state

\* vsync_handle_redraw breaks the interpreter's loop when a change is
\* pending; a key is looked at after that, and m68k_go asks once more.
Redraw ==
    /\ At("redraw")
    /\ Key
    /\ pc' = IF change_pending(uae_target_state) /\ change_pending(uae_target_state')
             THEN "left" ELSE "run"
    /\ UNCHANGED <<uae_state, restart_program, box, to_gui_pipe,
                   from_gui_pipe, guiVars, fixedVars>>

\* handle_events: the host's window is closed.
HostCloses ==
    /\ At("redraw") \/ At("paused_keys")
    /\ Input
    /\ uae_target_state' = uae_stop(uae_target_state)
    /\ UNCHANGED <<uae_state, restart_program, emuVars, to_gui_pipe,
                   from_gui_pipe, guiVars, fixedVars>>

\* After m68k_go: pause here, or leave the main loop.
Left ==
    /\ At("left")
    /\ IF uae_target_state = "paused"
       THEN pc' = "paused" /\ set_state("paused")
       ELSE pc' = "cycle" /\ UNCHANGED <<uae_state, out>>
    /\ UNCHANGED <<uae_target_state, restart_program, box, to_gui_pipe,
                   from_gui_pipe, guiVars, fixedVars, inputs>>

\* The rest of a round of the paused loop: a key, then the test.
PausedEnd ==
    /\ At("paused_keys")
    /\ Key
    /\ pc' = CASE ~change_pending(uae_target_state') -> "paused"
               [] uae_target_state' = "running" -> "enter"
               [] OTHER -> "cycle"
    /\ UNCHANGED <<uae_state, restart_program, box, to_gui_pipe,
                   from_gui_pipe, guiVars, fixedVars>>

\* do_exit_machine, then once more around.
Exit ==
    /\ At("exit")
    /\ pc' = "top" /\ restart_program' = 3
    /\ UNCHANGED <<uae_state, uae_target_state, out, box, to_gui_pipe,
                   from_gui_pipe, guiVars, fixedVars, inputs>>

\* The Amiga's program resets the machine or leaves (uaelib.c).
AmigaAsks ==
    /\ At("run") /\ Input
    /\ uae_target_state' \in {uae_quit(uae_target_state),
           uae_reset(uae_target_state, "warm_start"),
           uae_reset(uae_target_state, "cold_start")}
    /\ UNCHANGED <<uae_state, restart_program, emuVars, to_gui_pipe,
                   from_gui_pipe, guiVars, fixedVars>>

\* gui_led, from the drives and the CIA: it does not ask for gui_available.
Led ==
    /\ At("run") \/ At("reset") \/ At("init")
    /\ Input
    /\ out' = <<[cmd |-> "leds"]>>
    /\ UNCHANGED <<stateVars, pc, box, to_gui_pipe, from_gui_pipe, guiVars,
                   fixedVars>>

\* No Kickstart to be had (memory_reset), or one this CPU cannot run
\* (op_illg): gui_message, which waits for its box, and then uae_restart.
RomFails ==
    /\ At("init") \/ At("reset") \/ At("run")
    /\ Input
    /\ IF gui_available
       THEN /\ out' = <<[cmd |-> "msgbox"]>> /\ box' = "asked"
            /\ UNCHANGED <<uae_target_state, restart_program>>
       ELSE /\ uae_target_state' = uae_stop(uae_target_state)
            /\ restart_program' = 3
            /\ UNCHANGED <<out, box>>
    /\ UNCHANGED <<uae_state, pc, to_gui_pipe, from_gui_pipe, guiVars,
                   fixedVars>>

\* The box's semaphore was posted: gui_message returns, uae_restart follows.
BoxAnswered ==
    /\ out = <<>> /\ box = "posted"
    /\ box' = "none"
    /\ uae_target_state' = uae_stop(uae_target_state)
    /\ restart_program' = 3
    /\ UNCHANGED <<uae_state, pc, out, to_gui_pipe, from_gui_pipe, guiVars,
                   fixedVars, inputs>>

Emulator ==
    \/ Write \/ Top \/ Config \/ HandleCommand \/ Drained \/ GuiCheck
    \/ Chosen \/ InitMachine \/ Cycle \/ ResetDone \/ Enter \/ Vsync
    \/ HostCloses \/ Redraw \/ Left \/ PausedEnd \/ Exit \/ AmigaAsks \/ Led \/ RomFails
    \/ BoxAnswered

-----------------------------------------------------------------------------
(* The GUI's thread.                                                       *)

Idle == gui_available /\ gout = <<>>

\* A button's handler writes its command once from_gui_pipe has room.
GuiWrite ==
    /\ gout # <<>> /\ Len(from_gui_pipe) < FromSize
    /\ from_gui_pipe' = Append(from_gui_pipe, Head(gout))
    /\ gout' = Tail(gout)
    /\ UNCHANGED <<stateVars, emuVars, to_gui_pipe, gpc, gui_window, shown,
                   pressed, fixedVars, inputs>>

\* The 250 ms timer runs my_idle, which reads until the pipe is empty.
IdleBegins ==
    /\ Idle /\ gpc = "loop" /\ to_gui_pipe # <<>>
    /\ gpc' = "my_idle"
    /\ UNCHANGED <<stateVars, emuVars, to_gui_pipe, from_gui_pipe, gout,
                   gui_window, shown, pressed, fixedVars, inputs>>

IdleEnds ==
    /\ Idle /\ gpc = "my_idle" /\ to_gui_pipe = <<>>
    /\ gpc' = "loop"
    /\ UNCHANGED <<stateVars, emuVars, to_gui_pipe, from_gui_pipe, gout,
                   gui_window, shown, pressed, fixedVars, inputs>>

\* update_buttons.  Setting a toggle button that is the other way round
\* emits its clicked signal, so on_pause_clicked sends a command of its own.
update_buttons(s, was) ==
    LET paused == s = "paused" IN
    /\ shown' = s /\ pressed' = paused
    /\ gout' = IF paused = was THEN <<>>
               ELSE IF paused THEN <<"pause">> ELSE <<"resume">>

my_idle ==
    /\ Idle /\ gpc = "my_idle" /\ to_gui_pipe # <<>>
    /\ to_gui_pipe' = Tail(to_gui_pipe)
    /\ LET m == Head(to_gui_pipe) IN
       CASE m.cmd = "state" /\ gui_window ->
              update_buttons(m.state, pressed) /\ UNCHANGED <<gui_window, box>>
         [] m.cmd = "show" /\ ~gui_window ->
              /\ gui_window' = TRUE
              /\ update_buttons(uae_state, FALSE)
              /\ UNCHANGED box
         [] m.cmd = "msgbox" ->
              /\ box' = "shown"
              /\ UNCHANGED <<gui_window, shown, pressed, gout>>
         [] OTHER ->
              UNCHANGED <<gui_window, shown, pressed, gout, box>>
    /\ UNCHANGED <<stateVars, pc, out, from_gui_pipe, gpc, fixedVars, inputs>>

\* The user at the window; a modal message box keeps everything else out.
AtWindow == Idle /\ gpc = "loop" /\ gui_window /\ box # "shown" /\ Input

\* Start, Stop, Reset and Quit, each where update_buttons left it sensitive
Click ==
    /\ AtWindow
    /\ \E cmd \in {"start", "stop", "reset", "quit"} :
          /\ cmd = "start" => shown \notin {"running", "paused"}
          /\ cmd = "stop"  => shown \in {"running", "paused"}
          /\ cmd = "reset" => shown = "running"
          /\ gout' = <<cmd>>
    /\ UNCHANGED <<stateVars, emuVars, to_gui_pipe, from_gui_pipe, gpc,
                   gui_window, shown, pressed, fixedVars>>

PauseClick ==
    /\ AtWindow /\ shown \in {"running", "paused"}
    /\ pressed' = ~pressed
    /\ gout' = IF pressed THEN <<"resume">> ELSE <<"pause">>
    /\ UNCHANGED <<stateVars, emuVars, to_gui_pipe, from_gui_pipe, gpc,
                   gui_window, shown, fixedVars>>

\* did_guidlg_delete
WindowDeleted ==
    /\ AtWindow
    /\ gui_window' = FALSE /\ gout' = <<"quit">>
    /\ UNCHANGED <<stateVars, emuVars, to_gui_pipe, from_gui_pipe, gpc,
                   shown, pressed, fixedVars>>

\* The user is done with the message box: its button posts the semaphore,
\* the window manager's close box only destroys the window.
BoxEnds ==
    /\ Idle /\ gpc = "loop" /\ box = "shown"
    /\ box' \in {"posted", "closed"}
    /\ UNCHANGED <<stateVars, pc, out, to_gui_pipe, from_gui_pipe, guiVars,
                   fixedVars, inputs>>

GuiThread == GuiWrite \/ IdleBegins \/ IdleEnds \/ my_idle \/ BoxEnds

Next == Emulator \/ GuiThread \/ Click \/ PauseClick \/ WindowDeleted

\* Both threads are scheduled, and a user in front of a modal box ends it.
Spec == Init /\ [][Next]_vars /\ WF_vars(Emulator) /\ WF_vars(GuiThread)

-----------------------------------------------------------------------------
(* What must hold.                                                         *)

TypeOK ==
    /\ uae_state \in States /\ uae_target_state \in Targets
    /\ restart_program \in {0, 1, 3}
    /\ pc \in PC /\ Len(out) <= 1
    /\ \A i \in 1 .. Len(out) : out[i] \in ToGui
    /\ box \in {"none", "asked", "shown", "posted", "closed"}
    /\ Len(to_gui_pipe) <= ToSize /\ Len(from_gui_pipe) <= FromSize
    /\ \A i \in 1 .. Len(to_gui_pipe) : to_gui_pipe[i] \in ToGui
    /\ \A i \in 1 .. Len(from_gui_pipe) : from_gui_pipe[i] \in Commands
    /\ gpc \in {"loop", "my_idle"} /\ Len(gout) <= 1
    /\ shown \in States
    /\ {gui_window, pressed, gui_available, start_gui} \subseteq BOOLEAN
    /\ inputs \in 0 .. MaxInputs

\* With nothing on its way to the GUI, the buttons show the machine's state.
ButtonsShowState ==
    gui_window /\ to_gui_pipe = <<>> /\ out = <<>> => shown = uae_state

\* With nothing on its way in either direction, and no change left to make,
\* Pause is pressed in exactly while the machine is paused.
PauseShowsState ==
    (/\ gui_window /\ to_gui_pipe = <<>> /\ out = <<>>
     /\ gout = <<>> /\ from_gui_pipe = <<>>
     /\ uae_state = uae_target_state)
        => (pressed <=> uae_state = "paused")

GuiAgrees == TypeOK /\ ButtonsShowState /\ PauseShowsState

\* A stop or a quit, once asked for, is dropped by the Start button, by the
\* start after the configuration loop, and by the end of a reset, and by
\* nothing else.
RequestStands ==
    [][(/\ uae_target_state \in {"stopped", "quitting"}
        /\ uae_target_state' \notin {uae_target_state, "quitting"})
       => (\/ from_gui_pipe # <<>> /\ Head(from_gui_pipe) = "start"
           \/ pc \in {"chosen", "reset"} /\ pc' # pc)]_vars

\* The GUI's thread waits for room in from_gui_pipe, where nobody else reads;
\* the emulator, which does, waits for room in to_gui_pipe or for a message box,
\* and only the GUI's thread makes room or shows the box.
EachWaits ==
    /\ gout # <<>> /\ Len(from_gui_pipe) = FromSize
    /\ \/ out # <<>> /\ Len(to_gui_pipe) = ToSize
       \/ out = <<>> /\ box = "asked"

\* The three waits nobody ends: a write to a pipe no GUI reads, a message box
\* closed without its button, and each thread's for the other.
Stuck ==
    \/ ~gui_available /\ out # <<>> /\ Len(to_gui_pipe) = ToSize
    \/ box = "closed"
    \/ EachWaits

\* A change asked for is made, or taken back, or ends the program.
\* On the way the emulator always gets out of its writes to the GUI and its
\* message boxes.
ChangeHappens ==
    /\ uae_state # uae_target_state ~>
          (uae_state = uae_target_state \/ pc = "done" \/ Stuck)
    /\ ~Free ~> (Free \/ Stuck)
=============================================================================
