-------------------------------- MODULE Host --------------------------------
(***************************************************************************)
(* The host of the emulator on Solaris: the main thread (solaris_main.cpp) *)
(* polls the window, executes commands, resets and runs the virtual        *)
(* machine, while the control window (osd_control.cpp) runs the GTK loop   *)
(* on a thread of its own.  They share a queue of commands under a mutex   *)
(* and two atomic flags; only the main thread touches the machine.         *)
(*                                                                         *)
(* Of the machine the model keeps the media in its drives.  What the       *)
(* console of a debug build adds (a second queue) is left out.             *)
(***************************************************************************)
EXTENDS Naturals, Sequences, FiniteSets

CONSTANTS
    Tapes, Disks, Recordings,  \* image files, and those that are recorded to
    Unreadable,   \* tapes that exist but do not load, disks that cannot be opened
    Unwritable,   \* recordings whose file cannot be created
    Vanishing,    \* tapes and disks that the user may delete
    NoFile,
    MaxClicks     \* bound of the number of clicks in the control window

ASSUME FileAssumption ==
    /\ Unreadable \subseteq Tapes \cup Disks /\ Unwritable \subseteq Recordings
    /\ Vanishing \subseteq Tapes \cup Disks
    /\ NoFile \notin Tapes \cup Disks \cup Recordings
    /\ (Tapes \cup Disks) \cap Recordings = {}
ASSUME ClickAssumption == MaxClicks \in Nat

VARIABLES
    pc,               \* the main thread
    quit,             \* quit_ of the SDL host: its window was closed
    exit_requested,   \* an exit command was executed
    reset_pending,    \* local flag: this turn of the loop will reset
    initial_cmt, initial_qd,  \* direct_config: what a reset mounts
    tape, recording,  \* the file in the data recorder; is it recorded to
    disk,             \* the file in the quick disk drive
    rec_failed,       \* history: the deck is empty as a recording failed
    files,            \* the tapes and disks that exist
    commands,         \* commands_, the queue
    reset_requested,  \* reset_requested_
    stop_requested,   \* stop_requested_
    running,          \* local flag of the GTK thread: its window is open
    handlers,         \* the GTK callbacks in progress, the innermost first
    ended,            \* the GTK thread has ended
    label_cmt, label_qd,  \* the file names that the control window shows
    pushed, executed, \* history: commands queued and executed so far
    asked,            \* history: pushed at the last request of a reset
    serving           \* history: asked of the request being served

media == <<initial_cmt, initial_qd, tape, recording, disk, rec_failed>>
main == <<pc, quit, exit_requested, reset_pending, media, executed, serving>>
gtk == <<running, handlers, ended, label_cmt, label_qd, pushed, asked>>
vars == <<main, files, commands, reset_requested, stop_requested, gtk>>

Command(op, file) == [op |-> op, file |-> file]

\* Menu items that ask for a file first, and those that are queued at once.
\* The deck's buttons and the settings do not touch the media.
DialogCommands ==
    {Command("cmt", f) : f \in Tapes} \cup {Command("cmtrec", f) : f \in Recordings}
        \cup {Command("qd", f) : f \in Disks}
PlainCommands == {Command(op, NoFile) : op \in {"cmteject", "qdeject", "button", "exit"}}

\* play_tape() and QUICKDISK::open_disk(): the drive is emptied, and stays so if
\* the image cannot be loaded.  Neither tells its caller.
Loaded(f) == IF f \in Unreadable THEN NoFile ELSE f

\* mount_initial_media() after the machine was created anew: a tape that does
\* not exist ends it before the quick disk.
TapeToMount == IF initial_cmt \in files THEN Loaded(initial_cmt) ELSE NoFile
DiskToMount ==
    IF initial_qd \in files /\ initial_cmt \in files \cup {NoFile}
    THEN Loaded(initial_qd) ELSE NoFile

Init ==
    /\ pc = "poll"
    /\ quit = FALSE /\ exit_requested = FALSE /\ reset_pending = FALSE
    /\ files = Tapes \cup Disks
    /\ initial_cmt \in Tapes \cup {NoFile}
    /\ initial_qd \in Disks \cup {NoFile}
    /\ tape = TapeToMount /\ disk = DiskToMount /\ recording = FALSE /\ rec_failed = FALSE
    /\ commands = <<>> /\ reset_requested = FALSE /\ stop_requested = FALSE
    /\ running = TRUE /\ handlers = <<>>
    /\ ended \in BOOLEAN     \* GTK may fail to start
    /\ label_cmt = initial_cmt /\ label_qd = initial_qd
    /\ pushed = 0 /\ executed = 0 /\ asked = 0 /\ serving = 0
-----------------------------------------------------------------------------
(* The main thread. *)

\* poll(): the window may be closed and F12 may be pressed.
Poll ==
    /\ pc = "poll"
    /\ quit' \in {quit, TRUE}
    /\ reset_pending' \in BOOLEAN
    /\ serving' = 0
    /\ pc' = "pop_reset"
    /\ UNCHANGED <<exit_requested, media, executed, files, commands, reset_requested,
                   stop_requested, gtk>>

PopResetRequest ==
    /\ pc = "pop_reset"
    /\ IF reset_requested
       THEN reset_pending' = TRUE /\ serving' = asked
       ELSE UNCHANGED <<reset_pending, serving>>
    /\ reset_requested' = FALSE
    /\ pc' = "drain"
    /\ UNCHANGED <<quit, exit_requested, media, executed, files, commands, stop_requested, gtk>>

\* process_command_line().  A tape or disk that does not exist is refused.
PlayTape(f) ==
    IF f \in files
    THEN /\ tape' = Loaded(f) /\ recording' = FALSE /\ rec_failed' = FALSE
         /\ initial_cmt' = f
         /\ UNCHANGED <<initial_qd, disk>>
    ELSE UNCHANGED media

\* What a reset mounts does not change.
RecordTape(f) ==
    /\ recording' = (f \notin Unwritable)
    /\ tape' = IF recording' THEN f ELSE NoFile
    /\ rec_failed' = ~recording'
    /\ UNCHANGED <<initial_cmt, initial_qd, disk>>

\* Mutant: a reset will mount the ejected tape.
EjectTapeForNow ==
    /\ tape' = NoFile /\ recording' = FALSE /\ rec_failed' = FALSE
    /\ UNCHANGED <<initial_cmt, initial_qd, disk>>

EjectTape ==
    /\ tape' = NoFile /\ recording' = FALSE /\ rec_failed' = FALSE
    /\ initial_cmt' = NoFile
    /\ UNCHANGED <<initial_qd, disk>>

\* The disk that is in the drive already stays there.
InsertDisk(f) ==
    IF f \in files
    THEN /\ disk' = IF disk = f THEN f ELSE Loaded(f)
         /\ initial_qd' = f
         /\ UNCHANGED <<initial_cmt, tape, recording, rec_failed>>
    ELSE UNCHANGED media

EjectDisk ==
    /\ disk' = NoFile
    /\ initial_qd' = NoFile
    /\ UNCHANGED <<initial_cmt, tape, recording, rec_failed>>

ProcessCommand ==
    /\ pc = "drain" /\ commands # <<>>
    /\ LET c == Head(commands)
       IN /\ \/ c.op = "cmt" /\ PlayTape(c.file)
             \/ c.op = "cmtrec" /\ RecordTape(c.file)
             \/ c.op = "cmteject" /\ EjectTape
             \/ c.op = "qd" /\ InsertDisk(c.file)
             \/ c.op = "qdeject" /\ EjectDisk
             \/ c.op \in {"button", "exit"} /\ UNCHANGED media
          /\ exit_requested' = (exit_requested \/ c.op = "exit")
    /\ commands' = Tail(commands)
    /\ executed' = executed + 1
    /\ UNCHANGED <<pc, quit, reset_pending, serving, files, reset_requested, stop_requested, gtk>>

\* Mutant: the loop executes one command in a frame, or none.
QueueLeft ==
    /\ pc = "drain"
    /\ pc' = IF reset_pending THEN "reset" ELSE "run"
    /\ UNCHANGED <<quit, exit_requested, reset_pending, serving, media, executed, files,
                   commands, reset_requested, stop_requested, gtk>>

QueueDrained ==
    /\ pc = "drain" /\ commands = <<>>
    /\ pc' = IF reset_pending THEN "reset" ELSE "run"
    /\ UNCHANGED <<quit, exit_requested, reset_pending, serving, media, executed, files,
                   commands, reset_requested, stop_requested, gtk>>

\* reset_vm() and mount_initial_media(): a recording in progress is saved by
\* the machine that is deleted, and the new one has an empty deck.
ResetVm ==
    /\ pc = "reset"
    /\ tape' = TapeToMount /\ recording' = FALSE /\ rec_failed' = FALSE
    /\ disk' = DiskToMount
    /\ pc' = "run"
    /\ UNCHANGED <<quit, exit_requested, reset_pending, serving, initial_cmt, initial_qd,
                   executed, files, commands, reset_requested, stop_requested, gtk>>

\* A frame of the machine, sound, picture and the delay; then the loop's test.
RunFrame ==
    /\ pc = "run"
    /\ pc' = IF quit \/ exit_requested THEN "stop" ELSE "poll"
    /\ UNCHANGED <<quit, exit_requested, reset_pending, serving, media, executed, files,
                   commands, reset_requested, stop_requested, gtk>>

\* stop() of the control window: ask the thread to end, and join it.
RequestStop ==
    /\ pc = "stop"
    /\ stop_requested' = TRUE
    /\ pc' = "join"
    /\ UNCHANGED <<quit, exit_requested, reset_pending, serving, media, executed, files,
                   commands, reset_requested, gtk>>

Join ==
    /\ pc = "join" /\ ended
    /\ pc' = "done"
    /\ UNCHANGED <<quit, exit_requested, reset_pending, serving, media, executed, files,
                   commands, reset_requested, stop_requested, gtk>>
-----------------------------------------------------------------------------
(* The GTK thread.  A callback can be interrupted by another one: while    *)
(* choose_file() destroys its dialog, it dispatches what is pending.       *)

Handler(command, at) == [command |-> command, at |-> at]
Innermost == IF handlers = <<>> THEN "none" ELSE Head(handlers).at
At(at) == Innermost = at
Dispatching == Innermost \in {"none", "closing"}

\* Callbacks in progress count as clicks that have not pushed yet.
MayClick == ~ended /\ Dispatching /\ pushed + Len(handlers) < MaxClicks

Step(at) == handlers' = <<Handler(Head(handlers).command, at)>> \o Tail(handlers)
Return == handlers' = Tail(handlers)

\* Mutant: a command that is still queued is overwritten.
PushOver(command) ==
    /\ commands' = <<command>>
    /\ pushed' = pushed + 1

Push(command) ==
    /\ commands' = Append(commands, command)
    /\ pushed' = pushed + 1

\* queue_command() for each kind of menu item.
ClickReset ==
    /\ MayClick
    /\ reset_requested' = TRUE
    /\ asked' = pushed
    /\ UNCHANGED <<main, files, commands, stop_requested, running, handlers, ended, label_cmt,
                   label_qd, pushed>>

ClickPlain ==
    /\ MayClick
    /\ \E command \in PlainCommands :
         /\ Push(command)
         /\ handlers' = <<Handler(command, "label")>> \o handlers
    /\ UNCHANGED <<main, files, reset_requested, stop_requested, running, ended, label_cmt,
                   label_qd, asked>>

ClickDialog ==
    /\ MayClick
    /\ \E command \in DialogCommands :
         handlers' = <<Handler(command, "dialog")>> \o handlers
    /\ UNCHANGED <<main, files, commands, reset_requested, stop_requested, running, ended,
                   label_cmt, label_qd, pushed, asked>>

\* The user chooses the file, or cancels.
Answer ==
    /\ At("dialog")
    /\ \/ Step("closing")
       \/ Return
    /\ UNCHANGED <<main, files, commands, reset_requested, stop_requested, running, ended,
                   label_cmt, label_qd, pushed, asked>>

\* Mutant: the loop of the dialog waits for the window to be closed.
AbandonDialogOnClose ==
    /\ At("dialog") /\ ~running
    /\ Return
    /\ UNCHANGED <<main, files, commands, reset_requested, stop_requested, running, ended,
                   label_cmt, label_qd, pushed, asked>>

\* The loop of the dialog ends when the thread must stop.
AbandonDialog ==
    /\ At("dialog") /\ stop_requested
    /\ Return
    /\ UNCHANGED <<main, files, commands, reset_requested, stop_requested, running, ended,
                   label_cmt, label_qd, pushed, asked>>

\* choose_file() returns the path, or nothing if the thread must stop.
DialogClosed ==
    /\ At("closing")
    /\ IF stop_requested THEN Return ELSE Step("push")
    /\ UNCHANGED <<main, files, commands, reset_requested, stop_requested, running, ended,
                   label_cmt, label_qd, pushed, asked>>

PushChosen ==
    /\ At("push")
    /\ Push(Head(handlers).command)
    /\ Step("label")
    /\ UNCHANGED <<main, files, reset_requested, stop_requested, running, ended, label_cmt,
                   label_qd, asked>>

\* The label shows the choice without waiting for the main thread.
SetLabel ==
    /\ At("label")
    /\ LET c == Head(handlers).command
       IN /\ label_cmt' = IF c.op \in {"cmt", "cmtrec", "cmteject"} THEN c.file ELSE label_cmt
          /\ label_qd' = IF c.op \in {"qd", "qdeject"} THEN c.file ELSE label_qd
    /\ Return
    /\ UNCHANGED <<main, files, commands, reset_requested, stop_requested, running, ended,
                   pushed, asked>>

\* The control window is closed; the machine runs on without it.
CloseWindow ==
    /\ ~ended /\ Dispatching /\ running
    /\ running' = FALSE
    /\ UNCHANGED <<main, files, commands, reset_requested, stop_requested, handlers, ended,
                   label_cmt, label_qd, pushed, asked>>

ThreadEnds ==
    /\ ~ended /\ handlers = <<>>
    /\ ~running \/ stop_requested
    /\ ended' = TRUE
    /\ UNCHANGED <<main, files, commands, reset_requested, stop_requested, running, handlers,
                   label_cmt, label_qd, pushed, asked>>

\* The user deletes an image file.
DeleteFile ==
    /\ \E f \in Vanishing \cap files : files' = files \ {f}
    /\ UNCHANGED <<main, commands, reset_requested, stop_requested, gtk>>
-----------------------------------------------------------------------------
MainLoop ==
    \/ Poll \/ PopResetRequest \/ ProcessCommand \/ QueueDrained \/ ResetVm \/ RunFrame
    \/ RequestStop \/ Join
Callbacks == AbandonDialog \/ DialogClosed \/ PushChosen \/ SetLabel \/ ThreadEnds
User == ClickReset \/ ClickPlain \/ ClickDialog \/ Answer \/ CloseWindow \/ DeleteFile

Next == MainLoop \/ Callbacks \/ User

Spec == Init /\ [][Next]_vars

\* Both threads are scheduled; the user need not do anything.  A person does
\* not click so fast that GTK never runs out of pending events: again and
\* again its loops, one in each callback in progress, get past their tests.
GtkDrains ==
    /\ SF_vars(ThreadEnds)
    /\ \A depth \in 1 .. MaxClicks : SF_vars(DialogClosed /\ Len(handlers) = depth)

FairSpec == Spec /\ WF_vars(MainLoop) /\ WF_vars(Callbacks) /\ GtkDrains
-----------------------------------------------------------------------------
TypeOK ==
    /\ pc \in {"poll", "pop_reset", "drain", "reset", "run", "stop", "join", "done"}
    /\ {quit, exit_requested, reset_pending, recording, rec_failed, reset_requested, stop_requested,
        running, ended} \subseteq BOOLEAN
    /\ {initial_cmt, label_cmt, tape} \subseteq Tapes \cup Recordings \cup {NoFile}
    /\ {initial_qd, label_qd, disk} \subseteq Disks \cup {NoFile}
    /\ files \subseteq Tapes \cup Disks
    /\ commands \in Seq(DialogCommands \cup PlainCommands)
    /\ handlers \in Seq([command : DialogCommands \cup PlainCommands,
                         at : {"dialog", "closing", "push", "label"}])
    /\ {pushed, executed, asked, serving} \subseteq 0 .. MaxClicks

(***************************************************************************)
(* A reset asked for in the control window never overtakes the commands    *)
(* queued before it, although it takes another way (a flag): when the      *)
(* machine is created anew they have all been executed.                    *)
(***************************************************************************)
ResetAfterItsCommands == pc = "reset" => executed >= serving

Deleted == (Tapes \cup Disks) \ files

(***************************************************************************)
(* The drives hold what a reset would mount again, so that a reset does    *)
(* not change the media.  Exceptions: a tape that is recorded to is given  *)
(* up; a tape that does not load, or a recording that cannot be made,      *)
(* leaves the deck empty; a disk that cannot be opened leaves its drive    *)
(* empty, and initial_qd names it all the same; a file that has been       *)
(* deleted is not mounted, and if it is the tape, nor is the disk.         *)
(***************************************************************************)
DiskGivenUp(f) == f \in Unreadable \cup Deleted \/ Deleted \cap Tapes # {}

MediaSurviveReset ==
    /\ tape # initial_cmt =>
         \/ tape \in Recordings /\ recording
         \/ tape = NoFile /\ (rec_failed \/ initial_cmt \in Unreadable \cup Deleted)
    /\ disk # initial_qd => disk = NoFile /\ DiskGivenUp(initial_qd)

(***************************************************************************)
(* When the control window rests and its commands have been executed, its  *)
(* labels show the media in the drives, whatever resets came in between.   *)
(* Exceptions: files that have been deleted, tapes that do not load, disks *)
(* that cannot be opened, and a recording that failed or that a reset has  *)
(* ended.                                                                  *)
(***************************************************************************)
Settled == handlers = <<>> /\ commands = <<>> /\ pc \in {"poll", "pop_reset", "run"}

LabelsShowMedia ==
    Settled =>
        /\ label_cmt # tape => label_cmt \in Unreadable \cup Deleted \cup Recordings
        /\ label_qd # disk => DiskGivenUp(label_qd)

\* Closing the program ends it: the join of the GTK thread is not waited for
\* forever, even when a file dialog is open.
ProgramEnds == (quit \/ exit_requested) ~> (pc = "done")

\* A reset asked for is carried out, and every command queued is executed,
\* unless the program is being closed.
RequestsServed ==
    /\ reset_requested ~> (pc \in {"reset", "done"})
    /\ \A n \in 1 .. MaxClicks : (pushed >= n) ~> (executed >= n \/ pc = "done")
=============================================================================
