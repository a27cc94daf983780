----------------------------- MODULE HostProofs -----------------------------
(***************************************************************************)
(* Proofs about module Host, for any files and any number of clicks: a     *)
(* reset from the control window waits for the commands that were queued   *)
(* before it, the media survive it, and the labels show them.              *)
(***************************************************************************)
EXTENDS Host, TLAPS

Commands == DialogCommands \cup PlainCommands
Stages == {"dialog", "closing", "push", "label"}

Queues ==
    /\ commands \in Seq(Commands)
    /\ handlers \in Seq([command : Commands, at : Stages])
    /\ pushed \in Nat /\ executed \in Nat /\ asked \in Nat /\ serving \in Nat

\* What was queued and not executed is in the queue, in particular while a
\* request that is older than it waits in its flag.
Counts ==
    /\ pushed = executed + Len(commands)
    /\ asked <= pushed
    /\ serving <= pushed

IInv == Queues /\ Counts /\ ResetAfterItsCommands

\* The program starts with an empty queue and nothing asked.
LEMMA InitIInv == Init => IInv
BY DEF Init, IInv, Queues, Counts, ResetAfterItsCommands

\* Appending to and taking from the queue.
LEMMA QueueLength ==
    ASSUME NEW S, NEW q \in Seq(S)
    PROVE  /\ \A x \in S : Append(q, x) \in Seq(S) /\ Len(Append(q, x)) = Len(q) + 1
           /\ q # <<>> => Tail(q) \in Seq(S) /\ Len(Tail(q)) = Len(q) - 1 /\ Head(q) \in S
           /\ Len(q) \in Nat /\ (q = <<>> <=> Len(q) = 0)
           /\ \A x \in S : <<x>> \o q \in Seq(S)
OBVIOUS

\* push_command() adds to the end of the queue and to no count but pushed.
LEMMA PushStep ==
    ASSUME IInv, NEW c \in Commands, Push(c),
           UNCHANGED <<pc, executed, asked, serving>>
    PROVE  /\ commands' \in Seq(Commands) /\ pushed' \in Nat
           /\ Counts' /\ ResetAfterItsCommands'
<1>1. commands' = Append(commands, c) /\ pushed' = pushed + 1
  BY DEF Push
<1>2. commands' \in Seq(Commands) /\ Len(commands') = Len(commands) + 1 /\ Len(commands) \in Nat
  BY <1>1, QueueLength DEF IInv, Queues
<1> QED
  BY <1>1, <1>2 DEF IInv, Queues, Counts, ResetAfterItsCommands

\* What a callback does to the stack of callbacks.
LEMMA HandlerTypes ==
    ASSUME IInv
    PROVE  /\ \A c \in Commands, at \in Stages :
                <<Handler(c, at)>> \o handlers \in Seq([command : Commands, at : Stages])
           /\ handlers # <<>> =>
                /\ Head(handlers).command \in Commands
                /\ Return => handlers' \in Seq([command : Commands, at : Stages])
                /\ \A at \in Stages :
                     Step(at) => handlers' \in Seq([command : Commands, at : Stages])
<1> DEFINE H == [command : Commands, at : Stages]
<1>1. handlers \in Seq(H)
  BY DEF IInv, Queues
<1>2. \A c \in Commands, at \in Stages : Handler(c, at) \in H
  BY DEF Handler
<1>3. ASSUME handlers # <<>>
      PROVE  /\ Head(handlers).command \in Commands
             /\ Tail(handlers) \in Seq(H)
  <2>1. Head(handlers) \in H /\ Tail(handlers) \in Seq(H)
    BY <1>1, <1>3, QueueLength
  <2> QED
    BY <2>1
<1> HIDE DEF H
<1>4. \A q \in Seq(H) : \A x \in H : <<x>> \o q \in Seq(H)
  BY QueueLength
<1>5. \A c \in Commands, at \in Stages : <<Handler(c, at)>> \o handlers \in Seq(H)
  BY <1>1, <1>2, <1>4
<1>6. ASSUME handlers # <<>>, NEW at \in Stages, Step(at)
      PROVE  handlers' \in Seq(H)
  BY <1>2, <1>3, <1>4, <1>6 DEF Step
<1> QED
  BY <1>3, <1>5, <1>6 DEF Return, H

\* Every step of the two threads keeps the counts and the queue together.
LEMMA NextIInv == IInv /\ [Next]_vars => IInv'
<1> SUFFICES ASSUME IInv, [Next]_vars PROVE IInv'
  OBVIOUS
<1>0. Queues /\ Counts /\ ResetAfterItsCommands
  BY DEF IInv
<1>1. CASE Poll
  BY <1>0, <1>1 DEF Poll, IInv, Queues, Counts, ResetAfterItsCommands, gtk
<1>2. CASE PopResetRequest
  BY <1>0, <1>2 DEF PopResetRequest, IInv, Queues, Counts, ResetAfterItsCommands, gtk
<1>3. CASE ProcessCommand
  <2>1. /\ commands # <<>> /\ commands' = Tail(commands) /\ executed' = executed + 1
        /\ pc = "drain" /\ UNCHANGED <<pc, serving, handlers, pushed, asked>>
    BY <1>3 DEF ProcessCommand, gtk
  <2>2. commands' \in Seq(Commands) /\ Len(commands') = Len(commands) - 1
        /\ Len(commands) \in Nat
    BY <1>0, <2>1, QueueLength DEF Queues
  <2> QED
    BY <1>0, <2>1, <2>2 DEF IInv, Queues, Counts, ResetAfterItsCommands
<1>4. CASE QueueDrained
  <2>1. /\ commands = <<>> /\ UNCHANGED <<serving, executed, commands, handlers, pushed, asked>>
    BY <1>4 DEF QueueDrained, gtk
  <2>2. Len(commands) = 0
    BY <2>1
  <2>3. executed = pushed
    BY <1>0, <2>2 DEF Queues, Counts
  <2> QED
    BY <1>0, <2>1, <2>2, <2>3 DEF IInv, Queues, Counts, ResetAfterItsCommands
<1>5. CASE ResetVm \/ RunFrame \/ RequestStop \/ Join
  BY <1>0, <1>5 DEF ResetVm, RunFrame, RequestStop, Join, IInv, Queues, Counts,
                    ResetAfterItsCommands, gtk, media
<1>6. CASE ClickReset
  BY <1>0, <1>6 DEF ClickReset, IInv, Queues, Counts, ResetAfterItsCommands, main
<1>7. CASE ClickPlain
  <2>1. PICK c \in PlainCommands :
          Push(c) /\ handlers' = <<Handler(c, "label")>> \o handlers
    BY <1>7 DEF ClickPlain
  <2>2. UNCHANGED <<pc, executed, asked, serving>>
    BY <1>7 DEF ClickPlain, main
  <2>3. c \in Commands /\ "label" \in Stages
    BY DEF Commands, Stages
  <2>4. handlers' \in Seq([command : Commands, at : Stages])
    BY <2>1, <2>3, HandlerTypes
  <2> QED
    BY <1>0, <2>1, <2>2, <2>3, <2>4, PushStep DEF IInv, Queues
<1>8. CASE ClickDialog
  <2>1. PICK c \in DialogCommands : handlers' = <<Handler(c, "dialog")>> \o handlers
    BY <1>8 DEF ClickDialog
  <2>2. c \in Commands /\ "dialog" \in Stages
    BY DEF Commands, Stages
  <2>3. handlers' \in Seq([command : Commands, at : Stages])
    BY <2>1, <2>2, HandlerTypes
  <2> QED
    BY <1>0, <1>8, <2>3 DEF ClickDialog, IInv, Queues, Counts, ResetAfterItsCommands, main
<1>9. CASE Answer \/ AbandonDialog \/ DialogClosed \/ SetLabel
  <2>1. handlers # <<>>
    BY <1>9 DEF Answer, AbandonDialog, DialogClosed, SetLabel, At, Innermost
  <2>2. Return \/ Step("closing") \/ Step("push")
    BY <1>9 DEF Answer, AbandonDialog, DialogClosed, SetLabel
  <2>3. "closing" \in Stages /\ "push" \in Stages
    BY DEF Stages
  <2>4. handlers' \in Seq([command : Commands, at : Stages])
    BY <2>1, <2>2, <2>3, HandlerTypes
  <2>5. UNCHANGED <<main, commands, pushed, asked>>
    BY <1>9 DEF Answer, AbandonDialog, DialogClosed, SetLabel
  <2> QED
    BY <1>0, <2>4, <2>5 DEF IInv, Queues, Counts, ResetAfterItsCommands, main
<1>10. CASE PushChosen
  <2>1. handlers # <<>> /\ Push(Head(handlers).command) /\ Step("label")
    BY <1>10 DEF PushChosen, At, Innermost
  <2>2. UNCHANGED <<pc, executed, asked, serving>>
    BY <1>10 DEF PushChosen, main
  <2>3. Head(handlers).command \in Commands
    BY <2>1, HandlerTypes
  <2>4. "label" \in Stages
    BY DEF Stages
  <2>5. handlers' \in Seq([command : Commands, at : Stages])
    BY <2>1, <2>4, HandlerTypes
  <2> QED
    BY <1>0, <2>1, <2>2, <2>3, <2>5, PushStep DEF IInv, Queues
<1>11. CASE CloseWindow \/ ThreadEnds \/ DeleteFile
  BY <1>0, <1>11 DEF CloseWindow, ThreadEnds, DeleteFile, IInv, Queues, Counts,
                     ResetAfterItsCommands, main, gtk
<1>12. CASE UNCHANGED vars
  BY <1>0, <1>12 DEF vars, IInv, Queues, Counts, ResetAfterItsCommands, main, gtk
<1> QED
  BY <1>1, <1>2, <1>3, <1>4, <1>5, <1>6, <1>7, <1>8, <1>9, <1>10, <1>11, <1>12
     DEF Next, MainLoop, Callbacks, User

(***************************************************************************)
(* When the main thread creates the machine anew for a request of the      *)
(* control window, every command that was queued before the request has    *)
(* been executed, although the flag and the queue are popped separately    *)
(* and clicks go on in between.                                            *)
(***************************************************************************)
THEOREM ResetsWait == Spec => []ResetAfterItsCommands
<1>1. IInv => ResetAfterItsCommands
  BY DEF IInv
<1> QED
  BY InitIInv, NextIInv, <1>1, PTL DEF Spec
-----------------------------------------------------------------------------
(* The types that the media need: only tapes are mounted by a reset, and   *)
(* only recordings are recorded to.                                        *)
MediaTypes ==
    /\ initial_cmt \in Tapes \cup {NoFile} /\ initial_qd \in Disks \cup {NoFile}
    /\ tape \in Tapes \cup Recordings \cup {NoFile} /\ disk \in Disks \cup {NoFile}
    /\ recording \in BOOLEAN /\ rec_failed \in BOOLEAN
    /\ files \subseteq Tapes \cup Disks

MInv == MediaTypes /\ MediaSurviveReset

\* What queued commands carry.
LEMMA CommandTypes ==
    ASSUME NEW c \in Commands
    PROVE  /\ c.op = "cmt" => c.file \in Tapes
           /\ c.op = "cmtrec" => c.file \in Recordings
           /\ c.op = "qd" => c.file \in Disks
           /\ c.op \in {"cmteject", "qdeject", "button", "exit"} => c.file = NoFile
           /\ c.op \in {"cmt", "cmtrec", "qd", "cmteject", "qdeject", "button", "exit"}
BY DEF Commands, DialogCommands, PlainCommands, Command

\* The machine starts with the media that a reset would mount.
LEMMA InitMInv == Init => MInv
<1> SUFFICES ASSUME Init PROVE MInv
  OBVIOUS
<1>1. MediaTypes
  BY DEF Init, MediaTypes, TapeToMount, DiskToMount, Loaded
<1>2. MediaSurviveReset
  BY <1>1, FileAssumption DEF Init, MediaTypes, TapeToMount, DiskToMount, Loaded,
                              MediaSurviveReset, Deleted, DiskGivenUp
<1> QED
  BY <1>1, <1>2 DEF MInv

\* A command changes one drive and what a reset mounts there together.
LEMMA CommandMInv ==
    ASSUME MInv, NEW c \in Commands, files' = files,
           \/ c.op = "cmt" /\ PlayTape(c.file)
           \/ c.op = "cmtrec" /\ RecordTape(c.file)
           \/ c.op = "cmteject" /\ EjectTape
           \/ c.op = "qd" /\ InsertDisk(c.file)
           \/ c.op = "qdeject" /\ EjectDisk
           \/ c.op \in {"button", "exit"} /\ UNCHANGED media
    PROVE  MInv'
<1> USE FileAssumption DEF MInv, MediaTypes, MediaSurviveReset, Deleted, DiskGivenUp, media
<1>1. CASE c.op = "cmt" /\ PlayTape(c.file)
  BY <1>1, CommandTypes DEF PlayTape, Loaded
<1>2. CASE c.op = "cmtrec" /\ RecordTape(c.file)
  BY <1>2, CommandTypes DEF RecordTape
<1>3. CASE c.op = "cmteject" /\ EjectTape
  BY <1>3 DEF EjectTape
<1>4. CASE c.op = "qd" /\ InsertDisk(c.file)
  BY <1>4, CommandTypes DEF InsertDisk, Loaded
<1>5. CASE c.op = "qdeject" /\ EjectDisk
  BY <1>5 DEF EjectDisk
<1>6. CASE UNCHANGED media
  BY <1>6
<1> QED
  BY <1>1, <1>2, <1>3, <1>4, <1>5, <1>6

\* A reset mounts what it mounted before, but for what has vanished since.
LEMMA ResetMInv ==
    ASSUME MInv, ResetVm
    PROVE  MInv'
<1> USE FileAssumption DEF MInv, MediaTypes
<1>1. /\ tape' = TapeToMount /\ disk' = DiskToMount /\ recording' = FALSE /\ rec_failed' = FALSE
      /\ UNCHANGED <<initial_cmt, initial_qd, files>>
  BY DEF ResetVm
<1>2. MediaTypes'
  BY <1>1 DEF TapeToMount, DiskToMount, Loaded
<1>3. tape' # initial_cmt => tape' = NoFile /\ initial_cmt \in Unreadable \cup Deleted
  BY <1>1 DEF TapeToMount, Loaded, Deleted
<1>4. disk' # initial_qd => disk' = NoFile /\ DiskGivenUp(initial_qd)
  BY <1>1 DEF DiskToMount, Loaded, DiskGivenUp, Deleted
<1>5. MediaSurviveReset'
  BY <1>1, <1>3, <1>4 DEF MediaSurviveReset, DiskGivenUp, Deleted
<1> QED
  BY <1>2, <1>5

\* Every other step leaves the media, or deletes a file.
LEMMA NextMInv == IInv /\ MInv /\ [Next]_vars => MInv'
<1> SUFFICES ASSUME IInv, MInv, [Next]_vars PROVE MInv'
  OBVIOUS
<1>1. CASE ProcessCommand
  <2>1. Head(commands) \in Commands
    BY <1>1, QueueLength DEF ProcessCommand, IInv, Queues
  <2> QED
    BY <1>1, <2>1, CommandMInv DEF ProcessCommand
<1>2. CASE ResetVm
  BY <1>2, ResetMInv
<1>3. CASE DeleteFile
  BY <1>3 DEF DeleteFile, MInv, MediaTypes, MediaSurviveReset, Deleted, DiskGivenUp, main, media
<1>4. CASE UNCHANGED <<media, files>>
  BY <1>4 DEF MInv, MediaTypes, MediaSurviveReset, Deleted, DiskGivenUp, media
<1>5. CASE \/ Poll \/ PopResetRequest \/ QueueDrained \/ RunFrame \/ RequestStop \/ Join
  BY <1>4, <1>5 DEF Poll, PopResetRequest, QueueDrained, RunFrame, RequestStop, Join
<1>6. CASE Callbacks
  BY <1>4, <1>6 DEF Callbacks, AbandonDialog, DialogClosed, PushChosen, SetLabel, ThreadEnds, main
<1>7. CASE ClickReset \/ ClickPlain \/ ClickDialog \/ Answer \/ CloseWindow
  BY <1>4, <1>7 DEF ClickReset, ClickPlain, ClickDialog, Answer, CloseWindow, main
<1>8. CASE UNCHANGED vars
  BY <1>4, <1>8 DEF vars, main
<1> QED
  BY <1>1, <1>2, <1>3, <1>5, <1>6, <1>7, <1>8 DEF Next, MainLoop, User

(***************************************************************************)
(* The drives hold what a reset would mount again, after any commands,     *)
(* resets and deletions of files, with the exceptions named there.         *)
(***************************************************************************)
THEOREM MediaAreKept == Spec => []MediaSurviveReset
<1>1. MInv => MediaSurviveReset
  BY DEF MInv
<1> QED
  BY InitIInv, NextIInv, InitMInv, NextMInv, <1>1, PTL DEF Spec
-----------------------------------------------------------------------------
(* The labels.  A callback that has pushed its command sets the label when *)
(* it returns, so that the file which a label shows, or is about to show,  *)
(* is that of the last command in the queue for this drive; when there is  *)
(* none, it is the file in the drive, with the exceptions of the property. *)
TapeOps == {"cmt", "cmtrec", "cmteject"}
DiskOps == {"qd", "qdeject"}

LabelPending(ops) == At("label") /\ Head(handlers).command.op \in ops
TapeShown == IF LabelPending(TapeOps) THEN Head(handlers).command.file ELSE label_cmt
DiskShown == IF LabelPending(DiskOps) THEN Head(handlers).command.file ELSE label_qd

NoneAfter(queue, i, ops) == \A j \in i + 1 .. Len(queue) : queue[j].op \notin ops
LastNames(queue, ops, f) ==
    \A i \in 1 .. Len(queue) :
        queue[i].op \in ops /\ NoneAfter(queue, i, ops) => queue[i].file = f

TapeAgrees(f) ==
    /\ f # tape => f \in Unreadable \cup Deleted \cup Recordings
    /\ rec_failed => f \in Recordings \cup Deleted
DiskAgrees(f) == f # disk => DiskGivenUp(f)

TapeSettles ==
    /\ LastNames(commands, TapeOps, TapeShown)
    /\ NoneAfter(commands, 0, TapeOps) => TapeAgrees(TapeShown)
DiskSettles ==
    /\ LastNames(commands, DiskOps, DiskShown)
    /\ NoneAfter(commands, 0, DiskOps) => DiskAgrees(DiskShown)

\* Callbacks are interrupted only while their dialog closes.
Nested == \A i \in 2 .. Len(handlers) : handlers[i].at = "closing"

LInv == Nested /\ TapeSettles /\ DiskSettles

\* A command at the end of the queue is the last for its drive.
LEMMA AppendNames ==
    ASSUME NEW queue \in Seq(Commands), NEW c \in Commands, NEW ops, NEW f,
           LastNames(queue, ops, f)
    PROVE  LET r == Append(queue, c)
           IN  IF c.op \in ops
               THEN LastNames(r, ops, c.file) /\ ~NoneAfter(r, 0, ops)
               ELSE LastNames(r, ops, f) /\ (NoneAfter(r, 0, ops) => NoneAfter(queue, 0, ops))
<1> DEFINE r == Append(queue, c)
<1>1. /\ Len(queue) \in Nat /\ Len(r) = Len(queue) + 1 /\ r[Len(queue) + 1] = c
      /\ \A i \in 1 .. Len(queue) : r[i] = queue[i]
  OBVIOUS
<1> HIDE DEF r
<1>2. CASE c.op \in ops
  <2>1. ~NoneAfter(r, 0, ops)
    BY <1>1, <1>2 DEF NoneAfter
  <2>2. ASSUME NEW i \in 1 .. Len(r), NoneAfter(r, i, ops) PROVE r[i].file = c.file
    <3>1. i = Len(queue) + 1
      BY <1>1, <1>2, <2>2 DEF NoneAfter
    <3> QED
      BY <1>1, <3>1
  <2> QED
    BY <1>2, <2>1, <2>2 DEF LastNames, r
<1>3. CASE c.op \notin ops
  <2>1. ASSUME NEW i \in 0 .. Len(queue), NoneAfter(r, i, ops) PROVE NoneAfter(queue, i, ops)
    BY <1>1, <2>1 DEF NoneAfter
  <2>2. ASSUME NEW i \in 1 .. Len(r), r[i].op \in ops, NoneAfter(r, i, ops) PROVE r[i].file = f
    <3>1. i \in 1 .. Len(queue)
      BY <1>1, <1>3, <2>2
    <3>2. NoneAfter(queue, i, ops) /\ queue[i].op \in ops
      BY <1>1, <2>1, <2>2, <3>1
    <3> QED
      BY <1>1, <3>1, <3>2 DEF LastNames
  <2>3. 0 \in 0 .. Len(queue)
    BY <1>1
  <2> QED
    BY <1>3, <2>1, <2>2, <2>3 DEF LastNames, r
<1> QED
  BY <1>2, <1>3

\* When the command at the head is taken, it was the last or is not.
LEMMA TailNames ==
    ASSUME NEW queue \in Seq(Commands), queue # <<>>, NEW ops, NEW f,
           LastNames(queue, ops, f)
    PROVE  /\ LastNames(Tail(queue), ops, f)
           /\ NoneAfter(Tail(queue), 0, ops) =>
                IF Head(queue).op \in ops THEN Head(queue).file = f ELSE NoneAfter(queue, 0, ops)
<1> DEFINE r == Tail(queue)
<1>1. /\ Len(queue) \in Nat \ {0} /\ Len(r) = Len(queue) - 1 /\ Head(queue) = queue[1]
      /\ \A i \in 1 .. Len(queue) - 1 : r[i] = queue[i + 1]
  OBVIOUS
<1> HIDE DEF r
<1>2. ASSUME NEW i \in 0 .. Len(r), NoneAfter(r, i, ops) PROVE NoneAfter(queue, i + 1, ops)
  <2>1. ASSUME NEW j \in (i + 1) + 1 .. Len(queue) PROVE queue[j].op \notin ops
    <3>1. j - 1 \in i + 1 .. Len(r) /\ j - 1 \in 1 .. Len(queue) - 1 /\ (j - 1) + 1 = j
      BY <1>1
    <3>2. r[j - 1] = queue[j]
      BY <1>1, <3>1
    <3> QED
      BY <1>2, <3>1, <3>2 DEF NoneAfter
  <2> QED
    BY <2>1 DEF NoneAfter
<1>3. ASSUME NEW i \in 1 .. Len(r), r[i].op \in ops, NoneAfter(r, i, ops) PROVE r[i].file = f
  <2>1. i + 1 \in 1 .. Len(queue) /\ r[i] = queue[i + 1] /\ i \in 0 .. Len(r)
    BY <1>1
  <2> QED
    BY <1>2, <1>3, <2>1 DEF LastNames
<1>4. ASSUME NoneAfter(r, 0, ops)
      PROVE  IF Head(queue).op \in ops THEN Head(queue).file = f ELSE NoneAfter(queue, 0, ops)
  <2>1. NoneAfter(queue, 1, ops)
    BY <1>1, <1>2, <1>4
  <2>2. CASE Head(queue).op \in ops
    BY <1>1, <2>1, <2>2 DEF LastNames
  <2>3. CASE Head(queue).op \notin ops
    <3>1. \A j \in 1 .. Len(queue) : j = 1 \/ j \in 2 .. Len(queue)
      BY <1>1
    <3>2. \A j \in 1 .. Len(queue) : queue[j].op \notin ops
      BY <1>1, <2>1, <2>3, <3>1 DEF NoneAfter
    <3> QED
      BY <2>3, <3>2 DEF NoneAfter
  <2> QED
    BY <2>2, <2>3
<1> QED
  BY <1>3, <1>4 DEF LastNames, r

\* What is left of a stack of callbacks when the innermost one goes on or
\* returns, and when another one begins.
LEMMA StackSteps ==
    ASSUME IInv, Nested
    PROVE  /\ handlers # <<>> /\ Return => Nested' /\ Innermost' \in {"none", "closing"}
           /\ \A at \in Stages : handlers # <<>> /\ Step(at) =>
                /\ Nested' /\ Innermost' = at
                /\ Head(handlers').command = Head(handlers).command
           /\ \A c \in Commands, at \in Stages :
                Dispatching /\ handlers' = <<Handler(c, at)>> \o handlers =>
                    Nested' /\ Innermost' = at /\ Head(handlers').command = c
<1> DEFINE H == [command : Commands, at : Stages]
<1>1. handlers \in Seq(H) /\ Len(handlers) \in Nat
  BY DEF IInv, Queues
<1>2. ASSUME handlers # <<>>
      PROVE  /\ Len(Tail(handlers)) = Len(handlers) - 1 /\ Len(handlers) > 0
             /\ Tail(handlers) \in Seq(H)
             /\ \A i \in 1 .. Len(handlers) - 1 : Tail(handlers)[i].at = "closing"
  <2>1. /\ Len(Tail(handlers)) = Len(handlers) - 1 /\ Len(handlers) > 0
        /\ Tail(handlers) \in Seq(H)
        /\ \A i \in 1 .. Len(handlers) - 1 : Tail(handlers)[i] = handlers[i + 1]
    BY <1>1, <1>2
  <2>2. \A i \in 1 .. Len(handlers) - 1 : i + 1 \in 2 .. Len(handlers)
    BY <1>1
  <2> QED
    BY <2>1, <2>2 DEF Nested
<1>3. ASSUME NEW rest \in Seq(H), \A i \in 1 .. Len(rest) : rest[i].at = "closing",
             NEW c \in Commands, NEW at \in Stages, handlers' = <<Handler(c, at)>> \o rest
      PROVE  Nested' /\ Innermost' = at /\ Head(handlers').command = c
  <2>1. Handler(c, at) \in H
    BY DEF Handler
  <2>2. /\ Len(handlers') = Len(rest) + 1 /\ handlers' # <<>>
        /\ Head(handlers') = Handler(c, at) /\ Len(rest) \in Nat
        /\ \A i \in 2 .. Len(rest) + 1 : handlers'[i] = rest[i - 1] /\ i - 1 \in 1 .. Len(rest)
    BY <1>3, <2>1
  <2> QED
    BY <1>3, <2>2 DEF Nested, Innermost, Handler
<1>4. ASSUME handlers # <<>>, Return PROVE Nested' /\ Innermost' \in {"none", "closing"}
  <2>1. handlers' = Tail(handlers)
    BY <1>4 DEF Return
  <2>2. \A i \in 1 .. Len(handlers') : handlers'[i].at = "closing"
    BY <1>2, <1>4, <2>1
  <2>3. Len(handlers') \in Nat /\ (handlers' # <<>> => Len(handlers') >= 1)
        /\ (handlers' # <<>> => Head(handlers') = handlers'[1])
    BY <1>2, <1>4, <2>1
  <2>4. Nested'
    BY <2>2, <2>3 DEF Nested
  <2> QED
    BY <2>2, <2>3, <2>4 DEF Innermost
<1>5. ASSUME NEW at \in Stages, handlers # <<>>, Step(at)
      PROVE  /\ Nested' /\ Innermost' = at
             /\ Head(handlers').command = Head(handlers).command
  <2>1. handlers' = <<Handler(Head(handlers).command, at)>> \o Tail(handlers)
    BY <1>5 DEF Step
  <2>2. Head(handlers).command \in Commands
    BY <1>5, HandlerTypes
  <2>3. \A i \in 1 .. Len(Tail(handlers)) : Tail(handlers)[i].at = "closing"
    BY <1>2, <1>5
  <2> QED
    BY <1>2, <1>3, <1>5, <2>1, <2>2, <2>3
<1>6. ASSUME NEW c \in Commands, NEW at \in Stages, Dispatching,
             handlers' = <<Handler(c, at)>> \o handlers
      PROVE  Nested' /\ Innermost' = at /\ Head(handlers').command = c
  <2>1. ASSUME NEW i \in 1 .. Len(handlers) PROVE handlers[i].at = "closing"
    <3>1. handlers # <<>> /\ Head(handlers) = handlers[1] /\ (i = 1 \/ i \in 2 .. Len(handlers))
      BY <1>1
    <3>2. handlers[i] \in H
      <4> HIDE DEF H
      <4> QED
        BY <1>1
    <3>3. handlers[i].at \in Stages
      BY <3>2
    <3> QED
      BY <1>6, <3>1, <3>3 DEF Dispatching, Innermost, Nested, Stages
  <2> QED
    BY <1>1, <1>3, <1>6, <2>1
<1> QED
  BY <1>4, <1>5, <1>6

\* Nothing is queued, no label is pending, and the labels show the media.
LEMMA InitLInv == Init => LInv
<1> SUFFICES ASSUME Init PROVE LInv
  OBVIOUS
<1>1. handlers = <<>> /\ commands = <<>> /\ TapeShown = initial_cmt /\ DiskShown = initial_qd
  BY DEF Init, TapeShown, DiskShown, LabelPending, At, Innermost
<1>2. TapeAgrees(initial_cmt) /\ DiskAgrees(initial_qd)
  BY FileAssumption DEF Init, TapeToMount, DiskToMount, Loaded, TapeAgrees, DiskAgrees,
                        DiskGivenUp, Deleted
<1> QED
  BY <1>1, <1>2 DEF LInv, Nested, TapeSettles, DiskSettles, LastNames

\* Pushing a command and having its label set next is one for the labels.
LEMMA PushLabel ==
    ASSUME IInv, LInv, ~At("label"), NEW c \in Commands, Push(c),
           Nested', At("label")', Head(handlers').command = c,
           UNCHANGED <<media, files, label_cmt, label_qd>>
    PROVE  LInv'
<1>1. commands \in Seq(Commands) /\ commands' = Append(commands, c)
  BY DEF IInv, Queues, Push
<1>2. /\ TapeShown = label_cmt /\ DiskShown = label_qd
      /\ TapeShown' = IF c.op \in TapeOps THEN c.file ELSE label_cmt
      /\ DiskShown' = IF c.op \in DiskOps THEN c.file ELSE label_qd
  BY DEF TapeShown, DiskShown, LabelPending
<1>3. TapeSettles'
  <2>1. \A f : TapeAgrees(f)' <=> TapeAgrees(f)
    BY DEF TapeAgrees, Deleted, media
  <2>2. IF c.op \in TapeOps
        THEN LastNames(commands', TapeOps, c.file) /\ ~NoneAfter(commands', 0, TapeOps)
        ELSE /\ LastNames(commands', TapeOps, label_cmt)
             /\ NoneAfter(commands', 0, TapeOps) => NoneAfter(commands, 0, TapeOps)
    BY <1>1, <1>2, AppendNames DEF LInv, TapeSettles
  <2> QED
    BY <1>2, <2>1, <2>2 DEF LInv, TapeSettles
<1>4. DiskSettles'
  <2>1. \A f : DiskAgrees(f)' <=> DiskAgrees(f)
    BY DEF DiskAgrees, DiskGivenUp, Deleted, media
  <2>2. IF c.op \in DiskOps
        THEN LastNames(commands', DiskOps, c.file) /\ ~NoneAfter(commands', 0, DiskOps)
        ELSE /\ LastNames(commands', DiskOps, label_qd)
             /\ NoneAfter(commands', 0, DiskOps) => NoneAfter(commands, 0, DiskOps)
    BY <1>1, <1>2, AppendNames DEF LInv, DiskSettles
  <2> QED
    BY <1>2, <2>1, <2>2 DEF LInv, DiskSettles
<1> QED
  BY <1>3, <1>4 DEF LInv

\* A step that changes neither queue nor media nor what the labels will show.
LEMMA SameLabels ==
    ASSUME LInv, Nested', TapeShown' = TapeShown, DiskShown' = DiskShown,
           UNCHANGED <<media, files, commands>>
    PROVE  LInv'
<1>1. /\ TapeAgrees(TapeShown)' <=> TapeAgrees(TapeShown)
      /\ DiskAgrees(DiskShown)' <=> DiskAgrees(DiskShown)
  BY DEF TapeAgrees, DiskAgrees, DiskGivenUp, Deleted, media
<1> QED
  BY <1>1 DEF LInv, TapeSettles, DiskSettles

\* Executing a command puts into the drive what the queue has named.
LEMMA CommandLabel ==
    ASSUME IInv, MInv, LInv, ProcessCommand
    PROVE  LInv'
<1>0. /\ commands \in Seq(Commands) /\ commands # <<>> /\ commands' = Tail(commands)
      /\ Head(commands) \in Commands
  BY QueueLength DEF ProcessCommand, IInv, Queues
<1>1. PICK c \in Commands : c = Head(commands)
  BY <1>0
<1>2. UNCHANGED <<handlers, label_cmt, label_qd, files>>
  BY DEF ProcessCommand, gtk
<1>3. TapeShown' = TapeShown /\ DiskShown' = DiskShown /\ Nested'
  BY <1>2 DEF TapeShown, DiskShown, LabelPending, At, Innermost, LInv, Nested
<1>4. \/ c.op = "cmt" /\ PlayTape(c.file)
      \/ c.op = "cmtrec" /\ RecordTape(c.file)
      \/ c.op = "cmteject" /\ EjectTape
      \/ c.op = "qd" /\ InsertDisk(c.file)
      \/ c.op = "qdeject" /\ EjectDisk
      \/ c.op \in {"button", "exit"} /\ UNCHANGED media
  BY <1>1 DEF ProcessCommand
<1>5. TapeSettles'
  <2>1. /\ LastNames(commands', TapeOps, TapeShown)
        /\ NoneAfter(commands', 0, TapeOps) =>
             IF c.op \in TapeOps THEN c.file = TapeShown ELSE NoneAfter(commands, 0, TapeOps)
    BY <1>0, <1>1, TailNames DEF LInv, TapeSettles
  <2>2. CASE c.op \in TapeOps
    <3>1. TapeAgrees(c.file)'
      <4>1. CASE PlayTape(c.file) /\ c.op = "cmt"
        <5>1. c.file \in Tapes
          BY <4>1, CommandTypes
        <5> QED
          BY <1>2, <4>1, <5>1, FileAssumption DEF PlayTape, Loaded, TapeAgrees, Deleted
      <4>2. CASE RecordTape(c.file) /\ c.op = "cmtrec"
        <5>1. c.file \in Recordings
          BY <4>2, CommandTypes
        <5> QED
          BY <5>1 DEF TapeAgrees
      <4>3. CASE EjectTape /\ c.op = "cmteject"
        <5>1. c.file = NoFile
          BY <4>3, CommandTypes
        <5> QED
          BY <4>3, <5>1 DEF EjectTape, TapeAgrees
      <4> QED
        BY <1>4, <2>2, <4>1, <4>2, <4>3 DEF TapeOps
    <3>2. NoneAfter(commands', 0, TapeOps) => TapeAgrees(TapeShown)'
      BY <1>3, <2>1, <2>2, <3>1 DEF TapeAgrees
    <3> QED
      BY <1>3, <2>1, <3>2 DEF TapeSettles
  <2>3. CASE c.op \notin TapeOps
    <3>1. UNCHANGED <<tape, rec_failed>>
      BY <1>4, <2>3 DEF TapeOps, InsertDisk, EjectDisk, media
    <3>2. TapeAgrees(TapeShown)' <=> TapeAgrees(TapeShown)
      BY <1>2, <1>3, <3>1 DEF TapeAgrees, Deleted
    <3> QED
      BY <1>3, <2>1, <2>3, <3>2 DEF LInv, TapeSettles
  <2> QED
    BY <2>2, <2>3
<1>6. DiskSettles'
  <2>1. /\ LastNames(commands', DiskOps, DiskShown)
        /\ NoneAfter(commands', 0, DiskOps) =>
             IF c.op \in DiskOps THEN c.file = DiskShown ELSE NoneAfter(commands, 0, DiskOps)
    BY <1>0, <1>1, TailNames DEF LInv, DiskSettles
  <2>2. CASE c.op \in DiskOps
    <3>1. DiskAgrees(c.file)'
      <4>1. CASE InsertDisk(c.file) /\ c.op = "qd"
        <5>1. c.file \in Disks
          BY <4>1, CommandTypes
        <5> QED
          BY <1>2, <4>1, <5>1 DEF InsertDisk, Loaded, DiskAgrees, DiskGivenUp, Deleted
      <4>2. CASE EjectDisk /\ c.op = "qdeject"
        <5>1. c.file = NoFile
          BY <4>2, CommandTypes
        <5> QED
          BY <4>2, <5>1 DEF EjectDisk, DiskAgrees
      <4> QED
        BY <1>4, <2>2, <4>1, <4>2 DEF DiskOps
    <3>2. NoneAfter(commands', 0, DiskOps) => DiskAgrees(DiskShown)'
      BY <1>3, <2>1, <2>2, <3>1 DEF DiskAgrees
    <3> QED
      BY <1>3, <2>1, <3>2 DEF DiskSettles
  <2>3. CASE c.op \notin DiskOps
    <3>1. UNCHANGED disk
      BY <1>4, <2>3 DEF DiskOps, PlayTape, RecordTape, EjectTape, media
    <3>2. DiskAgrees(DiskShown)' <=> DiskAgrees(DiskShown)
      BY <1>2, <1>3, <3>1 DEF DiskAgrees, DiskGivenUp, Deleted
    <3> QED
      BY <1>3, <2>1, <2>3, <3>2 DEF LInv, DiskSettles
  <2> QED
    BY <2>2, <2>3
<1> QED
  BY <1>3, <1>5, <1>6 DEF LInv

\* A reset, which gives up what cannot be mounted again, and a deletion leave
\* every label that was true with a file that explains the difference.
LEMMA ResetLabel ==
    ASSUME MInv, LInv, ResetVm
    PROVE  LInv'
<1>1. /\ tape' = TapeToMount /\ disk' = DiskToMount /\ rec_failed' = FALSE
      /\ UNCHANGED <<initial_cmt, initial_qd, files, commands, handlers, label_cmt, label_qd>>
  BY DEF ResetVm, gtk
<1>2. TapeShown' = TapeShown /\ DiskShown' = DiskShown /\ Nested'
  BY <1>1 DEF TapeShown, DiskShown, LabelPending, At, Innermost, LInv, Nested
<1>3. ASSUME NEW f, TapeAgrees(f) PROVE TapeAgrees(f)'
  <2>1. Deleted' = Deleted
    BY <1>1 DEF Deleted
  <2>2. f # tape' => f \in Unreadable \cup Deleted \cup Recordings
    <3>1. CASE f = tape /\ tape = initial_cmt
      BY <1>1, <3>1, FileAssumption DEF MInv, MediaTypes, TapeToMount, Loaded, Deleted
    <3>2. CASE f = tape /\ tape # initial_cmt
      BY <1>1, <1>3, <3>2, FileAssumption
         DEF MInv, MediaTypes, MediaSurviveReset, TapeAgrees, TapeToMount, Loaded, Deleted
    <3>3. CASE f # tape
      BY <1>3, <3>3 DEF TapeAgrees
    <3> QED
      BY <3>1, <3>2, <3>3
  <2> QED
    BY <1>1, <2>1, <2>2 DEF TapeAgrees
<1>4. ASSUME NEW f, DiskAgrees(f) PROVE DiskAgrees(f)'
  BY <1>1, <1>4, FileAssumption
     DEF MInv, MediaTypes, MediaSurviveReset, DiskAgrees, DiskGivenUp, DiskToMount, Loaded,
         Deleted
<1>5. /\ TapeAgrees(TapeShown) => TapeAgrees(TapeShown)'
      /\ DiskAgrees(DiskShown) => DiskAgrees(DiskShown)'
  <2>1. PICK f : f = TapeShown
    OBVIOUS
  <2>2. PICK g : g = DiskShown
    OBVIOUS
  <2> QED
    BY <1>2, <1>3, <1>4, <2>1, <2>2 DEF TapeAgrees, DiskAgrees, DiskGivenUp, Deleted
<1> QED
  BY <1>1, <1>2, <1>5 DEF LInv, TapeSettles, DiskSettles

LEMMA DeleteLabel ==
    ASSUME LInv, DeleteFile
    PROVE  LInv'
<1>1. /\ UNCHANGED <<media, commands, handlers, label_cmt, label_qd>>
      /\ files' \subseteq files
  BY DEF DeleteFile, main, gtk
<1>2. TapeShown' = TapeShown /\ DiskShown' = DiskShown /\ Nested'
  BY <1>1 DEF TapeShown, DiskShown, LabelPending, At, Innermost, LInv, Nested
<1>3. /\ TapeAgrees(TapeShown) => TapeAgrees(TapeShown)'
      /\ DiskAgrees(DiskShown) => DiskAgrees(DiskShown)'
  BY <1>1, <1>2 DEF TapeAgrees, DiskAgrees, DiskGivenUp, Deleted, media
<1> QED
  BY <1>1, <1>2, <1>3 DEF LInv, TapeSettles, DiskSettles

\* Every step keeps the labels in agreement with queue and media.
LEMMA NextLInv == IInv /\ MInv /\ LInv /\ [Next]_vars => LInv'
<1> SUFFICES ASSUME IInv, MInv, LInv, [Next]_vars PROVE LInv'
  OBVIOUS
<1>0. Nested
  BY DEF LInv
<1>1. CASE ProcessCommand
  BY <1>1, CommandLabel
<1>2. CASE ResetVm
  BY <1>2, ResetLabel
<1>3. CASE DeleteFile
  BY <1>3, DeleteLabel
<1>4. ASSUME UNCHANGED <<media, files, commands, label_cmt, label_qd, handlers>> PROVE LInv'
  <2>1. TapeShown' = TapeShown /\ DiskShown' = DiskShown /\ Nested'
    BY <1>0, <1>4 DEF TapeShown, DiskShown, LabelPending, At, Innermost, Nested
  <2> QED
    BY <1>4, <2>1, SameLabels
<1>5. CASE \/ Poll \/ PopResetRequest \/ QueueDrained \/ RunFrame \/ RequestStop \/ Join
           \/ ClickReset \/ CloseWindow \/ ThreadEnds
  BY <1>4, <1>5 DEF Poll, PopResetRequest, QueueDrained, RunFrame, RequestStop, Join, ClickReset,
                    CloseWindow, ThreadEnds, main, gtk
<1>6. ASSUME UNCHANGED <<media, files, commands, label_cmt, label_qd>>, Nested',
             ~At("label"), ~At("label")'
      PROVE  LInv'
  <2>1. TapeShown' = TapeShown /\ DiskShown' = DiskShown
    BY <1>6 DEF TapeShown, DiskShown, LabelPending
  <2> QED
    BY <1>6, <2>1, SameLabels
<1>7. CASE ClickPlain
  <2>1. PICK c \in PlainCommands :
          Push(c) /\ handlers' = <<Handler(c, "label")>> \o handlers
    BY <1>7 DEF ClickPlain
  <2>2. /\ Dispatching /\ UNCHANGED <<media, files, label_cmt, label_qd>>
    BY <1>7 DEF ClickPlain, MayClick, main
  <2>3. c \in Commands /\ "label" \in Stages
    BY DEF Commands, Stages
  <2>4. Nested' /\ Innermost' = "label" /\ Head(handlers').command = c
    BY <1>0, <2>1, <2>2, <2>3, StackSteps
  <2>5. At("label")' /\ ~At("label")
    BY <2>2, <2>4 DEF At, Dispatching
  <2> QED
    BY <2>1, <2>2, <2>3, <2>4, <2>5, PushLabel
<1>8. CASE ClickDialog
  <2>1. PICK c \in DialogCommands : handlers' = <<Handler(c, "dialog")>> \o handlers
    BY <1>8 DEF ClickDialog
  <2>2. Dispatching /\ UNCHANGED <<media, files, commands, label_cmt, label_qd>>
    BY <1>8 DEF ClickDialog, MayClick, main
  <2>3. c \in Commands /\ "dialog" \in Stages
    BY DEF Commands, Stages
  <2>4. Nested' /\ Innermost' = "dialog"
    BY <1>0, <2>1, <2>2, <2>3, StackSteps
  <2> QED
    BY <1>6, <2>2, <2>4 DEF At, Dispatching
<1>9. CASE Answer \/ AbandonDialog \/ DialogClosed
  <2>1. handlers # <<>> /\ (Return \/ Step("closing") \/ Step("push")) /\ ~At("label")
    BY <1>9 DEF Answer, AbandonDialog, DialogClosed, At, Innermost
  <2>2. UNCHANGED <<media, files, commands, label_cmt, label_qd>>
    BY <1>9 DEF Answer, AbandonDialog, DialogClosed, main
  <2>3. "closing" \in Stages /\ "push" \in Stages
    BY DEF Stages
  <2>4. Nested' /\ Innermost' \in {"none", "closing", "push"}
    BY <1>0, <2>1, <2>3, StackSteps
  <2> QED
    BY <1>6, <2>1, <2>2, <2>4 DEF At
<1>10. CASE PushChosen
  <2>1. handlers # <<>> /\ Push(Head(handlers).command) /\ Step("label") /\ ~At("label")
    BY <1>10 DEF PushChosen, At, Innermost
  <2>2. UNCHANGED <<media, files, label_cmt, label_qd>>
    BY <1>10 DEF PushChosen, main
  <2>3. Head(handlers).command \in Commands /\ "label" \in Stages
    BY <2>1, HandlerTypes DEF Stages
  <2>4. PICK c \in Commands : c = Head(handlers).command
    BY <2>3
  <2>5. Nested' /\ Innermost' = "label" /\ Head(handlers').command = c
    BY <1>0, <2>1, <2>3, <2>4, StackSteps
  <2>6. At("label")'
    BY <2>5 DEF At
  <2> QED
    BY <2>1, <2>2, <2>4, <2>5, <2>6, PushLabel
<1>11. CASE SetLabel
  <2>1. handlers # <<>> /\ Return /\ At("label")
    BY <1>11 DEF SetLabel, At, Innermost
  <2>2. /\ UNCHANGED <<media, files, commands>>
        /\ label_cmt' = IF Head(handlers).command.op \in TapeOps
                        THEN Head(handlers).command.file ELSE label_cmt
        /\ label_qd' = IF Head(handlers).command.op \in DiskOps
                       THEN Head(handlers).command.file ELSE label_qd
    BY <1>11 DEF SetLabel, main, TapeOps, DiskOps
  <2>3. Nested' /\ ~At("label")'
    BY <1>0, <2>1, StackSteps DEF At
  <2>4. TapeShown' = TapeShown /\ DiskShown' = DiskShown
    BY <2>1, <2>2, <2>3 DEF TapeShown, DiskShown, LabelPending
  <2> QED
    BY <2>2, <2>3, <2>4, SameLabels
<1>12. CASE UNCHANGED vars
  BY <1>4, <1>12 DEF vars, main, gtk
<1> QED
  BY <1>1, <1>2, <1>3, <1>5, <1>7, <1>8, <1>9, <1>10, <1>11, <1>12
     DEF Next, MainLoop, Callbacks, User

(***************************************************************************)
(* When the control window rests and its commands have been executed, its  *)
(* labels show the media, however callbacks were nested and whatever       *)
(* resets came in between, with the exceptions named there.                *)
(***************************************************************************)
THEOREM LabelsAreTrue == Spec => []LabelsShowMedia
<1>1. LInv => LabelsShowMedia
  <2> SUFFICES ASSUME LInv, handlers = <<>>, commands = <<>>
               PROVE  TapeAgrees(label_cmt) /\ DiskAgrees(label_qd)
    BY DEF LabelsShowMedia, Settled, TapeAgrees, DiskAgrees
  <2>1. TapeShown = label_cmt /\ DiskShown = label_qd
    BY DEF TapeShown, DiskShown, LabelPending, At, Innermost
  <2>2. NoneAfter(commands, 0, TapeOps) /\ NoneAfter(commands, 0, DiskOps)
    BY DEF NoneAfter
  <2> QED
    BY <2>1, <2>2 DEF LInv, TapeSettles, DiskSettles
<1> QED
  BY InitIInv, NextIInv, InitMInv, NextMInv, InitLInv, NextLInv, <1>1, PTL DEF Spec
-----------------------------------------------------------------------------
(* Type correctness.  A callback in progress counts as a click until it    *)
(* has pushed, so that no click is one too many.                           *)
Types ==
    /\ pc \in {"poll", "pop_reset", "drain", "reset", "run", "stop", "join", "done"}
    /\ quit \in BOOLEAN /\ exit_requested \in BOOLEAN /\ reset_pending \in BOOLEAN
    /\ reset_requested \in BOOLEAN /\ stop_requested \in BOOLEAN
    /\ running \in BOOLEAN /\ ended \in BOOLEAN
    /\ label_cmt \in Tapes \cup Recordings \cup {NoFile}
    /\ label_qd \in Disks \cup {NoFile}
    /\ pushed + Len(handlers) <= MaxClicks + (IF At("label") THEN 1 ELSE 0)

\* The program starts with no click made.
LEMMA InitTypes == Init => Types
<1> SUFFICES ASSUME Init PROVE Types
  OBVIOUS
<1>1. pushed + Len(handlers) <= MaxClicks + (IF At("label") THEN 1 ELSE 0)
  BY ClickAssumption DEF Init, At, Innermost
<1> QED
  BY <1>1, Zenon DEF Init, Types

\* The lengths of the stack of callbacks.
LEMMA StackLengths ==
    ASSUME IInv
    PROVE  /\ Len(handlers) \in Nat
           /\ handlers # <<>> => Len(handlers) >= 1
           /\ handlers # <<>> /\ Return => Len(handlers') = Len(handlers) - 1
           /\ \A at \in Stages : handlers # <<>> /\ Step(at) => Len(handlers') = Len(handlers)
           /\ \A c \in Commands, at \in Stages :
                handlers' = <<Handler(c, at)>> \o handlers => Len(handlers') = Len(handlers) + 1
<1> DEFINE H == [command : Commands, at : Stages]
<1>1. handlers \in Seq(H)
  BY DEF IInv, Queues
<1>2. handlers # <<>> => Head(handlers).command \in Commands
  BY HandlerTypes
<1>3. \A c \in Commands, at \in Stages : Handler(c, at) \in H
  BY DEF Handler
<1> HIDE DEF H
<1>4. /\ Len(handlers) \in Nat
      /\ handlers # <<>> => /\ Tail(handlers) \in Seq(H)
                            /\ Len(Tail(handlers)) = Len(handlers) - 1 /\ Len(handlers) >= 1
  BY <1>1
<1>5. \A q \in Seq(H), h \in H : Len(<<h>> \o q) = Len(q) + 1
  OBVIOUS
<1> QED
  BY <1>1, <1>2, <1>3, <1>4, <1>5 DEF Return, Step

\* Every step keeps the types.
LEMMA NextTypes == IInv /\ Nested /\ Types /\ [Next]_vars => Types'
<1> SUFFICES ASSUME IInv, Nested, Types, [Next]_vars PROVE Types'
  OBVIOUS
<1> USE ClickAssumption
<1>0. pushed \in Nat /\ Len(handlers) \in Nat
  BY StackLengths DEF IInv, Queues
<1>1. ASSUME MainLoop PROVE Types'
  <2>1. UNCHANGED <<running, handlers, ended, label_cmt, label_qd, pushed>>
    BY <1>1 DEF MainLoop, Poll, PopResetRequest, ProcessCommand, QueueDrained, ResetVm, RunFrame,
                RequestStop, Join, gtk
  <2>2. /\ pc' \in {"poll", "pop_reset", "drain", "reset", "run", "stop", "join", "done"}
        /\ quit' \in BOOLEAN /\ exit_requested' \in BOOLEAN /\ reset_pending' \in BOOLEAN
        /\ reset_requested' \in BOOLEAN /\ stop_requested' \in BOOLEAN
    <3>1. CASE ProcessCommand
      BY <3>1 DEF ProcessCommand, Types
    <3>2. CASE \/ Poll \/ PopResetRequest \/ QueueDrained \/ ResetVm \/ RunFrame
               \/ RequestStop \/ Join
      BY <3>2 DEF Poll, PopResetRequest, QueueDrained, ResetVm, RunFrame, RequestStop, Join, Types
    <3> QED
      BY <1>1, <3>1, <3>2 DEF MainLoop
  <2> QED
    BY <2>1, <2>2 DEF Types, At, Innermost
<1>2. CASE DeleteFile \/ UNCHANGED vars \/ CloseWindow \/ ThreadEnds \/ ClickReset
  <2>1. /\ UNCHANGED <<main, handlers, label_cmt, label_qd, pushed, stop_requested>>
        /\ running' \in {running, FALSE} /\ ended' \in {ended, TRUE}
        /\ reset_requested' \in {reset_requested, TRUE}
    BY <1>2 DEF DeleteFile, vars, CloseWindow, ThreadEnds, ClickReset, gtk
  <2>2. pushed' + Len(handlers') <= MaxClicks + (IF At("label")' THEN 1 ELSE 0)
    BY <2>1 DEF Types, At, Innermost
  <2>3. running' \in BOOLEAN /\ ended' \in BOOLEAN /\ reset_requested' \in BOOLEAN
    BY <2>1 DEF Types
  <2> QED
    BY <2>1, <2>2, <2>3, Zenon DEF main, Types
<1>3. ASSUME UNCHANGED <<main, stop_requested, reset_requested, running, ended>>,
             label_cmt' \in Tapes \cup Recordings \cup {NoFile}, label_qd' \in Disks \cup {NoFile},
             pushed' + Len(handlers') <= MaxClicks + (IF At("label")' THEN 1 ELSE 0)
      PROVE  Types'
  BY <1>3 DEF Types, main
<1>4. CASE ClickPlain
  <2>1. PICK c \in PlainCommands :
          Push(c) /\ handlers' = <<Handler(c, "label")>> \o handlers
    BY <1>4 DEF ClickPlain
  <2>2. c \in Commands /\ "label" \in Stages /\ Dispatching /\ pushed + Len(handlers) < MaxClicks
    BY <1>4 DEF Commands, Stages, ClickPlain, MayClick
  <2>3. Innermost' = "label" /\ Len(handlers') = Len(handlers) + 1 /\ pushed' = pushed + 1
    BY <2>1, <2>2, StackSteps, StackLengths DEF Push
  <2>4. At("label")'
    BY <2>3 DEF At
  <2> QED
    BY <1>0, <1>3, <1>4, <2>2, <2>3, <2>4 DEF ClickPlain, Types
<1>5. CASE ClickDialog
  <2>1. PICK c \in DialogCommands : handlers' = <<Handler(c, "dialog")>> \o handlers
    BY <1>5 DEF ClickDialog
  <2>2. c \in Commands /\ "dialog" \in Stages /\ Dispatching /\ pushed + Len(handlers) < MaxClicks
    BY <1>5 DEF Commands, Stages, ClickDialog, MayClick
  <2>3. Len(handlers') = Len(handlers) + 1
    BY <2>1, <2>2, StackLengths
  <2>4. pushed' + Len(handlers') <= MaxClicks
    BY <1>0, <1>5, <2>2, <2>3 DEF ClickDialog
  <2> QED
    BY <1>0, <1>3, <1>5, <2>3, <2>4 DEF ClickDialog, Types
<1>6. CASE Answer \/ AbandonDialog \/ DialogClosed
  <2>1. /\ handlers # <<>> /\ (Return \/ Step("closing") \/ Step("push")) /\ ~At("label")
        /\ UNCHANGED <<main, reset_requested, stop_requested, running, ended, label_cmt, label_qd,
                       pushed>>
    BY <1>6 DEF Answer, AbandonDialog, DialogClosed, At, Innermost
  <2>2. "closing" \in Stages /\ "push" \in Stages
    BY DEF Stages
  <2>3. Len(handlers') \in {Len(handlers), Len(handlers) - 1}
    BY <2>1, <2>2, StackLengths
  <2>4. pushed' + Len(handlers') <= MaxClicks
    BY <1>0, <2>1, <2>3 DEF Types
  <2>5. pushed' + Len(handlers') <= MaxClicks + (IF At("label")' THEN 1 ELSE 0)
    BY <1>0, <2>1, <2>3, <2>4
  <2> QED
    BY <1>3, <2>1, <2>5 DEF Types
<1>7. CASE PushChosen
  <2>1. handlers # <<>> /\ Push(Head(handlers).command) /\ Step("label") /\ ~At("label")
    BY <1>7 DEF PushChosen, At, Innermost
  <2>2. Innermost' = "label" /\ Len(handlers') = Len(handlers) /\ pushed' = pushed + 1
    BY <2>1, StackSteps, StackLengths DEF Push, Stages
  <2>3. At("label")'
    BY <2>2 DEF At
  <2> QED
    BY <1>0, <1>3, <1>7, <2>1, <2>2, <2>3 DEF PushChosen, Types
<1>8. CASE SetLabel
  <2>1. handlers # <<>> /\ Return /\ At("label")
    BY <1>8 DEF SetLabel, At, Innermost
  <2>2. Len(handlers') = Len(handlers) - 1 /\ Len(handlers) >= 1
    BY <2>1, StackLengths
  <2>3. Innermost' \in {"none", "closing"}
    BY <2>1, StackSteps
  <2>4. ~At("label")'
    BY <2>3 DEF At
  <2>5. PICK c \in Commands : c = Head(handlers).command
    BY <2>1, HandlerTypes
  <2>6. label_cmt' \in Tapes \cup Recordings \cup {NoFile} /\ label_qd' \in Disks \cup {NoFile}
    BY <1>8, <2>5, CommandTypes DEF SetLabel, Types
  <2> QED
    BY <1>0, <1>3, <1>8, <2>1, <2>2, <2>4, <2>6 DEF SetLabel, Types
<1> QED
  BY <1>1, <1>2, <1>4, <1>5, <1>6, <1>7, <1>8 DEF Next, Callbacks, User

(***************************************************************************)
(* The variables of both threads keep their types: in particular only      *)
(* recordings, tapes and nothing are in the deck and on its label.         *)
(***************************************************************************)
THEOREM TypeCorrect == Spec => []TypeOK
<1>1. IInv /\ MInv /\ Nested /\ Types => TypeOK
  <2> SUFFICES ASSUME IInv, MInv, Nested, Types PROVE TypeOK
    OBVIOUS
  <2>1. pushed \in 0 .. MaxClicks
    <3>1. pushed \in Nat /\ Len(handlers) \in Nat /\ (At("label") => Len(handlers) >= 1)
      BY StackLengths DEF IInv, Queues, At, Innermost
    <3> QED
      BY <3>1, ClickAssumption DEF Types
  <2>2. executed \in 0 .. MaxClicks /\ asked \in 0 .. MaxClicks /\ serving \in 0 .. MaxClicks
    <3>1. commands \in Seq(Commands) /\ Len(commands) \in Nat
      BY QueueLength DEF IInv, Queues
    <3> QED
      BY <2>1, <3>1, ClickAssumption DEF IInv, Queues, Counts
  <2> QED
    BY <2>1, <2>2 DEF TypeOK, Types, MInv, MediaTypes, IInv, Queues, Commands, Stages
<1>2. LInv => Nested
  BY DEF LInv
<1> QED
  BY InitIInv, NextIInv, InitMInv, NextMInv, InitLInv, NextLInv, InitTypes, NextTypes, <1>1, <1>2,
     PTL DEF Spec
=============================================================================
