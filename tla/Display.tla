------------------------------ MODULE Display ------------------------------
(***************************************************************************)
(* The status display, src/src/m5boards/pico_fido2_display.c: the main     *)
(* task brings the panel up and posts states into a queue of length one,   *)
(* the display task takes them out and draws them.                         *)
(*                                                                         *)
(* A display state is the number of the post that made it, and whether its *)
(* two lines are empty.  Of the panel's contents only which state's colour *)
(* and which state's text is on it.  Any SPI transfer may fail; the drawing *)
(* code gives up the fill, or the character cell, that it was in.          *)
(***************************************************************************)
EXTENDS I2cBus, Sequences

CONSTANTS
  InitCommands,  (* Commands of the panel's bring-up: 6 with inversion.    *)
  MaxPosts       (* Bound of the checks: states posted.                    *)

ASSUME DisplayAssumption == InitCommands \in Nat \ {0} /\ MaxPosts \in Nat

VARIABLES
  main,            (* Where the main task is.                              *)
  cmd,             (* Next command of the bring-up.                        *)
  panelOn,         (* The panel has received all of them.                  *)
  s_status_queue,  (* The static is not NULL.                              *)
  queue,           (* Contents of the queue: at most one state.            *)
  s_display_state, (* The state under construction, main task only.        *)
  task,            (* Where the display task is; "none" before it exists.  *)
  state,           (* Its local copy.                                      *)
  colour,          (* Panel: state whose colour fills it; Garbage if torn. *)
  text,            (* Panel: state whose text is on it, 0 if none.         *)
  shown            (* History: the state completely on the panel last.     *)

mainVars == <<main, cmd, s_display_state>>
taskVars == <<task, state>>
panel == <<panelOn, colour, text>>
vars == <<mainVars, s_status_queue, queue, taskVars, panel, shown, faults>>

Garbage == MaxPosts + 1
NoState == [seq |-> 0, blank |-> TRUE]

(***************************************************************************)
(* The main task.                                                          *)
(***************************************************************************)

\* Mutations of xQueueOverwrite: the new state is queued behind the old one;
\* in front of it; a full queue keeps the old one.
PostBehind(s) ==
  /\ s_display_state.seq < MaxPosts
  /\ s_display_state' = [s EXCEPT !.seq = s_display_state.seq + 1]
  /\ queue' = IF s_status_queue THEN Append(queue, s_display_state') ELSE queue

PostInFront(s) ==
  /\ s_display_state.seq < MaxPosts
  /\ s_display_state' = [s EXCEPT !.seq = s_display_state.seq + 1]
  /\ queue' = IF s_status_queue THEN <<s_display_state'>> \o queue ELSE queue

PostIfEmpty(s) ==
  /\ s_display_state.seq < MaxPosts
  /\ s_display_state' = [s EXCEPT !.seq = s_display_state.seq + 1]
  /\ queue' = IF s_status_queue /\ queue = <<>> THEN <<s_display_state'>>
              ELSE queue

\* Mutation: xQueueSend, which waits for room, in place of xQueueOverwrite.
PostWhenEmpty(s) ==
  /\ s_display_state.seq < MaxPosts /\ queue = <<>>
  /\ s_display_state' = [s EXCEPT !.seq = s_display_state.seq + 1]
  /\ queue' = IF s_status_queue THEN <<s_display_state'>> ELSE queue

\* display_queue_state: xQueueOverwrite if there is a queue.
Post(s) ==
  /\ s_display_state.seq < MaxPosts
  /\ s_display_state' = [s EXCEPT !.seq = s_display_state.seq + 1]
  /\ queue' = IF s_status_queue THEN <<s_display_state'>> ELSE queue

\* spi_bus_initialize and spi_bus_add_device.
InitSpi ==
  /\ main = "spi"
  /\ \/ Transfer(TRUE, TRUE) /\ main' = "panel"
     \/ Transfer(FALSE, FALSE) /\ main' = "ready"
  /\ UNCHANGED <<cmd, s_display_state, s_status_queue, queue, taskVars, panel,
                 shown>>

\* One command; the first failure skips the rest but not what follows them.
InitPanel ==
  /\ main = "panel"
  /\ \/ /\ Transfer(TRUE, TRUE)
        /\ cmd' = cmd + 1
        /\ main' = IF cmd = InitCommands THEN "queue" ELSE "panel"
        /\ panelOn' = (cmd = InitCommands)
     \/ /\ Transfer(FALSE, FALSE)
        /\ main' = "queue" /\ UNCHANGED <<cmd, panelOn>>
  /\ UNCHANGED <<s_display_state, s_status_queue, queue, taskVars, colour,
                 text, shown>>

CreateQueue ==
  /\ main = "queue"
  /\ \/ Transfer(TRUE, TRUE) /\ s_status_queue' = TRUE /\ main' = "task"
     \/ Transfer(FALSE, FALSE) /\ main' = "ready" /\ UNCHANGED s_status_queue
  /\ UNCHANGED <<cmd, s_display_state, queue, taskVars, panel, shown>>

\* Mutation: the static keeps the handle of the deleted queue.
CreateTaskKeepsQueue ==
  /\ main = "task"
  /\ \/ Transfer(TRUE, TRUE) /\ task' = "receive" /\ main' = "post"
     \/ Transfer(FALSE, FALSE) /\ main' = "ready" /\ UNCHANGED task
  /\ UNCHANGED <<cmd, s_display_state, s_status_queue, queue, state, panel,
                 shown>>

\* If the task cannot be created the queue is deleted again.
CreateTask ==
  /\ main = "task"
  /\ \/ Transfer(TRUE, TRUE) /\ task' = "receive" /\ main' = "post"
        /\ UNCHANGED s_status_queue
     \/ Transfer(FALSE, FALSE) /\ s_status_queue' = FALSE /\ main' = "ready"
        /\ UNCHANGED task
  /\ UNCHANGED <<cmd, s_display_state, queue, state, panel, shown>>

\* The end of pf2_display_init posts the boot status.
PostBoot ==
  /\ main = "post" /\ main' = "ready"
  /\ Post(s_display_state)
  /\ UNCHANGED <<cmd, s_status_queue, taskVars, panel, shown, faults>>

\* pf2_display_set_status, which keeps the lines.
SetStatus ==
  /\ main = "ready"
  /\ Post(s_display_state)
  /\ UNCHANGED <<main, cmd, s_status_queue, taskVars, panel, shown, faults>>

\* pf2_display_set_message, which keeps the status.
SetMessage(empty) ==
  /\ main = "ready"
  /\ Post([s_display_state EXCEPT !.blank = empty])
  /\ UNCHANGED <<main, cmd, s_status_queue, taskVars, panel, shown, faults>>

(***************************************************************************)
(* The display task.                                                       *)
(***************************************************************************)

Receive ==
  /\ task = "receive" /\ queue # <<>>
  /\ state' = Head(queue) /\ queue' = Tail(queue)
  /\ task' = "fill"
  /\ UNCHANGED <<mainVars, s_status_queue, panel, shown, faults>>

\* History: the state is on the panel, colour and text, and nothing else is.
Drawn ==
  shown' = IF /\ task' = "receive" /\ colour' = state.seq
              /\ text' = (IF state.blank THEN 0 ELSE state.seq)
           THEN state.seq ELSE shown

\* Mutation: the old text is drawn over, not wiped.
FillAroundText ==
  /\ task = "fill"
  /\ Transfer(TRUE, TRUE) /\ colour' = state.seq /\ UNCHANGED text
  /\ task' = IF state.blank THEN "receive" ELSE "text"
  /\ Drawn
  /\ UNCHANGED <<mainVars, s_status_queue, queue, state, panelOn>>

\* lcd_fill: complete, even if its last transaction reports a failure, torn by
\* a failure on the way, or given up before the first pixel.  Filling the panel
\* wipes the text.
Fill ==
  /\ task = "fill"
  /\ \/ \E ok \in BOOLEAN : Transfer(ok, TRUE)
        /\ colour' = state.seq /\ text' = 0
     \/ Transfer(FALSE, TRUE) /\ colour' = Garbage
        /\ text' \in {text, 0, Garbage}
     \/ Transfer(FALSE, FALSE) /\ UNCHANGED <<colour, text>>
  /\ task' = IF state.blank THEN "receive" ELSE "text"
  /\ Drawn
  /\ UNCHANGED <<mainVars, s_status_queue, queue, state, panelOn>>

\* Both lines.  Over text that was not wiped, or with cells missing, what
\* comes out is no state's text; if nothing gets through, what was there stays.
DrawText ==
  /\ task = "text"
  /\ \/ \E ok \in BOOLEAN : Transfer(ok, TRUE)
        /\ text' = IF text = 0 THEN state.seq ELSE Garbage
     \/ \E reached \in BOOLEAN : Transfer(FALSE, reached)
        /\ text' \in {text, Garbage}
  /\ task' = "receive"
  /\ UNCHANGED colour /\ Drawn
  /\ UNCHANGED <<mainVars, s_status_queue, queue, state, panelOn>>

(***************************************************************************)
(* The specification.                                                      *)
(***************************************************************************)
Init ==
  /\ main = "spi" /\ cmd = 1 /\ panelOn = FALSE
  /\ s_status_queue = FALSE /\ queue = <<>>
  /\ s_display_state = NoState
  /\ task = "none" /\ state = NoState
  /\ colour = 0 /\ text = 0 /\ shown = 0
  /\ faults = MaxFaults

BringUp == InitSpi \/ InitPanel \/ CreateQueue \/ CreateTask \/ PostBoot
Caller == SetStatus \/ \E empty \in BOOLEAN : SetMessage(empty)
DisplayTask == Receive \/ Fill \/ DrawText

Next == BringUp \/ Caller \/ DisplayTask

\* Both tasks run; nobody has to call set_status or set_message.
Spec == Init /\ [][Next]_vars /\ WF_vars(BringUp) /\ WF_vars(DisplayTask)

-----------------------------------------------------------------------------
DisplayTypeOK ==
  /\ main \in {"spi", "panel", "queue", "task", "post", "ready"}
  /\ cmd \in 1..(InitCommands + 1)
  /\ panelOn \in BOOLEAN /\ s_status_queue \in BOOLEAN
  /\ s_display_state \in [seq : 0..MaxPosts, blank : BOOLEAN]
  /\ queue \in Seq([seq : 0..MaxPosts, blank : BOOLEAN]) /\ Len(queue) <= 1
  /\ task \in {"none", "receive", "fill", "text"}
  /\ state \in [seq : 0..MaxPosts, blank : BOOLEAN]
  /\ colour \in 0..Garbage /\ text \in 0..Garbage
  /\ shown \in 0..MaxPosts
  /\ faults \in 0..MaxFaults

\* The D/C line and the SPI device have one user at a time: while the main
\* task sends the bring-up commands there is no display task, and a display
\* task exists exactly when posts have a queue to go to.
OneSpiUser ==
  /\ main \in {"spi", "panel"} => task = "none"
  /\ main \in {"post", "ready"} => (s_status_queue <=> task # "none")

\* A message never outlives its status: whatever fails, the text of a state
\* is never left on the colour of a later one.  (The other way round happens:
\* lcd_fill fails silently, and the new text is drawn on the old colour.)
NoStaleMessage == text \in 1..MaxPosts => colour = Garbage \/ colour <= text

PostedSeq == IF s_status_queue /\ task # "none" THEN s_display_state.seq ELSE 0

Mailbox == INSTANCE LatestValue WITH posted <- PostedSeq

\* The display shows posted states in the order of the posts, ...
InOrder == Mailbox!Safety

\* ... and if nothing fails it gets to the latest one: overwriting loses
\* states in between, never the last.
LatestShown == [](faults = MaxFaults) => Mailbox!GetsToLatest
=============================================================================
