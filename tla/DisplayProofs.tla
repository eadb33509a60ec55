--------------------------- MODULE DisplayProofs ---------------------------
(***************************************************************************)
(* The two tasks of the status display, for any number of bring-up         *)
(* commands, posts and failing calls.                                      *)
(***************************************************************************)
EXTENDS Display, TLAPS

Posted == [seq : 0..MaxPosts, blank : BOOLEAN]

(***************************************************************************)
(* How far the main task is says what there is of the queue and the task.  *)
(***************************************************************************)
Stages ==
  /\ main \in {"spi", "panel", "queue", "task", "post", "ready"}
  /\ main \in {"spi", "panel", "queue"} => ~s_status_queue
  /\ main \in {"spi", "panel", "queue", "task"} => task = "none"
  /\ main = "task" => s_status_queue /\ queue = <<>>
  /\ ~s_status_queue => queue = <<>>
  /\ main \in {"post", "ready"} => (s_status_queue <=> task # "none")
  /\ main # "ready" => s_display_state.seq = 0
  /\ main \in {"spi", "panel"} => cmd <= InitCommands

(***************************************************************************)
(* States age on their way from the post to the panel: the main task's is  *)
(* the latest, the queue holds that one or nothing, the display task's     *)
(* copy is older than what waits, and the panel never has anything newer   *)
(* than the copy.                                                          *)
(***************************************************************************)
Ages ==
  /\ state.seq <= s_display_state.seq
  /\ queue # <<>> => /\ Head(queue).seq = s_display_state.seq
                     /\ state.seq < s_display_state.seq
  /\ shown <= state.seq
  /\ colour = Garbage \/ colour <= state.seq

DInv == DisplayTypeOK /\ Stages /\ Ages /\ NoStaleMessage

-----------------------------------------------------------------------------
\* Posting takes the next number, and what waits then is the new state.
LEMMA PostFacts ==
  ASSUME NEW s \in Posted, DInv, Post(s)
  PROVE  /\ s_display_state' \in Posted
         /\ s_display_state'.seq = s_display_state.seq + 1
         /\ queue' \in Seq(Posted) /\ Len(queue') <= 1
         /\ queue' # <<>> => /\ s_status_queue
                             /\ Head(queue') = s_display_state'
<1> USE DisplayAssumption DEF Posted
<1>1. s_display_state \in Posted /\ s_display_state.seq < MaxPosts
  BY DEF DInv, DisplayTypeOK, Post
<1>2. s_display_state' = [s EXCEPT !.seq = s_display_state.seq + 1]
  BY DEF Post
<1>3. s_display_state' \in Posted
      /\ s_display_state'.seq = s_display_state.seq + 1
  BY <1>1, <1>2
<1>4. \/ s_status_queue /\ queue' = <<s_display_state'>>
      \/ queue' = <<>>
  BY DEF Post, DInv, Stages
<1> HIDE DEF Posted
<1>5. queue' \in Seq(Posted) /\ Len(queue') <= 1
  <2>1. \A d \in Posted : <<d>> \in Seq(Posted) /\ Len(<<d>>) <= 1
    OBVIOUS
  <2>2. <<>> \in Seq(Posted) /\ Len(<<>>) <= 1
    OBVIOUS
  <2>3. queue' = <<s_display_state'>> \/ queue' = <<>>
    BY <1>4
  <2> QED  BY <1>3, <2>1, <2>2, <2>3
<1>6. queue' # <<>> => s_status_queue
  BY <1>4
<1>7. queue' # <<>> => Head(queue') = s_display_state'
  <2>1. queue' = <<s_display_state'>> \/ queue' = <<>>
    BY <1>4
  <2>2. queue' = <<s_display_state'>> => Head(queue') = s_display_state'
    OBVIOUS
  <2> QED  BY <2>1, <2>2
<1> QED  BY <1>3, <1>5, <1>6, <1>7

\* What the steps of the main task during bring-up leave alone.
AgesKept == UNCHANGED <<s_display_state, queue, state, colour, text, shown>>

\* The bring-up, up to its post.
LEMMA BringUpStep ==
  ASSUME DInv, InitSpi \/ InitPanel \/ CreateQueue \/ CreateTask
  PROVE  DInv' /\ AgesKept
<1>1. AgesKept
  BY DEF InitSpi, InitPanel, CreateQueue, CreateTask, AgesKept, taskVars, panel
<1>2. faults' \in 0..MaxFaults
  BY FaultsAssumption
  DEF InitSpi, InitPanel, CreateQueue, CreateTask, Transfer, DInv,
      DisplayTypeOK
<1>3. cmd' \in 1..(InitCommands + 1)
      /\ (main' \in {"spi", "panel"} => cmd' <= InitCommands)
  <2>1. CASE InitSpi
    BY <2>1 DEF InitSpi, DInv, DisplayTypeOK, Stages
  <2>2. CASE InitPanel
    <3>1. /\ cmd \in 1..(InitCommands + 1) /\ cmd <= InitCommands
          /\ main = "panel"
      BY <2>2 DEF InitPanel, DInv, DisplayTypeOK, Stages
    <3>2. \/ /\ cmd' = cmd + 1
             /\ main' = IF cmd = InitCommands THEN "queue" ELSE "panel"
          \/ cmd' = cmd /\ main' = "queue"
      BY <2>2, Zenon DEF InitPanel
    <3> QED  BY <3>1, <3>2, DisplayAssumption
  <2>3. CASE CreateQueue \/ CreateTask
    BY <2>3 DEF CreateQueue, CreateTask, DInv, DisplayTypeOK
  <2> QED  BY <2>1, <2>2, <2>3
<1>4. /\ panelOn' \in BOOLEAN /\ s_status_queue' \in BOOLEAN
      /\ task' \in {"none", "receive", "fill", "text"}
  BY DEF InitSpi, InitPanel, CreateQueue, CreateTask, DInv, DisplayTypeOK,
         taskVars, panel
<1>5. Stages'
  <2>1. CASE InitSpi
    BY <1>3, <2>1 DEF InitSpi, DInv, Stages, taskVars
  <2>2. CASE InitPanel
    <3>1. /\ main = "panel" /\ main' \in {"queue", "panel"}
          /\ UNCHANGED <<s_status_queue, task, queue, s_display_state>>
      BY <2>2, Zenon DEF InitPanel, taskVars
    <3> QED  BY <1>3, <3>1 DEF DInv, Stages
  <2>3. CASE CreateQueue
    <3>1. /\ main = "queue"
          /\ UNCHANGED <<queue, task, s_display_state>>
          /\ \/ main' = "task" /\ s_status_queue'
             \/ main' = "ready" /\ s_status_queue' = s_status_queue
      BY <2>3, Zenon DEF CreateQueue, taskVars
    <3>2. task = "none" /\ ~s_status_queue /\ queue = <<>>
          /\ s_display_state.seq = 0
      BY <3>1 DEF DInv, Stages
    <3> QED  BY <1>3, <3>1, <3>2 DEF Stages
  <2>4. CASE CreateTask
    BY <1>3, <2>4 DEF CreateTask, DInv, Stages
  <2> QED  BY <2>1, <2>2, <2>3, <2>4
<1>6. DisplayTypeOK'
  BY <1>1, <1>2, <1>3, <1>4, <1>5
  DEF DInv, DisplayTypeOK, AgesKept, Stages, Garbage
<1>7. Ages' /\ NoStaleMessage'
  BY <1>1 DEF DInv, Ages, NoStaleMessage, AgesKept, Garbage
<1> QED  BY <1>1, <1>5, <1>6, <1>7 DEF DInv

\* A post, by the bring-up or by a caller.
LEMMA PostStep ==
  ASSUME DInv, PostBoot \/ Caller
  PROVE  /\ DInv'
         /\ UNCHANGED <<s_status_queue, task, state, shown>>
         /\ s_display_state'.seq = s_display_state.seq + 1
         /\ main \in {"post", "ready"}
<1>1. PICK s \in Posted : Post(s)
  <2>1. s_display_state \in Posted
        /\ \A e \in BOOLEAN :
             [s_display_state EXCEPT !.blank = e] \in Posted
    BY DEF DInv, DisplayTypeOK, Posted
  <2> QED  BY <2>1 DEF PostBoot, Caller, SetStatus, SetMessage
<1>2. /\ main \in {"post", "ready"} /\ main' = "ready"
      /\ UNCHANGED <<cmd, s_status_queue, task, state, panelOn, colour, text,
                     shown, faults>>
  BY DEF PostBoot, Caller, SetStatus, SetMessage, taskVars, panel
<1>3. /\ s_display_state' \in Posted
      /\ s_display_state'.seq = s_display_state.seq + 1
      /\ queue' \in Seq(Posted) /\ Len(queue') <= 1
      /\ queue' # <<>> => s_status_queue /\ Head(queue') = s_display_state'
  BY <1>1, PostFacts
<1>4. DisplayTypeOK'
  BY <1>2, <1>3 DEF DInv, DisplayTypeOK, Posted, Garbage
<1>5. Stages'
  BY <1>2, <1>3 DEF DInv, Stages
<1>6. Ages' /\ NoStaleMessage'
  <2>1. state.seq \in Nat /\ s_display_state.seq \in Nat
    BY DisplayAssumption DEF DInv, DisplayTypeOK
  <2> QED
    BY <1>2, <1>3, <2>1 DEF DInv, Ages, NoStaleMessage, Garbage
<1> QED  BY <1>2, <1>3, <1>4, <1>5, <1>6 DEF DInv

\* The display task takes out what waits, which is newer than what it had.
LEMMA ReceiveStep ==
  ASSUME DInv, Receive
  PROVE  /\ DInv'
         /\ UNCHANGED <<s_status_queue, s_display_state, shown>>
         /\ task # "none" /\ task' # "none"
<1>1. /\ task = "receive" /\ queue # <<>> /\ task' = "fill"
      /\ state' = Head(queue) /\ queue' = Tail(queue)
      /\ UNCHANGED <<main, cmd, s_display_state, s_status_queue, panelOn,
                     colour, text, shown, faults>>
  BY DEF Receive, mainVars, panel
<1>2. queue \in Seq(Posted) /\ Len(queue) <= 1
  BY DEF DInv, DisplayTypeOK, Posted
<1>3. Head(queue) \in Posted /\ Tail(queue) = <<>>
  BY <1>1, <1>2
<1>4. DisplayTypeOK'
  <2>1. queue' \in Seq(Posted) /\ Len(queue') <= 1
    <3>1. queue' = <<>>
      BY <1>1, <1>3
    <3> QED  BY ONLY <3>1
  <2> QED  BY <1>1, <1>3, <2>1 DEF DInv, DisplayTypeOK, Posted, Garbage
<1>5. Stages'
  BY <1>1, <1>3 DEF DInv, Stages
<1>6. Ages' /\ NoStaleMessage'
  <2>1. /\ state.seq \in Nat /\ s_display_state.seq \in Nat
        /\ shown \in Nat /\ colour \in Nat
    BY DisplayAssumption DEF DInv, DisplayTypeOK, Garbage
  <2>2. /\ state'.seq = s_display_state.seq
        /\ state.seq < s_display_state.seq
    BY <1>1 DEF DInv, Ages
  <2> QED
    BY <1>1, <1>3, <2>1, <2>2 DEF DInv, Ages, NoStaleMessage, Garbage
<1> QED  BY <1>1, <1>4, <1>5, <1>6 DEF DInv

\* Drawing changes the panel only: the colour becomes the state's, or torn,
\* and the text is the state's only on that colour.
LEMMA DrawStep ==
  ASSUME DInv, Fill \/ DrawText
  PROVE  /\ DInv'
         /\ UNCHANGED <<s_status_queue, s_display_state, state>>
         /\ shown' \in {shown, state.seq}
         /\ task # "none" /\ task' # "none"
<1>1. /\ task \in {"fill", "text"} /\ task' \in {"receive", "text"}
      /\ UNCHANGED <<main, cmd, s_display_state, s_status_queue, queue, state,
                     panelOn>>
  BY DEF Fill, DrawText, mainVars
<1>2. shown' \in {shown, state.seq}
  BY DEF Fill, DrawText, Drawn
<1>3. /\ state.seq \in 0..MaxPosts /\ colour \in 0..Garbage
      /\ text \in 0..Garbage /\ shown \in 0..MaxPosts /\ Garbage \in Nat
      /\ Garbage = MaxPosts + 1 /\ MaxPosts \in Nat
  BY DisplayAssumption DEF DInv, DisplayTypeOK, Garbage
<1>4. faults' \in 0..MaxFaults
  BY FaultsAssumption DEF Fill, DrawText, Transfer, DInv, DisplayTypeOK
<1>5. \/ colour' = state.seq /\ text' = 0
      \/ colour' = Garbage /\ text' \in {text, 0, Garbage}
      \/ colour' = colour /\ text' \in {text, state.seq, Garbage}
  BY DEF Fill, DrawText
<1>6. DisplayTypeOK'
  <2>1. /\ colour' \in 0..Garbage /\ text' \in 0..Garbage
        /\ shown' \in 0..MaxPosts
    BY <1>2, <1>3, <1>5
  <2>2. UNCHANGED Garbage
    BY DEF Garbage
  <2> QED  BY <1>1, <1>4, <2>1, <2>2 DEF DInv, DisplayTypeOK
<1>7. Stages'
  BY <1>1 DEF DInv, Stages
<1>8. Ages' /\ NoStaleMessage'
  <2> USE <1>3
  <2>1. shown <= state.seq /\ (colour = Garbage \/ colour <= state.seq)
    BY DEF DInv, Ages
  <2>2. text \in 1..MaxPosts => colour = Garbage \/ colour <= text
    BY DEF DInv, NoStaleMessage
  <2>3. shown' <= state.seq /\ (colour' = Garbage \/ colour' <= state.seq)
    BY <1>2, <1>5, <2>1
  <2>4. text' \in 1..MaxPosts => colour' = Garbage \/ colour' <= text'
    BY <1>5, <2>1, <2>2
  <2> QED
    BY <1>1, <2>3, <2>4 DEF DInv, Ages, NoStaleMessage, Garbage
<1> QED  BY <1>1, <1>2, <1>6, <1>7, <1>8 DEF DInv

-----------------------------------------------------------------------------
LEMMA DisplayStep ==
  ASSUME DInv, [Next]_vars
  PROVE  DInv'
<1>1. CASE BringUp
  BY <1>1, BringUpStep, PostStep DEF BringUp
<1>2. CASE Caller
  BY <1>2, PostStep
<1>3. CASE DisplayTask
  BY <1>3, ReceiveStep, DrawStep DEF DisplayTask
<1>4. CASE UNCHANGED vars
  BY <1>4
  DEF DInv, DisplayTypeOK, Stages, Ages, NoStaleMessage, vars, mainVars,
      taskVars, panel, Garbage
<1> QED  BY <1>1, <1>2, <1>3, <1>4 DEF Next

LEMMA DInvInit == Init => DInv
<1> SUFFICES ASSUME Init PROVE DInv
  OBVIOUS
<1> USE DisplayAssumption, FaultsAssumption DEF Init
<1>1. NoState \in Posted /\ NoState.seq = 0
  BY DEF NoState, Posted
<1>2. queue \in Seq(Posted) /\ Len(queue) <= 1
  <2>1. queue = <<>>
    OBVIOUS
  <2> QED  BY ONLY <2>1
<1>3. DisplayTypeOK
  <2>1. cmd \in 1..(InitCommands + 1) /\ faults \in 0..MaxFaults
    OBVIOUS
  <2>2. colour \in 0..Garbage /\ text \in 0..Garbage /\ shown \in 0..MaxPosts
    BY DEF Garbage
  <2> QED  BY <1>1, <1>2, <2>1, <2>2 DEF DisplayTypeOK, Posted
<1>4. Stages
  BY <1>1 DEF Stages
<1>5. Ages /\ NoStaleMessage
  BY <1>1 DEF Ages, NoStaleMessage, Garbage
<1> QED  BY <1>3, <1>4, <1>5 DEF DInv

\* The invariant of the two tasks: types, how far the main task is, and the
\* ages of the states.
THEOREM DisplayInvariant == Spec => []DInv
BY DInvInit, DisplayStep, PTL DEF Spec

\* Every variable of the two tasks keeps its type, and at most one state
\* waits in the queue.
THEOREM DisplayTypeCorrect == Spec => []DisplayTypeOK
<1>1. DInv => DisplayTypeOK
  BY DEF DInv
<1> QED  BY <1>1, DisplayInvariant, PTL

\* The SPI device has one user at a time, and a display task exists exactly
\* when posts have a queue to go to, however the bring-up ended.
THEOREM DisplayOneSpiUser == Spec => []OneSpiUser
<1>1. DInv => OneSpiUser
  BY DEF DInv, Stages, OneSpiUser
<1> QED  BY <1>1, DisplayInvariant, PTL

\* Whatever transfers fail, no message stays on the colour of a later status.
THEOREM DisplayNoStaleMessage == Spec => []NoStaleMessage
<1>1. DInv => NoStaleMessage
  BY DEF DInv
<1> QED  BY <1>1, DisplayInvariant, PTL

\* The display implements the safety half of LatestValue: what is completely
\* on the panel are posted states, in the order of their posts.
THEOREM DisplayInOrder == Spec => InOrder
<1>1. Init => Mailbox!Init
  BY DEF Init, PostedSeq, Mailbox!Init
<1>2. DInv /\ [Next]_vars => [Mailbox!Next]_<<PostedSeq, shown>>
  <2> SUFFICES ASSUME DInv, [Next]_vars
               PROVE  Mailbox!Next \/ UNCHANGED <<PostedSeq, shown>>
    OBVIOUS
  <2>1. CASE InitSpi \/ InitPanel \/ CreateQueue \/ CreateTask
    <3>1. AgesKept /\ DInv' /\ s_display_state.seq = 0
      BY <2>1, BringUpStep
      DEF InitSpi, InitPanel, CreateQueue, CreateTask, DInv, Stages
    <3> QED  BY <3>1 DEF AgesKept, PostedSeq
  <2>2. CASE PostBoot \/ Caller
    <3>1. /\ UNCHANGED <<s_status_queue, task, shown>>
          /\ s_display_state'.seq = s_display_state.seq + 1
          /\ s_status_queue <=> task # "none"
      BY <2>2, PostStep DEF DInv, Stages
    <3> QED  BY <3>1 DEF PostedSeq, Mailbox!Next, Mailbox!Post
  <2>3. CASE Receive
    BY <2>3, ReceiveStep DEF PostedSeq
  <2>4. CASE Fill \/ DrawText
    <3>1. /\ UNCHANGED <<s_status_queue, s_display_state>>
          /\ shown' \in {shown, state.seq}
          /\ task # "none" /\ task' # "none"
      BY <2>4, DrawStep
    <3>2. s_status_queue
      BY <3>1 DEF DInv, Stages
    <3>3. /\ shown \in Nat /\ state.seq \in Nat /\ s_display_state.seq \in Nat
          /\ shown <= state.seq /\ state.seq <= s_display_state.seq
      BY DisplayAssumption DEF DInv, DisplayTypeOK, Ages
    <3>4. PostedSeq = s_display_state.seq /\ UNCHANGED PostedSeq
      BY <3>1, <3>2 DEF PostedSeq
    <3> QED  BY <3>1, <3>3, <3>4 DEF Mailbox!Next, Mailbox!Show
  <2>5. CASE UNCHANGED vars
    BY <2>5 DEF vars, mainVars, taskVars, PostedSeq
  <2> QED
    BY <2>1, <2>2, <2>3, <2>4, <2>5 DEF Next, BringUp, Caller, DisplayTask
<1> QED
  BY <1>1, <1>2, DisplayInvariant, PTL DEF Spec, InOrder, Mailbox!Safety
=============================================================================
