--------------------------- MODULE PresenceProofs ---------------------------
(***************************************************************************)
(* Proofs about user presence for both boards, every set of keys, FIFO     *)
(* depth and timeout, and any number of failures and restarts.             *)
(*                                                                         *)
(* The keypad driver's invariant IInv is taken over from Tca8418Proofs:    *)
(* seen from the driver, a step of the task is a step of TcaNext, one that *)
(* only uses up a failure, or a restart.                                   *)
(***************************************************************************)
EXTENDS Presence, Tca8418Proofs

\* Where the task is says which call it is in and whether a request is open.
Calling ==
  /\ ppc \in {"off", "idle"} => call = "none"
  /\ Initialising => call # "none"
  /\ ppc \in {"poll", "scan", "pollB"} => call \in {"poll", "wait"}
  /\ ppc = "delay" => call = "wait" /\ polled
  /\ request = "open" <=> call \in {"poll", "wait"}

\* ... and whether the driver is at work, and in which of its functions.
Driving ==
  /\ ppc = "keypad" => Keyboard /\ op = "init" /\ tpc # "idle"
  /\ ppc = "scan" => Keyboard /\ op = "poll" /\ tpc # "idle"
  /\ ppc \notin {"keypad", "scan"} => tpc = "idle"
  /\ ppc \in {"sampleA", "sampleB", "pollB"} => Buttons

\* What initialisation has established so far.
Ready ==
  /\ ppc \in {"off", "early"} => ~s_board
  /\ ppc \in {"peripherals", "keypad", "sampleA", "sampleB"} =>
       s_board /\ s_internal_i2c /\ ~s_presence_initialized
  /\ ppc \in {"sampleA", "sampleB"} => gpioReady
  /\ ~s_board => ~s_presence_initialized
  /\ s_presence_initialized => s_internal_i2c /\ (Buttons => gpioReady)

\* What it has established about the keypad.
DeviceReady ==
  /\ tpc \in {"write", "event", "clear"} => dev
  /\ tpc = "done" /\ op = "init" /\ ret => dev

KeypadInitialized ==
  s_presence_initialized /\ Keyboard => dev /\ MatrixRegisters \subseteq matrix

KeypadInv == Written /\ DeviceReady /\ KeypadInitialized

PInv == IInv /\ PresenceTypeOK /\ Calling /\ Driving /\ Ready

(***************************************************************************)
(* The driver's view of a step.                                            *)
(***************************************************************************)
LEMMA BoardKinds == Keyboard # Buttons /\ Keyboard \in BOOLEAN /\ Buttons \in BOOLEAN
BY BoardAssumption
DEF Keyboard, Buttons, Board, cardputer_adv_desc, stick_s3_desc

FaultOnly ==
  /\ UNCHANGED <<chip, driver>>
  /\ faults > 0 /\ faults' = faults - 1

DriverLost ==
  /\ dev' = FALSE /\ op' = "none" /\ tpc' = "idle" /\ n' = 0
  /\ event' = "none" /\ ret' = FALSE /\ clean' = TRUE /\ backlog' = 0
  /\ UNCHANGED <<chip, faults>>

\* Buttons go up and down without an event.
ButtonMoves ==
  /\ down' \in SUBSET (down \cup Keys)
  /\ UNCHANGED <<matrix, fifo, driver, faults>>

LEMMA DriverView ==
  ASSUME Next
  PROVE  [TcaNext]_tcaVars \/ FaultOnly \/ (Restart /\ DriverLost) \/ ButtonMoves
<1> USE DEF Next
<1>1. CASE Boot \/ SampleA \/ SampleB \/ PollButtonA \/ PollButtonB \/ Delay \/ Host
  BY <1>1
  DEF Boot, SampleA, SampleB, PollButtonA, PollButtonB, Delay, Host, Ask
<1>2. CASE InitEarly
  BY <1>2 DEF InitEarly, Transfer, tcaVars, FaultOnly
<1>3. CASE InitPeripherals
  BY <1>3 DEF InitPeripherals, Transfer, tcaVars, FaultOnly, TcaNext
<1>4. CASE KeypadReady \/ KeypadPolled \/ PollKeypad
  BY <1>4 DEF KeypadReady, KeypadPolled, PollKeypad, TcaNext
<1>5. CASE KeypadStep
  BY <1>5 DEF KeypadStep, TcaNext
<1>6. CASE Restart
  BY <1>6 DEF Restart, DriverLost
<1>7. CASE \E k \in Keys : UserStep(k)
  <2>1. PICK k \in Keys : UserStep(k)
    BY <1>7
  <2>2. CASE PressKey(k) \/ ReleaseKey(k)
    BY <2>2 DEF PressKey, ReleaseKey, TcaNext, User
  <2>3. CASE PressButton(k) \/ ReleaseButton(k)
    BY <2>3 DEF PressButton, ReleaseButton, ButtonMoves
  <2> QED BY <2>1, <2>2, <2>3 DEF UserStep
<1> QED
  BY <1>1, <1>2, <1>3, <1>4, <1>5, <1>6, <1>7 DEF Firmware

LEMMA DriverIInv == IInv /\ [Next]_vars => IInv'
<1> SUFFICES ASSUME IInv, [Next]_vars PROVE IInv'
  OBVIOUS
<1> USE DEF IInv
<1>0. /\ fifo \in Seq(Events) /\ Len(fifo) \in Nat /\ Len(fifo) <= FifoDepth
      /\ FlagsOK
  BY LenProperties DEF TcaTypeOK, FlagsOK
<1>1. CASE UNCHANGED vars
  <2>1. UNCHANGED tcaVars
    BY <1>1 DEF vars
  <2> QED BY <2>1, NextIInv
<1>2. CASE [TcaNext]_tcaVars
  BY <1>2, NextIInv
<1>3. CASE FaultOnly
  <2>1. UNCHANGED <<down, matrix, fifo, dev, op, tpc, n, event, ret, clean, backlog>>
    BY <1>3 DEF FaultOnly, chip, driver
  <2>2. faults' \in 0..MaxFaults
    BY <1>3, FaultsAssumption DEF FaultOnly, TcaTypeOK
  <2>3. TcaTypeOK'
    BY <2>1, <2>2 DEF TcaTypeOK
  <2> QED BY <2>1, <2>3 DEF Where, Countdown, DrainComplete
<1>4. CASE DriverLost
  <2>1. UNCHANGED <<down, matrix, fifo, faults>>
    BY <1>4 DEF DriverLost, chip
  <2>2. FlagsOK'
    BY <1>4 DEF DriverLost, FlagsOK
  <2>3. /\ op' = "none" /\ tpc' = "idle" /\ n' = 0 /\ event' = "none"
        /\ backlog' = 0
    BY <1>4 DEF DriverLost
  <2>4. TcaTypeOK'
    BY <2>1, <2>2, <2>3, FifoAssumption DEF TcaTypeOK, FlagsOK
  <2>5. Where' /\ DrainComplete'
    BY <2>3 DEF Where, DrainComplete
  <2>6. Countdown'
    BY <1>0, <2>1, <2>3 DEF Countdown
  <2> QED BY <2>4, <2>5, <2>6
<1>5. CASE ButtonMoves
  <2>1. UNCHANGED <<matrix, fifo, dev, op, tpc, n, event, ret, clean, backlog, faults>>
    BY <1>5 DEF ButtonMoves, driver
  <2>2. down' \subseteq Keys
    BY <1>5 DEF ButtonMoves, TcaTypeOK
  <2>3. TcaTypeOK'
    BY <2>1, <2>2 DEF TcaTypeOK
  <2> QED BY <2>1, <2>3 DEF Where, Countdown, DrainComplete
<1> QED BY <1>1, <1>2, <1>3, <1>4, <1>5, DriverView

(***************************************************************************)
(* What the driver does while the task waits for it.                       *)
(***************************************************************************)
LEMMA DriverStepKeeps ==
  ASSUME DriverStep
  PROVE  op' = op /\ tpc # "idle" /\ tpc' # "idle"
BY DEF DriverStep, AddDevice, WriteRegister, ReadCount, ReadEvent,
       ClearInterrupt, Finish, Continue

(***************************************************************************)
(* Types.                                                                  *)
(***************************************************************************)
TaskTypeOK ==
  /\ ppc \in {"off", "idle", "early", "peripherals", "keypad", "sampleA",
              "sampleB", "poll", "scan", "pollB", "delay"}
  /\ call \in {"none", "boot", "poll", "wait"}
  /\ request \in {"none", "open", "confirmed", "refused"}

TimesTypeOK ==
  /\ timeout \in Timeouts \cup {0}
  /\ clock \in Nat /\ (timeout # 0 => clock <= timeout)

StaticsTypeOK ==
  /\ s_board \in BOOLEAN /\ s_presence_initialized \in BOOLEAN
  /\ s_gpio_last_pressed \in BOOLEAN /\ s_internal_i2c \in BOOLEAN
  /\ gpioReady \in BOOLEAN /\ polled \in BOOLEAN

LEMMA TypeParts ==
  PresenceTypeOK <=> /\ TaskTypeOK /\ TimesTypeOK /\ StaticsTypeOK
                     /\ restarts \in 0..MaxRestarts
BY DEF PresenceTypeOK, TaskTypeOK, TimesTypeOK, StaticsTypeOK

LEMMA TaskTypeStep ==
  ASSUME TaskTypeOK, Next
  PROVE  TaskTypeOK'
<1> USE DEF TaskTypeOK
<1>1. CASE Boot \/ Restart \/ Host
  BY <1>1 DEF Boot, Restart, Host, Ask
<1>2. CASE InitEarly \/ InitPeripherals
  BY <1>2 DEF InitEarly, InitPeripherals, InitReturns, Answer, Leave, callVars
<1>3. CASE KeypadReady \/ SampleA \/ SampleB
  BY <1>3 DEF KeypadReady, SampleA, SampleB, InitReturns, Answer, Leave, callVars
<1>4. CASE PollKeypad \/ KeypadPolled
  BY <1>4 DEF PollKeypad, KeypadPolled, PollReturns, Answer, Leave, callVars
<1>5. CASE PollButtonA \/ PollButtonB
  BY <1>5 DEF PollButtonA, PollButtonB, RisingEdge, PollReturns, Answer, Leave, callVars
<1>6. CASE Delay
  BY <1>6 DEF Delay, Leave, callVars
<1>7. CASE KeypadStep \/ \E k \in Keys : UserStep(k)
  BY <1>7 DEF KeypadStep, UserStep, PressKey, ReleaseKey, PressButton,
              ReleaseButton, presenceVars, callVars
<1> QED
  BY <1>1, <1>2, <1>3, <1>4, <1>5, <1>6, <1>7 DEF Next, Firmware

LEMMA TimesTypeStep ==
  ASSUME TimesTypeOK, Next
  PROVE  TimesTypeOK'
<1> USE TimeoutsAssumption DEF TimesTypeOK
<1>1. CASE Boot \/ Restart \/ Host
  BY <1>1 DEF Boot, Restart, Host, Ask
<1>2. CASE InitEarly \/ InitPeripherals
  <2>1. UNCHANGED clock /\ (UNCHANGED timeout \/ timeout' = 0)
    BY <1>2 DEF InitEarly, InitPeripherals, InitReturns, Answer, Leave, callVars
  <2> QED BY <2>1
<1>3. CASE KeypadReady \/ SampleA \/ SampleB
  BY <1>3 DEF KeypadReady, SampleA, SampleB, InitReturns, Answer, Leave, callVars
<1>4. CASE PollKeypad \/ KeypadPolled
  BY <1>4 DEF PollKeypad, KeypadPolled, PollReturns, Answer, Leave, callVars
<1>5. CASE PollButtonA \/ PollButtonB
  BY <1>5 DEF PollButtonA, PollButtonB, RisingEdge, PollReturns, Answer, Leave, callVars
<1>6. CASE Delay
  BY <1>6 DEF Delay, Readings, Leave, callVars
<1>7. CASE KeypadStep \/ \E k \in Keys : UserStep(k)
  BY <1>7 DEF KeypadStep, UserStep, PressKey, ReleaseKey, PressButton,
              ReleaseButton, presenceVars, callVars
<1> QED
  BY <1>1, <1>2, <1>3, <1>4, <1>5, <1>6, <1>7 DEF Next, Firmware

LEMMA StaticsTypeStep ==
  ASSUME StaticsTypeOK, ret \in BOOLEAN, Next
  PROVE  StaticsTypeOK'
<1> USE DEF StaticsTypeOK
<1>1. CASE Boot \/ Restart \/ Host
  BY <1>1 DEF Boot, Restart, Host, Ask, statics
<1>2. CASE InitEarly
  BY <1>2 DEF InitEarly, InitReturns, Answer, Leave, callVars
<1>3. CASE InitPeripherals
  BY <1>3, BoardKinds
  DEF InitPeripherals, PinsConfigured, InitReturns, Answer, Leave, callVars
<1>4. CASE KeypadReady
  BY <1>4 DEF KeypadReady, InitReturns, Answer, Leave, callVars
<1>5. CASE SampleA \/ SampleB
  <2>1. s_gpio_last_pressed' \in BOOLEAN
    BY <1>5 DEF SampleA, SampleB, gpio_is_pressed
  <2>2. polled' \in BOOLEAN
    BY <1>5 DEF SampleA, SampleB, InitReturns, Answer, Leave, callVars
  <2>3. /\ UNCHANGED <<s_board, s_internal_i2c, gpioReady>>
        /\ s_presence_initialized' \in BOOLEAN
    BY <1>5 DEF SampleA, SampleB
  <2> QED BY <2>1, <2>2, <2>3
<1>6. CASE PollKeypad \/ KeypadPolled
  BY <1>6 DEF PollKeypad, KeypadPolled, PollReturns, Answer, Leave, callVars, statics
<1>7. CASE PollButtonA \/ PollButtonB
  <2>1. s_gpio_last_pressed' \in BOOLEAN
    BY <1>7 DEF PollButtonA, PollButtonB, RisingEdge, gpio_is_pressed
  <2>2. polled' \in BOOLEAN
    BY <1>7 DEF PollButtonA, PollButtonB, RisingEdge, PollReturns, Answer, Leave, callVars
  <2>3. UNCHANGED <<s_board, s_presence_initialized, s_internal_i2c, gpioReady>>
    BY <1>7 DEF PollButtonA, PollButtonB
  <2> QED BY <2>1, <2>2, <2>3
<1>8. CASE Delay
  BY <1>8 DEF Delay, Leave, callVars, statics
<1>9. CASE KeypadStep \/ \E k \in Keys : UserStep(k)
  BY <1>9 DEF KeypadStep, UserStep, PressKey, ReleaseKey, PressButton,
              ReleaseButton, presenceVars, callVars, statics
<1> QED
  BY <1>1, <1>2, <1>3, <1>4, <1>5, <1>6, <1>7, <1>8, <1>9 DEF Next, Firmware

LEMMA RestartsTypeStep ==
  ASSUME restarts \in 0..MaxRestarts, Next
  PROVE  restarts' \in 0..MaxRestarts
<1>1. restarts' = restarts \/ (restarts > 0 /\ restarts' = restarts - 1)
  BY DEF Next, Firmware, Host, Boot, Ask, InitEarly, InitPeripherals,
         KeypadReady, SampleA, SampleB, PollKeypad, KeypadPolled, PollButtonA,
         PollButtonB, Delay, KeypadStep, UserStep, PressKey, ReleaseKey,
         PressButton, ReleaseButton, Restart, presenceVars
<1> QED BY <1>1, RestartsAssumption

LEMMA PresenceTypeStep ==
  ASSUME IInv, PresenceTypeOK, [Next]_vars
  PROVE  PresenceTypeOK'
<1>1. CASE Next
  <2>1. ret \in BOOLEAN
    BY DEF IInv, TcaTypeOK
  <2>2. /\ TaskTypeOK' /\ TimesTypeOK' /\ StaticsTypeOK'
        /\ (restarts \in 0..MaxRestarts)'
    BY <1>1, <2>1, TypeParts, TaskTypeStep, TimesTypeStep, StaticsTypeStep,
       RestartsTypeStep
  <2> QED
    BY <2>2 DEF PresenceTypeOK, TaskTypeOK, TimesTypeOK, StaticsTypeOK
<1>2. CASE UNCHANGED vars
  BY <1>2 DEF vars, presenceVars, callVars, statics, PresenceTypeOK
<1> QED BY <1>1, <1>2

(***************************************************************************)
(* The task and the driver keep in step.                                   *)
(***************************************************************************)
LEMMA CallingStep ==
  ASSUME PInv, Next
  PROVE  Calling'
<1> USE DEF Calling, Initialising
<1>0. Calling /\ TaskTypeOK
  BY TypeParts DEF PInv
<1>1. CASE Boot \/ Restart
  BY <1>0, <1>1 DEF Boot, Restart, TaskTypeOK
<1>2. CASE Host
  BY <1>0, <1>2 DEF Host, Ask
<1>3. CASE InitEarly
  BY <1>0, <1>3 DEF InitEarly, InitReturns, Answer, Leave, callVars, TaskTypeOK
<1>4. CASE InitPeripherals
  BY <1>0, <1>4 DEF InitPeripherals, InitReturns, Answer, Leave, callVars, TaskTypeOK
<1>5. CASE KeypadReady
  BY <1>0, <1>5 DEF KeypadReady, InitReturns, Answer, Leave, callVars, TaskTypeOK
<1>6. CASE SampleA \/ SampleB
  BY <1>0, <1>6 DEF SampleA, SampleB, InitReturns, Answer, Leave, callVars, TaskTypeOK
<1>7. CASE PollKeypad \/ KeypadPolled
  BY <1>0, <1>7 DEF PollKeypad, KeypadPolled, PollReturns, Answer, Leave, callVars
<1>8. CASE PollButtonA \/ PollButtonB
  BY <1>0, <1>8
  DEF PollButtonA, PollButtonB, RisingEdge, PollReturns, Answer, Leave, callVars
<1>9. CASE Delay
  BY <1>0, <1>9 DEF Delay, Leave, callVars
<1>10. CASE KeypadStep \/ \E k \in Keys : UserStep(k)
  BY <1>0, <1>10 DEF KeypadStep, UserStep, PressKey, ReleaseKey, PressButton,
              ReleaseButton, presenceVars, callVars
<1> QED
  BY <1>1, <1>2, <1>3, <1>4, <1>5, <1>6, <1>7, <1>8, <1>9, <1>10
  DEF Next, Firmware

LEMMA DrivingStep ==
  ASSUME PInv, Next
  PROVE  Driving'
<1> USE BoardKinds DEF Driving
<1>0. Driving
  BY DEF PInv
<1>1. CASE Boot \/ Restart \/ Host
  BY <1>0, <1>1 DEF Boot, Restart, Host, Ask, tcaVars, driver
<1>2. CASE InitEarly
  BY <1>0, <1>2 DEF InitEarly, InitReturns, Answer, Leave, driver
<1>3. CASE InitPeripherals
  BY <1>0, <1>3 DEF InitPeripherals, InitReturns, Answer, Leave, driver, CallInit
<1>4. CASE KeypadReady
  BY <1>0, <1>4 DEF KeypadReady, InitReturns, Answer, Leave, Return
<1>5. CASE SampleA \/ SampleB
  BY <1>0, <1>5 DEF SampleA, SampleB, InitReturns, Answer, Leave, tcaVars, driver
<1>6. CASE PollKeypad \/ KeypadPolled
  BY <1>0, <1>6 DEF PollKeypad, KeypadPolled, PollReturns, Answer, Leave, CallPoll, Return
<1>7. CASE PollButtonA \/ PollButtonB
  BY <1>0, <1>7
  DEF PollButtonA, PollButtonB, RisingEdge, PollReturns, Answer, Leave, tcaVars, driver
<1>8. CASE Delay
  BY <1>0, <1>8 DEF Delay, Leave, tcaVars, driver
<1>9. CASE KeypadStep
  BY <1>0, <1>9, DriverStepKeeps DEF KeypadStep, presenceVars
<1>10. CASE \E k \in Keys : UserStep(k)
  BY <1>0, <1>10 DEF UserStep, PressKey, ReleaseKey, PressButton, ReleaseButton,
              Press, Release, presenceVars, driver
<1> QED
  BY <1>1, <1>2, <1>3, <1>4, <1>5, <1>6, <1>7, <1>8, <1>9, <1>10
  DEF Next, Firmware

LEMMA ReadyStep ==
  ASSUME PInv, Next
  PROVE  Ready'
<1> USE BoardKinds DEF Ready
<1>0. Ready /\ StaticsTypeOK
  BY TypeParts DEF PInv
<1>1. CASE Boot \/ Restart \/ Host
  BY <1>0, <1>1 DEF Boot, Restart, Host, Ask, statics, StaticsTypeOK
<1>2. CASE InitEarly
  BY <1>0, <1>2 DEF InitEarly, InitReturns, Answer, Leave, Calling, PInv
<1>3. CASE InitPeripherals
  BY <1>0, <1>3
  DEF InitPeripherals, PinsConfigured, InitReturns, Answer, Leave, Calling, PInv
<1>4. CASE KeypadReady
  BY <1>0, <1>4 DEF KeypadReady, InitReturns, Answer, Leave, PInv, Driving
<1>5. CASE SampleA
  BY <1>0, <1>5 DEF SampleA, InitReturns, Answer, Leave
<1>6. CASE SampleB
  BY <1>0, <1>6 DEF SampleB, InitReturns, Answer, Leave
<1>7. CASE PollKeypad \/ KeypadPolled
  BY <1>0, <1>7 DEF PollKeypad, KeypadPolled, PollReturns, Answer, Leave, statics
<1>8. CASE PollButtonA \/ PollButtonB
  BY <1>0, <1>8
  DEF PollButtonA, PollButtonB, RisingEdge, PollReturns, Answer, Leave
<1>9. CASE Delay
  BY <1>0, <1>9 DEF Delay, Leave, statics
<1>10. CASE KeypadStep \/ \E k \in Keys : UserStep(k)
  BY <1>0, <1>10 DEF KeypadStep, UserStep, PressKey, ReleaseKey, PressButton,
              ReleaseButton, presenceVars, statics
<1> QED
  BY <1>1, <1>2, <1>3, <1>4, <1>5, <1>6, <1>7, <1>8, <1>9, <1>10
  DEF Next, Firmware

LEMMA PInvInit == Init => PInv
<1> SUFFICES ASSUME Init PROVE PInv
  OBVIOUS
<1>1. IInv
  BY InitIInv DEF Init
<1>2. PresenceTypeOK
  <2>1. TaskTypeOK /\ StaticsTypeOK
    BY DEF Init, TaskTypeOK, StaticsTypeOK
  <2>2. TimesTypeOK /\ restarts \in 0..MaxRestarts
    BY RestartsAssumption DEF Init, TimesTypeOK
  <2> QED BY <2>1, <2>2, TypeParts
<1>3. Calling /\ Driving /\ Ready
  BY DEF Init, TcaInit, Calling, Initialising, Driving, Ready
<1> QED BY <1>1, <1>2, <1>3 DEF PInv

LEMMA PInvNext == PInv /\ [Next]_vars => PInv'
<1> SUFFICES ASSUME PInv, [Next]_vars PROVE PInv'
  OBVIOUS
<1>1. IInv' /\ PresenceTypeOK'
  BY DriverIInv, PresenceTypeStep DEF PInv
<1>2. CASE Next
  BY <1>1, <1>2, CallingStep, DrivingStep, ReadyStep DEF PInv
<1>3. CASE UNCHANGED vars
  <2>1. UNCHANGED <<ppc, call, polled, request, statics, op, tpc>>
    BY <1>3 DEF vars, presenceVars, callVars, tcaVars, driver
  <2>2. Calling'
    BY <2>1 DEF PInv, Calling, Initialising
  <2>3. Driving' /\ Ready'
    BY <2>1 DEF PInv, Driving, Ready, statics, Keyboard, Buttons
  <2> QED BY <1>1, <2>2, <2>3 DEF PInv
<1> QED BY <1>2, <1>3

\* The strengthened invariant of user presence.
THEOREM PresenceInvariant == Safety => []PInv
BY PInvInit, PInvNext, PTL DEF Safety

\* Every variable keeps its type; in particular a wait never reads its clock
\* again once it has come to the deadline.
THEOREM PresenceTypeCorrect == Safety => []TypeOK
<1>1. PInv => TypeOK
  BY DEF PInv, IInv, TypeOK
<1> QED BY <1>1, PresenceInvariant, PTL

(***************************************************************************)
(* A request is refused only for a reason.                                 *)
(***************************************************************************)
Justified ==
  request = "open" /\ request' = "refused" =>
    \/ Initialising /\ ~s_presence_initialized'
    \/ call = "poll" /\ ~Initialising
    \/ ppc = "delay" /\ polled /\ timeout # 0 /\ clock' >= timeout

LEMMA JustifiedStep ==
  ASSUME PInv, Next
  PROVE  Justified
<1> USE DEF Justified, Initialising
<1>1. CASE Boot \/ Restart \/ Host
  BY <1>1 DEF Boot, Restart, Host, Ask
<1>2. CASE InitEarly \/ InitPeripherals
  <2>1. ~s_presence_initialized /\ ~s_presence_initialized'
    <3>1. Ready
      BY DEF PInv
    <3>2. CASE InitEarly
      BY <3>1, <3>2 DEF InitEarly, Ready
    <3>3. CASE InitPeripherals
      BY <3>1, <3>3 DEF InitPeripherals, Ready
    <3> QED BY <1>2, <3>2, <3>3
  <2> QED BY <1>2, <2>1 DEF InitEarly, InitPeripherals
<1>3. CASE KeypadReady
  <2>1. ~s_presence_initialized /\ (s_presence_initialized' = ret)
    BY <1>3, BoardKinds DEF KeypadReady, PInv, Ready, IInv, TcaTypeOK
  <2> QED BY <1>3, <2>1 DEF KeypadReady, InitReturns, Answer, Leave
<1>4. CASE SampleA \/ SampleB
  BY <1>4 DEF SampleA, SampleB, InitReturns, Answer, Leave
<1>5. CASE PollKeypad \/ KeypadPolled
  BY <1>5 DEF PollKeypad, KeypadPolled, PollReturns, Answer, Leave
<1>6. CASE PollButtonA \/ PollButtonB
  BY <1>6 DEF PollButtonA, PollButtonB, RisingEdge, PollReturns, Answer, Leave
<1>7. CASE Delay
  BY <1>7 DEF Delay, TimeUp, Leave, PInv, Calling
<1>8. CASE KeypadStep \/ \E k \in Keys : UserStep(k)
  BY <1>8 DEF KeypadStep, UserStep, PressKey, ReleaseKey, PressButton,
              ReleaseButton, presenceVars
<1> QED
  BY <1>1, <1>2, <1>3, <1>4, <1>5, <1>6, <1>7, <1>8 DEF Next, Firmware

\* A request is refused because initialisation failed, because it was a single
\* poll, or because a wait that has polled has read a clock at or past its
\* deadline: whatever the keys and the bus do, none gives up early.
THEOREM PresenceRefusalJustified == Safety => RefusalJustified
<1>1. PInv /\ [Next]_vars => [Justified]_vars
  BY JustifiedStep
<1> QED
  BY <1>1, PresenceInvariant, PTL DEF Safety, RefusalJustified, Justified

(***************************************************************************)
(* Once initialised, the keypad stays a device whose every key is scanned. *)
(***************************************************************************)
LEMMA WrittenInStep ==
  ASSUME PInv, Written, Next
  PROVE  Written'
<1>1. CASE [TcaNext]_tcaVars
  BY <1>1, WrittenStep DEF PInv
<1>2. CASE FaultOnly
  BY <1>2 DEF FaultOnly, chip, driver, Written
<1>3. CASE DriverLost
  BY <1>3 DEF DriverLost, Written
<1>4. CASE ButtonMoves
  BY <1>4 DEF ButtonMoves, driver, Written
<1> QED BY <1>1, <1>2, <1>3, <1>4, DriverView

\* Nothing the driver does takes a register or the device away.
LEMMA DriverKeepsKeypad ==
  ASSUME [TcaNext]_tcaVars, matrix \subseteq MatrixRegisters
  PROVE  matrix \subseteq matrix' /\ (dev => dev')
<1>1. CASE User \/ CallInit \/ CallPoll \/ Return
  BY <1>1 DEF User, Press, Release, CallInit, CallPoll, Return, chip, driver
<1>2. CASE AddDevice
  <2>1. dev' = TRUE \/ dev' = dev
    BY <1>2 DEF AddDevice
  <2>2. matrix' = matrix
    BY <1>2 DEF AddDevice, chip
  <2> QED BY <2>1, <2>2
<1>3. CASE WriteRegister
  <2>1. dev' = dev
    BY <1>3 DEF WriteRegister
  <2>2. matrix \subseteq matrix'
    BY <1>3 DEF WriteRegister
  <2> QED BY <2>1, <2>2
<1>4. CASE ReadCount \/ ReadEvent \/ ClearInterrupt
  <2>1. dev' = dev /\ matrix' = matrix
    BY <1>4 DEF ReadCount, ReadEvent, ClearInterrupt, chip
  <2> QED BY <2>1
<1>5. CASE UNCHANGED tcaVars
  BY <1>5 DEF tcaVars, chip, driver
<1> QED BY <1>1, <1>2, <1>3, <1>4, <1>5 DEF TcaNext, DriverStep

LEMMA DeviceReadyStep ==
  ASSUME PInv, DeviceReady, Next
  PROVE  DeviceReady'
<1> USE DEF DeviceReady
<1>1. CASE User \/ CallInit \/ CallPoll \/ Return
  BY <1>1 DEF User, Press, Release, CallInit, CallPoll, Return, driver
<1>2. CASE AddDevice
  BY <1>2 DEF AddDevice, Finish
<1>3. CASE WriteRegister
  BY <1>3 DEF WriteRegister, Finish
<1>4. CASE ReadCount \/ ReadEvent \/ ClearInterrupt
  <2>1. op' = "poll" /\ tpc' # "write" /\ dev' = dev
    BY <1>4 DEF ReadCount, ReadEvent, ClearInterrupt, Finish, Continue, PInv,
                IInv, Where
  <2>2. tpc' = "event" \/ tpc' = "clear" => dev
    BY <1>4 DEF ReadCount, ReadEvent, ClearInterrupt, Finish, Continue
  <2> QED BY <2>1, <2>2
<1>5. CASE UNCHANGED driver
  BY <1>5 DEF driver
<1>6. CASE DriverLost
  BY <1>6 DEF DriverLost
<1> QED
  BY <1>1, <1>2, <1>3, <1>4, <1>5, <1>6, DriverView
  DEF TcaNext, DriverStep, FaultOnly, ButtonMoves, tcaVars

LEMMA KeypadInitializedStep ==
  ASSUME PInv, KeypadInv, Next
  PROVE  KeypadInitialized'
<1> USE DEF KeypadInitialized
<1>0. KeypadInitialized /\ matrix \subseteq MatrixRegisters
  BY DEF KeypadInv, PInv, IInv, TcaTypeOK
<1>1. CASE Restart
  BY <1>1 DEF Restart
<1>2. CASE KeypadReady
  <2>1. ppc = "keypad" /\ op = "init" /\ tpc = "done"
    BY <1>2 DEF KeypadReady, Return, PInv, Driving
  <2>2. ret => dev /\ MatrixRegisters \subseteq matrix
    BY <2>1 DEF KeypadInv, DeviceReady, Written
  <2>3. s_presence_initialized' => s_presence_initialized \/ ret
    BY <1>2 DEF KeypadReady
  <2>4. dev' = dev /\ matrix' = matrix
    BY <1>2 DEF KeypadReady, Return, chip
  <2> QED BY <1>0, <2>2, <2>3, <2>4 DEF Keyboard
<1>3. CASE SampleA \/ SampleB
  BY <1>3, BoardKinds DEF SampleA, SampleB, PInv, Driving, Keyboard, Buttons
<1>4. CASE s_presence_initialized' = s_presence_initialized /\ ~Restart
  <2>1. (dev => dev') /\ matrix \subseteq matrix'
    <3>1. CASE [TcaNext]_tcaVars
      BY <1>0, <3>1, DriverKeepsKeypad
    <3>2. CASE FaultOnly
      BY <3>2 DEF FaultOnly, chip, driver
    <3>3. CASE ButtonMoves
      BY <3>3 DEF ButtonMoves, driver
    <3> QED BY <3>1, <3>2, <3>3, <1>4, DriverView
  <2> QED BY <1>0, <1>4, <2>1 DEF Keyboard
<1>5. \/ Restart \/ KeypadReady \/ SampleA \/ SampleB
      \/ s_presence_initialized' = s_presence_initialized
  BY DEF Next, Firmware, Host, Boot, Ask, InitEarly, InitPeripherals, PollKeypad,
         KeypadPolled, PollButtonA, PollButtonB, Delay, KeypadStep, UserStep,
         PressKey, ReleaseKey, PressButton, ReleaseButton, presenceVars, statics
<1> QED BY <1>1, <1>2, <1>3, <1>4, <1>5

LEMMA KeypadInvInit == Init => KeypadInv
<1> SUFFICES ASSUME Init PROVE KeypadInv
  OBVIOUS
<1> QED
  BY DEF Init, TcaInit, KeypadInv, Written, DeviceReady, KeypadInitialized

LEMMA KeypadInvNext == PInv /\ KeypadInv /\ [Next]_vars => KeypadInv'
<1> SUFFICES ASSUME PInv, KeypadInv, [Next]_vars PROVE KeypadInv'
  OBVIOUS
<1>1. CASE Next
  BY <1>1, WrittenInStep, DeviceReadyStep, KeypadInitializedStep DEF KeypadInv
<1>2. CASE UNCHANGED vars
  BY <1>2 DEF vars, tcaVars, chip, driver, presenceVars, statics, KeypadInv,
              Written, DeviceReady, KeypadInitialized, Keyboard
<1> QED BY <1>1, <1>2

\* What a poll reads is configured whenever initialisation has reported
\* success, through every later failure and restart.
THEOREM PresenceReady == Safety => []InitializedMeansReady
<1>1. PInv /\ KeypadInv => InitializedMeansReady
  BY DEF PInv, Ready, KeypadInv, KeypadInitialized, InitializedMeansReady,
         Scanned, MatrixRegisters
<1> QED
  BY <1>1, PresenceInvariant, KeypadInvInit, KeypadInvNext, PTL DEF Safety

(***************************************************************************)
(* What the driver promises on its own it keeps when the task calls it,    *)
(* through failures and restarts.                                          *)
(***************************************************************************)

\* A poll of the keyboard that finds no key has emptied the chip's FIFO of
\* all that was in it, also after a restart cut an earlier poll short.
THEOREM PresenceDrainComplete == Safety => []DrainComplete
<1>1. PInv => DrainComplete
  BY DEF PInv, IInv
<1> QED BY <1>1, PresenceInvariant, PTL

\* An initialisation of the keypad that reports success has attached every key.
THEOREM PresenceInitSound == Safety => []InitSound
<1>1. KeypadInv => InitSound
  BY DEF KeypadInv, Written, InitSound, Scanned, MatrixRegisters
<1> QED BY <1>1, PresenceInvariant, KeypadInvInit, KeypadInvNext, PTL DEF Safety

LEMMA PresenceSwallowsNothing ==
  ASSUME PInv, KeypadInv, Next
  PROVE  SwallowsNothing
<1>0. IInv
  BY DEF PInv
<1>1. CASE [TcaNext]_tcaVars
  BY <1>0, <1>1, NextSwallowsNothing
<1>2. CASE FaultOnly \/ ButtonMoves
  <2>1. Pending' = Pending /\ Pending \in Nat
    BY <1>0, <1>2, PendingType
    DEF IInv, Pending, FaultOnly, ButtonMoves, chip, driver
  <2> QED BY <2>1 DEF SwallowsNothing
<1>3. CASE Restart /\ DriverLost
  <2>1. /\ Presses(fifo) \in Nat
        /\ Pending = Presses(fifo) + (IF event = "press" THEN 1 ELSE 0)
        /\ Pending' = Presses(fifo)
    BY <1>0, <1>3, PendingType DEF IInv, Pending, DriverLost, chip
  <2>2. event = "press" => tpc = "clear"
    BY <1>0 DEF IInv, Where
  <2>3. event = "press" => dev /\ ~dev'
    BY <1>3, <2>2 DEF KeypadInv, DeviceReady, DriverLost
  <2> QED BY <2>1, <2>3 DEF SwallowsNothing
<1> QED BY <1>1, <1>2, <1>3, DriverView

\* A press the chip has registered leaves the firmware only as an answer, by a
\* bus failure, or by a restart between its read and its acknowledgement.
THEOREM PresenceNoPressSwallowed == Safety => NoPressSwallowed
<1>1. PInv /\ KeypadInv /\ [Next]_vars => [SwallowsNothing]_tcaVars
  <2> SUFFICES ASSUME PInv, KeypadInv, [Next]_vars
               PROVE  [SwallowsNothing]_tcaVars
    OBVIOUS
  <2>1. CASE Next
    BY <2>1, PresenceSwallowsNothing
  <2>2. CASE UNCHANGED vars
    BY <2>2 DEF vars
  <2> QED BY <2>1, <2>2
<1> QED
  BY <1>1, PresenceInvariant, KeypadInvInit, KeypadInvNext, PTL
  DEF Safety, NoPressSwallowed, SwallowsNothing

(***************************************************************************)
(* Calls are short: how many more steps the task can take in one round of  *)
(* a call.  This is the part of TimedWaitReturns that does not depend on   *)
(* fairness.                                                               *)
(***************************************************************************)
Phase ==
  CASE ppc = "early"       -> 3 * PollLimit + 16
    [] ppc = "peripherals" -> 3 * PollLimit + 15
    [] ppc = "keypad"      -> 3 * PollLimit + 4 + StepsLeft
    [] ppc = "sampleA"     -> 3 * PollLimit + 5
    [] ppc = "sampleB"     -> 3 * PollLimit + 4
    [] ppc = "poll"        -> 3 * PollLimit + 3
    [] ppc = "scan"        -> StepsLeft + 2
    [] ppc = "pollB"       -> 2
    [] ppc = "delay"       -> 1
    [] OTHER               -> 0

PhaseBounded == Phase \in 0..(3 * PollLimit + 16)

\* From the latest reading of the clock to the deadline.
Left == IF timeout = 0 THEN 0 ELSE timeout - clock

NearerTheEnd == Left' < Left \/ (Left' = Left /\ Phase' < Phase)

\* Only the delay of a wait without a timeout gets no nearer to the end.
Shortens ==
  call # "none" /\ ~(UnlimitedWait /\ ppc = "delay") =>
    \/ NearerTheEnd
    \/ UNCHANGED <<Left, Phase>> /\ \E k \in Keys : UserStep(k)

LEMMA PhaseIs ==
  /\ ppc = "early" => Phase = 3 * PollLimit + 16
  /\ ppc = "peripherals" => Phase = 3 * PollLimit + 15
  /\ ppc = "keypad" => Phase = 3 * PollLimit + 4 + StepsLeft
  /\ ppc = "sampleA" => Phase = 3 * PollLimit + 5
  /\ ppc = "sampleB" => Phase = 3 * PollLimit + 4
  /\ ppc = "poll" => Phase = 3 * PollLimit + 3
  /\ ppc = "scan" => Phase = StepsLeft + 2
  /\ ppc = "pollB" => Phase = 2
  /\ ppc = "delay" => Phase = 1
  /\ ppc \in {"off", "idle"} => Phase = 0
BY DEF Phase

LEMMA PhaseNext ==
  /\ ppc' = "peripherals" => Phase' = 3 * PollLimit + 15
  /\ ppc' = "keypad" => Phase' = 3 * PollLimit + 4 + StepsLeft'
  /\ ppc' = "sampleA" => Phase' = 3 * PollLimit + 5
  /\ ppc' = "sampleB" => Phase' = 3 * PollLimit + 4
  /\ ppc' = "poll" => Phase' = 3 * PollLimit + 3
  /\ ppc' = "scan" => Phase' = StepsLeft' + 2
  /\ ppc' = "pollB" => Phase' = 2
  /\ ppc' = "delay" => Phase' = 1
  /\ ppc' \in {"off", "idle"} => Phase' = 0
BY DEF Phase

\* Only a wait has any time left, and only its delay changes that.
LEMMA LeftIs ==
  /\ timeout' = 0 => Left' = 0
  /\ UNCHANGED <<timeout, clock>> => Left' = Left
BY DEF Left

\* Where the task is, in numbers.
LEMMA PhaseType ==
  ASSUME PInv, KeypadInv
  PROVE  /\ PollLimit \in Nat /\ StepsLeft \in Nat /\ Left \in Nat
         /\ ppc = "keypad" => StepsLeft <= 10
         /\ ppc = "scan" => StepsLeft <= 3 * PollLimit
         /\ tpc = "done" => StepsLeft = 0
<1>1. StepsLeft \in 0..(IF op = "init" THEN 10 ELSE 3 * PollLimit)
  BY StepsAreBounded DEF PInv, KeypadInv, StepsBounded
<1>2. Left \in Nat
  BY TimeoutsAssumption DEF PInv, PresenceTypeOK, Left
<1>3. ppc = "keypad" => op = "init"
  BY DEF PInv, Driving
<1>4. ppc = "scan" => op = "poll"
  BY DEF PInv, Driving
<1>5. tpc = "done" => StepsLeft = 0
  BY StepsLeftIs
<1> QED  BY <1>1, <1>2, <1>3, <1>4, <1>5, PollAssumption

LEMMA PhaseIsBounded ==
  ASSUME PInv, KeypadInv
  PROVE  PhaseBounded
<1>1. ppc \in {"off", "idle", "early", "peripherals", "keypad", "sampleA",
               "sampleB", "poll", "scan", "pollB", "delay"}
  BY DEF PInv, PresenceTypeOK
<1> QED  BY <1>1, PhaseType, PhaseIs DEF PhaseBounded

\* An answer ends the call, and with it the time and the phase.
LEMMA AnswerShortens ==
  ASSUME PInv, KeypadInv, call # "none", ppc' \in {"off", "idle"}, timeout' = 0
  PROVE  NearerTheEnd
<1>1. ppc \in {"early", "peripherals", "keypad", "sampleA", "sampleB", "poll",
               "scan", "pollB", "delay"}
  BY DEF PInv, PresenceTypeOK, Calling
<1>2. Phase' = 0
  BY PhaseNext
<1>3. Phase > 0
  BY <1>1, PhaseType, PhaseIs
<1>4. Left' = 0
  BY LeftIs
<1> QED  BY <1>2, <1>3, <1>4, PhaseType DEF NearerTheEnd

LEMMA InitShortens ==
  ASSUME PInv, KeypadInv, call # "none",
         InitEarly \/ InitPeripherals \/ KeypadReady \/ SampleA \/ SampleB
  PROVE  NearerTheEnd
<1>1. \/ ppc' = "idle" /\ timeout' = 0
      \/ /\ UNCHANGED <<timeout, clock>>
         /\ \/ ppc = "early" /\ ppc' \in {"peripherals"}
            \/ ppc = "peripherals" /\ ppc' = "sampleA"
            \/ ppc = "peripherals" /\ ppc' = "keypad" /\ tpc' = "add"
            \/ ppc = "keypad" /\ ppc' = "poll"
            \/ ppc = "sampleA" /\ ppc' \in {"sampleB", "poll"}
            \/ ppc = "sampleB" /\ ppc' = "poll"
  <2>1. CASE InitEarly
    BY <2>1 DEF InitEarly, InitReturns, Answer, Leave, callVars
  <2>2. CASE InitPeripherals
    BY <2>2 DEF InitPeripherals, InitReturns, Answer, Leave, callVars, CallInit
  <2>3. CASE KeypadReady
    BY <2>3 DEF KeypadReady, InitReturns, Answer, Leave, callVars
  <2>4. CASE SampleA \/ SampleB
    BY <2>4 DEF SampleA, SampleB, InitReturns, Answer, Leave, callVars
  <2> QED  BY <2>1, <2>2, <2>3, <2>4
<1>2. CASE ppc' = "idle" /\ timeout' = 0
  BY <1>2, AnswerShortens
<1>3. tpc' = "add" => StepsLeft' = 10
  BY DEF StepsLeft
<1>4. CASE UNCHANGED <<timeout, clock>> /\ ~(ppc' = "idle" /\ timeout' = 0)
  <2>1. Phase' < Phase
    BY <1>1, <1>3, <1>4, PhaseType, PhaseIs, PhaseNext
  <2> QED  BY <1>4, <2>1, LeftIs DEF NearerTheEnd
<1> QED  BY <1>1, <1>2, <1>4

LEMMA PollShortens ==
  ASSUME PInv, KeypadInv, call # "none",
         PollKeypad \/ KeypadPolled \/ PollButtonA \/ PollButtonB
  PROVE  NearerTheEnd
<1>1. \/ ppc' = "idle" /\ timeout' = 0
      \/ /\ UNCHANGED <<timeout, clock>>
         /\ \/ ppc = "poll" /\ ppc' \in {"pollB", "delay"}
            \/ ppc = "poll" /\ ppc' = "scan" /\ tpc' = "count" /\ n' = 0
            \/ ppc \in {"scan", "pollB"} /\ ppc' = "delay"
  <2>1. CASE PollKeypad
    BY <2>1 DEF PollKeypad, CallPoll, callVars
  <2>2. CASE KeypadPolled
    BY <2>2 DEF KeypadPolled, PollReturns, Answer, Leave
  <2>3. CASE PollButtonA \/ PollButtonB
    BY <2>3 DEF PollButtonA, PollButtonB, RisingEdge, PollReturns, Answer, Leave, callVars
  <2> QED  BY <2>1, <2>2, <2>3
<1>2. CASE ppc' = "idle" /\ timeout' = 0
  BY <1>2, AnswerShortens
<1>3. tpc' = "count" => StepsLeft' = 3 * (PollLimit - n')
  BY StepsLeftNext
<1>4. CASE UNCHANGED <<timeout, clock>> /\ ~(ppc' = "idle" /\ timeout' = 0)
  <2>1. Phase' < Phase
    BY <1>1, <1>3, <1>4, PhaseType, PhaseIs, PhaseNext
  <2> QED  BY <1>4, <2>1, LeftIs DEF NearerTheEnd
<1> QED  BY <1>1, <1>2, <1>4

LEMMA DelayShortens ==
  ASSUME PInv, KeypadInv, call # "none", ~UnlimitedWait, Delay
  PROVE  NearerTheEnd
<1>1. call = "wait" /\ timeout # 0
  BY DEF Delay, UnlimitedWait, PInv, Calling
<1>2. \/ Left' \in 0..(Left - 1)
      \/ ppc' = "idle" /\ timeout' = 0
  <2>1. PICK now \in Readings :
          /\ clock' = now
          /\ IF TimeUp(now)
             THEN Leave("refused")
             ELSE ppc' = "poll" /\ UNCHANGED <<call, timeout, polled, request>>
    BY <1>1 DEF Delay
  <2>2. CASE Leave("refused")
    BY <2>2 DEF Leave
  <2>3. CASE UNCHANGED timeout
    <3>1. timeout \in Nat /\ clock \in Nat /\ now \in (clock + 1)..timeout
      BY TimeoutsAssumption DEF PInv, PresenceTypeOK, Readings
    <3> QED  BY <1>1, <2>1, <2>3, <3>1 DEF Left
  <2> QED  BY <2>1, <2>2, <2>3
<1>3. CASE Left' \in 0..(Left - 1)
  BY <1>3, PhaseType DEF NearerTheEnd
<1> QED  BY <1>2, <1>3, AnswerShortens

LEMMA KeypadStepShortens ==
  ASSUME PInv, KeypadInv, KeypadStep
  PROVE  NearerTheEnd
<1>1. StepsLeft' \in 0..(StepsLeft - 1)
  BY DriverStepShortens DEF KeypadStep, DriverShortens, PInv, KeypadInv
<1>2. ppc' = ppc /\ Left' = Left
  BY LeftIs DEF KeypadStep, presenceVars, callVars
<1>3. ppc \in {"keypad", "scan"}
  BY DriverStepKeeps DEF KeypadStep, PInv, Driving
<1>4. Phase' < Phase
  <2>1. CASE ppc = "keypad"
    <3>1. /\ Phase = 3 * PollLimit + 4 + StepsLeft
          /\ Phase' = 3 * PollLimit + 4 + StepsLeft'
      BY <1>2, <2>1, PhaseIs, PhaseNext
    <3> QED  BY <1>1, <3>1, PhaseType
  <2>2. CASE ppc = "scan"
    <3>1. Phase = StepsLeft + 2 /\ Phase' = StepsLeft' + 2
      BY <1>2, <2>2, PhaseIs, PhaseNext
    <3> QED  BY <1>1, <3>1, PhaseType
  <2> QED  BY <1>3, <2>1, <2>2
<1> QED  BY <1>2, <1>4 DEF NearerTheEnd

LEMMA UserKeepsPhase ==
  ASSUME NEW k \in Keys, UserStep(k)
  PROVE  UNCHANGED <<Left, Phase>>
<1>1. UNCHANGED <<Left, ppc, tpc, n>>
  BY LeftIs DEF UserStep, PressKey, ReleaseKey, PressButton, ReleaseButton, Press,
         Release, driver, presenceVars, callVars
<1> QED  BY <1>1 DEF Phase, StepsLeft

LEMMA ShortensStep ==
  ASSUME PInv, KeypadInv, Next
  PROVE  Shortens
<1> SUFFICES ASSUME call # "none", ~(UnlimitedWait /\ ppc = "delay")
             PROVE  \/ NearerTheEnd
                    \/ UNCHANGED <<Left, Phase>> /\ \E k \in Keys : UserStep(k)
  BY DEF Shortens
<1>1. CASE Boot \/ Host
  BY <1>1 DEF Boot, Host, Ask, PInv, Calling
<1>2. CASE Restart
  BY <1>2, AnswerShortens DEF Restart
<1>3. CASE InitEarly \/ InitPeripherals \/ KeypadReady \/ SampleA \/ SampleB
  BY <1>3, InitShortens
<1>4. CASE PollKeypad \/ KeypadPolled \/ PollButtonA \/ PollButtonB
  BY <1>4, PollShortens
<1>5. CASE Delay
  BY <1>5, DelayShortens DEF Delay
<1>6. CASE KeypadStep
  BY <1>6, KeypadStepShortens
<1>7. CASE \E k \in Keys : UserStep(k)
  BY <1>7, UserKeepsPhase
<1> QED
  BY <1>1, <1>2, <1>3, <1>4, <1>5, <1>6, <1>7 DEF Next, Firmware

\* Whatever the keys and the bus do, a call of the API cannot go on for ever:
\* its first round and the initialisation before it take at most
\* 3 * PollLimit + 16 steps, every step of the task uses one of them up or
\* brings the deadline nearer, and the keys give none back.  Only a wait
\* without a timeout may go round again, by its delay.
THEOREM PresenceCallsShorten == Safety => []PhaseBounded /\ [][Shortens]_vars
<1>1. PInv /\ KeypadInv => PhaseBounded
  BY PhaseIsBounded
<1>2. PInv /\ KeypadInv /\ [Next]_vars => [Shortens]_vars
  <2> SUFFICES ASSUME PInv, KeypadInv, [Next]_vars PROVE [Shortens]_vars
    OBVIOUS
  <2>1. CASE Next
    BY <2>1, ShortensStep
  <2>2. CASE UNCHANGED vars
    BY <2>2
  <2> QED  BY <2>1, <2>2
<1> QED
  BY <1>1, <1>2, PresenceInvariant, KeypadInvInit, KeypadInvNext, PTL DEF Safety

(***************************************************************************)
(* The contract: user presence implements module UserPresence, on the      *)
(* keyboard whatever fails, on the buttons as long as bring-up does not.   *)
(***************************************************************************)

\* The press a finished poll is about to report.
Reported == IF op = "poll" /\ tpc = "done" /\ ret THEN 1 ELSE 0

LEMMA KeypadCreditParts ==
  ASSUME TcaTypeOK
  PROVE  /\ KeypadCredit = Pending + Reported
         /\ Pending \in Nat /\ Reported \in {0, 1}
BY PendingType DEF KeypadCredit, Reported

(***************************************************************************)
(* What each part of a step does to the presses the keypad holds.          *)
(***************************************************************************)
LEMMA KeyCredit ==
  ASSUME IInv, NEW k \in Keys
  PROVE  /\ Press(k) => KeypadCredit' \in {KeypadCredit, KeypadCredit + 1}
         /\ Release(k) => KeypadCredit' = KeypadCredit
<1>1. fifo \in Seq(Events) /\ TcaTypeOK
  BY DEF IInv, TcaTypeOK
<1>2. Presses(fifo) \in Nat
  BY <1>1, PressedAtFinite
<1>3. ASSUME NEW e \in Events, Queue(e), UNCHANGED driver
      PROVE  /\ KeypadCredit' \in {KeypadCredit, KeypadCredit + Worth(e)}
  <2>1. Presses(fifo') = Presses(fifo) \/ Presses(fifo') = Presses(fifo) + Worth(e)
    BY <1>1, <1>3, PressesAppend DEF Queue
  <2>2. Pending' = Pending \/ Pending' = Pending + Worth(e)
    BY <1>2, <1>3, <2>1 DEF Pending, driver, Worth
  <2>3. Reported' = Reported
    BY <1>3 DEF Reported, driver
  <2>4. KeypadCredit' = Pending' + Reported'
    BY DEF KeypadCredit, Reported
  <2> QED BY <1>1, <2>2, <2>3, <2>4, KeypadCreditParts DEF Worth
<1>4. "press" \in Events /\ "release" \in Events
  BY DEF Events
<1>5. Press(k) => KeypadCredit' \in {KeypadCredit, KeypadCredit + 1}
  BY <1>3, <1>4 DEF Press, Worth
<1>6. Release(k) => KeypadCredit' = KeypadCredit
  <2>1. Release(k) => KeypadCredit' \in {KeypadCredit, KeypadCredit + 0}
    BY <1>3, <1>4 DEF Release, Worth
  <2> QED BY <2>1, <1>1, KeypadCreditParts
<1> QED BY <1>5, <1>6

LEMMA StillCredit ==
  ASSUME IInv, UNCHANGED <<chip, driver>>
  PROVE  KeypadCredit' = KeypadCredit
BY DEF KeypadCredit, Pending, chip, driver

LEMMA CallCredit ==
  ASSUME IInv, CallInit \/ CallPoll
  PROVE  KeypadCredit' = KeypadCredit
<1>1. UNCHANGED <<fifo, event>>
  BY DEF CallInit, CallPoll, chip
<1>2. Pending' = Pending
  BY <1>1 DEF Pending
<1>3. Reported = 0 /\ Reported' = 0
  BY DEF Reported, CallInit, CallPoll
<1> QED BY <1>2, <1>3, KeypadCreditParts DEF KeypadCredit, Reported

LEMMA ReturnCredit ==
  ASSUME IInv, Return
  PROVE  /\ op = "init" => KeypadCredit' = KeypadCredit
         /\ op = "poll" /\ ret => /\ KeypadCredit > 0
                                  /\ KeypadCredit' = KeypadCredit - 1
         /\ op = "poll" /\ ~ret => KeypadCredit' = KeypadCredit
<1>1. Pending' = Pending
  BY DEF Return, chip, Pending
<1>2. Reported' = 0
  BY DEF Return, Reported
<1>3. /\ op = "init" => Reported = 0
      /\ op = "poll" /\ ret => Reported = 1
      /\ op = "poll" /\ ~ret => Reported = 0
  BY DEF Return, Reported
<1>4. KeypadCredit' = Pending' + Reported'
  BY DEF KeypadCredit, Reported
<1>5. TcaTypeOK
  BY DEF IInv
<1>6. KeypadCredit = Pending + Reported /\ Pending \in Nat
  BY <1>5, KeypadCreditParts
<1> QED BY <1>1, <1>2, <1>3, <1>4, <1>6

LEMMA LostCredit ==
  ASSUME IInv, DriverLost
  PROVE  KeypadCredit' \in 0..KeypadCredit
<1>1. TcaTypeOK /\ fifo \in Seq(Events)
  BY DEF IInv, TcaTypeOK
<1>2. Presses(fifo) \in Nat
  BY <1>1, PressedAtFinite
<1>3. Pending' = Presses(fifo) + 0
  BY DEF DriverLost, chip, Pending
<1>4. Reported' = 0
  BY DEF DriverLost, Reported
<1>5. KeypadCredit' = Pending' + Reported'
  BY DEF KeypadCredit, Reported
<1>6. Pending >= Presses(fifo)
  BY <1>2 DEF Pending
<1> QED BY <1>1, <1>2, <1>3, <1>4, <1>5, <1>6, KeypadCreditParts

\* Inside the driver presses move from the FIFO to the event, and from there
\* to the result; none appears.
LEMMA DriverCredit ==
  ASSUME IInv, DriverStep
  PROVE  KeypadCredit' \in 0..KeypadCredit
<1>0. /\ TcaTypeOK /\ fifo \in Seq(Events) /\ ret \in BOOLEAN
  BY DEF IInv, TcaTypeOK
<1>1. /\ KeypadCredit = Pending + Reported
      /\ KeypadCredit' = Pending' + Reported'
      /\ Pending \in Nat
  BY <1>0, KeypadCreditParts DEF KeypadCredit, Reported
<1>2. Reported = 0
  BY DEF Reported, DriverStep, AddDevice, WriteRegister, ReadCount, ReadEvent,
         ClearInterrupt
<1>3. CASE AddDevice \/ WriteRegister
  <2>1. op' = "init" /\ event = "none" /\ event' = "none" /\ UNCHANGED fifo
    BY <1>3 DEF AddDevice, WriteRegister, Finish, chip, IInv, Where
  <2>2. Reported' = 0 /\ Pending' = Pending
    BY <2>1 DEF Reported, Pending
  <2> QED BY <1>1, <1>2, <2>2
<1>4. CASE ReadCount
  <2>1. event = "none" /\ event' = "none" /\ UNCHANGED fifo
    BY <1>4 DEF ReadCount, Finish, chip, IInv, Where
  <2>2. tpc' = "event" \/ ~ret'
    BY <1>4 DEF ReadCount, Finish
  <2>3. Reported' = 0 /\ Pending' = Pending
    BY <2>1, <2>2 DEF Reported, Pending
  <2> QED BY <1>1, <1>2, <2>3
<1>5. CASE ReadEvent
  <2>1. fifo # <<>> /\ event = "none"
    BY <1>5 DEF ReadEvent, IInv, Where
  <2>2. Presses(fifo) = Presses(Tail(fifo)) + Worth(Head(fifo))
    BY <1>0, <2>1, PressesTail
  <2>3. Tail(fifo) \in Seq(Events)
    BY <1>0, <2>1, TakeBound
  <2>4. /\ Presses(fifo) \in Nat /\ Presses(Tail(fifo)) \in Nat
        /\ Worth(Head(fifo)) \in {0, 1}
    BY <1>0, <2>3, PressedAtFinite DEF Worth
  <2>5. Pending = Presses(fifo)
    BY <2>1, <2>4 DEF Pending
  <2>6. Reported' = 0
    BY <1>5 DEF ReadEvent, Finish, Reported
  <2>7. \/ fifo' = Tail(fifo) /\ event' = Head(fifo)
        \/ fifo' \in {fifo, Tail(fifo)} /\ event' = "none"
    BY <1>5 DEF ReadEvent, Transfer, Finish
  <2>8. CASE fifo' = Tail(fifo) /\ event' = Head(fifo)
    <3>1. Pending' = Presses(Tail(fifo)) + Worth(Head(fifo))
      BY <2>8 DEF Pending, Worth
    <3> QED BY <1>1, <1>2, <2>2, <2>4, <2>5, <2>6, <3>1
  <2>9. CASE fifo' = fifo /\ event' = "none"
    <3>1. Pending' = Presses(fifo) + 0
      BY <2>9 DEF Pending
    <3> QED BY <1>1, <1>2, <2>4, <2>5, <2>6, <3>1
  <2>10. CASE fifo' = Tail(fifo) /\ event' = "none"
    <3>1. Pending' = Presses(Tail(fifo)) + 0
      BY <2>10 DEF Pending
    <3> QED BY <1>1, <1>2, <2>2, <2>4, <2>5, <2>6, <3>1
  <2> QED BY <2>7, <2>8, <2>9, <2>10
<1>6. CASE ClearInterrupt
  <2>1. UNCHANGED fifo /\ event' = "none" /\ event \in Events
    BY <1>6 DEF ClearInterrupt, Finish, Continue, chip, IInv, Where
  <2>2. Presses(fifo) \in Nat
    BY <1>0, PressedAtFinite
  <2>3. Pending = Presses(fifo) + Worth(event) /\ Pending' = Presses(fifo)
    BY <2>1, <2>2 DEF Pending, Worth
  <2>4. Reported' = 0 \/ (Reported' = 1 /\ Worth(event) = 1)
    <3>1. tpc' = "count" \/ ~ret' \/ event = "press"
      BY <1>6 DEF ClearInterrupt, Finish, Continue, IsPress
    <3> QED BY <3>1 DEF Reported, Worth
  <2>5. Worth(event) \in {0, 1}
    BY DEF Worth
  <2> QED BY <1>1, <1>2, <2>2, <2>3, <2>4, <2>5
<1> QED BY <1>3, <1>4, <1>5, <1>6 DEF DriverStep

(***************************************************************************)
(* Steps of the abstract contract.                                         *)
(***************************************************************************)

\* A step in which no key moves, no press appears, and the request stays, is
\* refused or is forgotten.
LEMMA QuietStep ==
  ASSUME down' = down, Credit' \in 0..Credit,
         \/ request' \in {request, "none"}
         \/ request = "open" /\ request' = "refused"
  PROVE  UP!Next
BY DEF UP!Next, UP!Forget, UP!Refuse

\* Coming out of an initialisation changes the request in no other way.
LEMMA InitReturnsQuietly ==
  ASSUME PInv, Initialising, NEW ok, InitReturns(ok)
  PROVE  \/ request' = request
         \/ request = "open" /\ request' = "refused"
<1>1. call \in {"boot", "poll", "wait"} /\ (request = "open" <=> call # "boot")
  BY DEF PInv, PresenceTypeOK, Calling
<1> QED BY <1>1 DEF InitReturns, Answer, Leave

LEMMA PollReturnsQuietly ==
  ASSUME PInv, ppc \in {"poll", "scan", "pollB"}, NEW pressed \in BOOLEAN,
         PollReturns(pressed)
  PROVE  /\ request = "open"
         /\ pressed => request' = "confirmed"
         /\ ~pressed => request' \in {request, "refused"}
<1>1. request = "open"
  BY DEF PInv, Calling
<1> QED BY <1>1 DEF PollReturns, Answer, Leave

LEMMA AskStep ==
  ASSUME PInv, Host, Credit' = Credit
  PROVE  UP!Next
<1>1. request # "open"
  BY DEF Host, Ask, PInv, Calling
<1>2. request' = "open" /\ down' = down
  BY DEF Host, Ask, tcaVars, chip
<1> QED BY <1>1, <1>2 DEF UP!Next, UP!Ask

(***************************************************************************)
(* The keyboard.                                                           *)
(***************************************************************************)
LEMMA KeyboardStep ==
  ASSUME Keyboard, PInv, Next
  PROVE  UP!Next
<1>1. /\ Credit = KeypadCredit /\ Credit' = KeypadCredit'
      /\ Credit \in Nat
  <2>1. Credit = KeypadCredit /\ Credit' = KeypadCredit'
    BY DEF Credit, Keyboard
  <2>2. TcaTypeOK
    BY DEF PInv, IInv
  <2> QED BY <2>1, <2>2, KeypadCreditParts
<1>2. IInv /\ ~Buttons
  BY BoardKinds DEF PInv
<1>3. CASE Boot
  BY <1>1, <1>2, <1>3, StillCredit, QuietStep DEF Boot, tcaVars, chip
<1>4. CASE Host
  BY <1>1, <1>2, <1>4, StillCredit, AskStep DEF Host, Ask, tcaVars
<1>5. CASE InitEarly
  <2>1. Credit' = Credit /\ down' = down
    BY <1>1, <1>2, <1>5, StillCredit DEF InitEarly, chip
  <2>2. \/ request' = request
        \/ request = "open" /\ request' = "refused"
    BY <1>5, InitReturnsQuietly DEF InitEarly, Initialising
  <2> QED BY <1>1, <2>1, <2>2, QuietStep
<1>6. CASE InitPeripherals
  <2>1. Credit' = Credit /\ down' = down
    BY <1>1, <1>2, <1>6, StillCredit, CallCredit
    DEF InitPeripherals, CallInit, chip
  <2>2. \/ request' = request
        \/ request = "open" /\ request' = "refused"
    BY <1>6, InitReturnsQuietly DEF InitPeripherals, Initialising
  <2> QED BY <1>1, <2>1, <2>2, QuietStep
<1>7. CASE KeypadReady
  <2>1. op = "init" /\ Return
    BY <1>7 DEF KeypadReady, PInv, Driving
  <2>2. Credit' = Credit /\ down' = down
    BY <1>1, <1>2, <2>1, ReturnCredit DEF Return, chip
  <2>3. \/ request' = request
        \/ request = "open" /\ request' = "refused"
    BY <1>7, InitReturnsQuietly DEF KeypadReady, Initialising
  <2> QED BY <1>1, <2>2, <2>3, QuietStep
<1>8. CASE SampleA \/ SampleB \/ PollButtonA \/ PollButtonB
  BY <1>2, <1>8
  DEF SampleA, SampleB, PollButtonA, PollButtonB, PInv, Driving
<1>9. CASE PollKeypad
  BY <1>1, <1>2, <1>9, CallCredit, QuietStep DEF PollKeypad, CallPoll, chip
<1>10. CASE KeypadPolled
  <2>1. op = "poll" /\ Return /\ ret \in BOOLEAN
    BY <1>10 DEF KeypadPolled, PInv, Driving, IInv, TcaTypeOK
  <2>2. down' = down
    BY <2>1 DEF Return, chip
  <2>3. /\ request = "open"
        /\ ret => request' = "confirmed"
        /\ ~ret => request' \in {request, "refused"}
    BY <1>10, <2>1, PollReturnsQuietly DEF KeypadPolled
  <2>4. CASE ret
    <3>1. Credit > 0 /\ Credit' = Credit - 1
      BY <1>1, <1>2, <2>1, <2>4, ReturnCredit
    <3> QED BY <2>2, <2>3, <2>4, <3>1 DEF UP!Next, UP!Confirm
  <2>5. CASE ~ret
    <3>1. Credit' = Credit
      BY <1>1, <1>2, <2>1, <2>5, ReturnCredit
    <3> QED BY <1>1, <2>2, <2>3, <2>5, <3>1, QuietStep
  <2> QED BY <2>4, <2>5
<1>11. CASE Delay
  <2>1. request = "open"
    BY <1>11 DEF Delay, PInv, Calling
  <2> QED
    BY <1>1, <1>2, <1>11, <2>1, StillCredit, QuietStep
    DEF Delay, Leave, tcaVars, chip
<1>12. CASE KeypadStep
  <2>1. down' = down
    BY <1>12 DEF KeypadStep, DriverStep, AddDevice, WriteRegister, ReadCount,
                 ReadEvent, ClearInterrupt, chip
  <2> QED
    BY <1>1, <1>2, <1>12, <2>1, DriverCredit, QuietStep
    DEF KeypadStep, presenceVars
<1>13. CASE Restart
  BY <1>1, <1>2, <1>13, LostCredit, QuietStep DEF Restart, DriverLost, chip
<1>14. CASE \E k \in Keys : UserStep(k)
  <2>1. PICK k \in Keys : PressKey(k) \/ ReleaseKey(k)
    BY <1>2, <1>14 DEF UserStep, PressButton, ReleaseButton
  <2>2. CASE PressKey(k)
    <3>1. Credit' \in {Credit, Credit + 1}
      BY <1>1, <1>2, <2>2, KeyCredit DEF PressKey
    <3> QED
      BY <2>2, <3>1 DEF PressKey, Press, presenceVars, UP!Next, UP!Press
  <2>3. CASE ReleaseKey(k)
    <3>1. Credit' = Credit
      BY <1>1, <1>2, <2>3, KeyCredit DEF ReleaseKey
    <3>2. UP!Release(k)
      BY <1>1, <2>3, <3>1 DEF ReleaseKey, Release, presenceVars, UP!Release
    <3> QED BY <3>2 DEF UP!Next
  <2> QED BY <2>1, <2>2, <2>3
<1> QED
  BY <1>3, <1>4, <1>5, <1>6, <1>7, <1>8, <1>9, <1>10, <1>11, <1>12, <1>13, <1>14
  DEF Next, Firmware

LEMMA ContractInit == Init => UP!Init
<1> SUFFICES ASSUME Init PROVE UP!Init
  OBVIOUS
<1>1. Presses(fifo) = 0 /\ Pending = 0
  BY PressesEmpty DEF Init, TcaInit, Pending
<1>2. Credit = 0
  BY <1>1 DEF Init, TcaInit, Credit, KeypadCredit, ButtonArmed
<1> QED BY <1>2 DEF UP!Init, Init, TcaInit

LEMMA UnchangedContract == UNCHANGED vars => UNCHANGED UP!upVars
BY DEF vars, tcaVars, chip, driver, presenceVars, statics, UP!upVars, Credit,
       KeypadCredit, Pending, ButtonArmed, Keyboard, KeyA, KeyB

\* On the keyboard a confirmation costs one queued press, whatever fails and
\* however often the firmware restarts.
THEOREM KeyboardContract == Keyboard => (Safety => Contract)
<1> SUFFICES ASSUME Keyboard PROVE Safety => Contract
  OBVIOUS
<1>1. PInv /\ [Next]_vars => [UP!Next]_(UP!upVars)
  BY KeyboardStep, UnchangedContract
<1> QED
  BY <1>1, ContractInit, PresenceInvariant, PTL DEF Safety, Contract, UP!Spec

(***************************************************************************)
(* The buttons, with a bring-up that succeeds.                             *)
(***************************************************************************)
LEMMA ButtonPins ==
  ASSUME Buttons
  PROVE  KeyA = 11 /\ KeyB = 12 /\ Keys = {KeyA, KeyB}
BY BoardAssumption, ButtonsAssumption
DEF Buttons, KeyA, KeyB, Board, cardputer_adv_desc, stick_s3_desc

\* A configured pin reads as what the button is.
LEMMA ConfiguredPin ==
  ASSUME Buttons, gpioReady, NEW gpio \in {KeyA, KeyB},
         NEW pressed \in gpio_is_pressed(gpio)
  PROVE  pressed = (gpio \in down)
<1>1. ~(gpio < 0)
  BY ButtonPins
<1>2. gpio_is_pressed(gpio) = {gpio \in down}
  BY <1>1, Zenon DEF gpio_is_pressed
<1> QED BY <1>2, Zenon

BroughtUp ==
  ppc \in {"idle", "poll", "scan", "pollB", "delay"} => s_presence_initialized

LEMMA NoFaults ==
  ASSUME MaxFaults = 0, PInv, NEW reached
  PROVE  ~Transfer(FALSE, reached)
<1>1. faults \in 0..0
  BY DEF PInv, IInv, TcaTypeOK
<1> QED BY <1>1 DEF Transfer

LEMMA BroughtUpStep ==
  ASSUME Buttons, MaxFaults = 0, PInv, BroughtUp, Next
  PROVE  BroughtUp'
<1> USE DEF BroughtUp
<1>0. ~Keyboard /\ Ready /\ Driving
  BY BoardKinds DEF PInv
<1>1. CASE Boot \/ Restart
  BY <1>1 DEF Boot, Restart
<1>2. CASE Host
  BY <1>0, <1>2 DEF Host, Ask, statics, Ready
<1>3. CASE InitEarly \/ InitPeripherals
  BY <1>0, <1>3, NoFaults DEF InitEarly, InitPeripherals
<1>4. CASE KeypadReady
  BY <1>0, <1>4 DEF KeypadReady, Driving
<1>5. CASE SampleA
  BY <1>5 DEF SampleA
<1>6. CASE SampleB
  BY <1>6 DEF SampleB
<1>7. CASE PollKeypad \/ KeypadPolled \/ Delay
  BY <1>7 DEF PollKeypad, KeypadPolled, Delay, statics
<1>8. CASE PollButtonA \/ PollButtonB
  BY <1>8 DEF PollButtonA, PollButtonB
<1>9. CASE KeypadStep \/ \E k \in Keys : UserStep(k)
  BY <1>9 DEF KeypadStep, UserStep, PressKey, ReleaseKey, PressButton,
              ReleaseButton, presenceVars, statics
<1> QED
  BY <1>1, <1>2, <1>3, <1>4, <1>5, <1>6, <1>7, <1>8, <1>9 DEF Next, Firmware

\* Arming and disarming as credit.
LEMMA ArmedCredit ==
  ASSUME Buttons
  PROVE  /\ (ButtonArmed' => ButtonArmed) => Credit' \in 0..Credit
         /\ (ButtonArmed => ButtonArmed') => Credit' \in {Credit, Credit + 1}
         /\ ButtonArmed /\ ~ButtonArmed' => Credit > 0 /\ Credit' = Credit - 1
<1>1. ~Keyboard
  BY BoardKinds
<1>2. /\ Credit = IF ButtonArmed THEN 1 ELSE 0
      /\ Credit' = IF ButtonArmed' THEN 1 ELSE 0
  BY <1>1 DEF Credit, Keyboard
<1> QED BY <1>2

\* The two readings of one sample, and of one poll.
LEMMA SampleStep ==
  ASSUME Buttons, MaxFaults = 0, PInv, BroughtUp, SampleA \/ SampleB
  PROVE  UP!Next
<1>1. Initialising /\ Calling /\ Ready /\ gpioReady /\ ~s_presence_initialized
  BY DEF PInv, Ready, SampleA, SampleB, Initialising
<1>2. down' = down
  BY DEF SampleA, SampleB, tcaVars, chip
<1>3. \/ request' = request
      \/ request = "open" /\ request' = "refused"
  BY <1>1, InitReturnsQuietly DEF SampleA, SampleB
<1>4. CASE SampleA
  <2>1. PICK pressed \in gpio_is_pressed(KeyA) :
          IF pressed
          THEN /\ s_gpio_last_pressed' = TRUE /\ InitReturns(TRUE)
          ELSE ppc' = "sampleB"
    BY <1>4 DEF SampleA
  <2>2. pressed = (KeyA \in down)
    BY <1>1, ConfiguredPin
  <2>3. CASE pressed
    <3>1. ppc' \in {"idle", "poll"} /\ s_gpio_last_pressed'
      BY <2>1, <2>3 DEF InitReturns, Answer, Leave
    <3> QED BY <3>1, <1>2, <1>3, ArmedCredit, QuietStep DEF ButtonArmed
  <2>4. CASE ~pressed
    <3>1. ~ButtonArmed'
      BY <2>1, <2>2, <2>4, <1>2 DEF ButtonArmed, KeyA
    <3> QED BY <3>1, <1>2, <1>3, ArmedCredit, QuietStep
  <2> QED BY <2>3, <2>4
<1>5. CASE SampleB
  <2>1. PICK pressed \in gpio_is_pressed(KeyB) : s_gpio_last_pressed' = pressed
    BY <1>5 DEF SampleB
  <2>2. s_gpio_last_pressed' = (KeyB \in down)
    BY <2>1, <1>1, ConfiguredPin
  <2>3. ppc' \in {"idle", "poll"}
    BY <1>5 DEF SampleB, InitReturns, Answer, Leave
  <2>4. ButtonArmed' => ButtonArmed
    <3>1. ButtonArmed' => down # {} /\ KeyB \notin down
      BY <2>2, <2>3, <1>2 DEF ButtonArmed
    <3>2. down \subseteq {KeyA, KeyB}
      BY ButtonPins DEF PInv, IInv, TcaTypeOK
    <3>3. ppc = "sampleB"
      BY <1>5 DEF SampleB
    <3> QED BY <3>1, <3>2, <3>3 DEF ButtonArmed
  <2> QED BY <1>2, <1>3, <2>4, ArmedCredit, QuietStep
<1> QED BY <1>4, <1>5

LEMMA PollButtonStep ==
  ASSUME Buttons, MaxFaults = 0, PInv, BroughtUp, PollButtonA \/ PollButtonB
  PROVE  UP!Next
<1>1. /\ ppc \in {"poll", "pollB"} /\ s_presence_initialized /\ gpioReady
      /\ s_gpio_last_pressed \in BOOLEAN
  BY DEF PollButtonA, PollButtonB, PInv, Ready, BroughtUp, PresenceTypeOK
<1>2. down' = down /\ s_presence_initialized' = s_presence_initialized
  BY DEF PollButtonA, PollButtonB, tcaVars, chip
<1>3. down \subseteq {KeyA, KeyB}
  BY ButtonPins DEF PInv, IInv, TcaTypeOK
<1>4. ASSUME NEW now \in BOOLEAN, RisingEdge(now),
             now /\ ~s_gpio_last_pressed => ButtonArmed,
             ~now => (down # {} => ButtonArmed)
      PROVE  UP!Next
  <2>1. s_gpio_last_pressed' = now /\ PollReturns(now /\ ~s_gpio_last_pressed)
    BY <1>4 DEF RisingEdge
  <2>2. ppc' \in {"idle", "delay"}
    BY <2>1, <1>1 DEF PollReturns, Answer, Leave, PInv, Calling
  <2>3. ButtonArmed' <=> (down # {} /\ ~now)
    BY <2>1, <2>2, <1>1, <1>2 DEF ButtonArmed
  <2>4. (now /\ ~s_gpio_last_pressed) \in BOOLEAN
    OBVIOUS
  <2>5. CASE now /\ ~s_gpio_last_pressed
    <3>1. request = "open" /\ request' = "confirmed"
      BY <2>1, <2>4, <2>5, <1>1, PollReturnsQuietly
    <3>2. Credit > 0 /\ Credit' = Credit - 1
      BY <2>3, <2>5, <1>4, ArmedCredit
    <3> QED BY <3>1, <3>2, <1>2 DEF UP!Next, UP!Confirm
  <2>6. CASE ~(now /\ ~s_gpio_last_pressed)
    <3>1. request = "open" /\ request' \in {request, "refused"}
      BY <2>1, <2>4, <2>6, <1>1, PollReturnsQuietly
    <3>2. Credit' \in 0..Credit
      BY <2>3, <1>4, ArmedCredit
    <3> QED BY <3>1, <3>2, <1>2, QuietStep
  <2> QED BY <2>5, <2>6
<1>5. CASE PollButtonA
  <2>1. PICK pressed \in gpio_is_pressed(KeyA) :
          IF pressed THEN RisingEdge(TRUE)
          ELSE ppc' = "pollB" /\ UNCHANGED <<s_gpio_last_pressed, callVars, request>>
    BY <1>5 DEF PollButtonA
  <2>2. pressed = (KeyA \in down) /\ ppc = "poll"
    BY <1>1, <1>5, ConfiguredPin DEF PollButtonA
  <2>3. CASE pressed
    <3>1. ~s_gpio_last_pressed => ButtonArmed
      BY <2>2, <2>3, <1>1 DEF ButtonArmed
    <3> QED BY <2>1, <2>3, <3>1, <1>4
  <2>4. CASE ~pressed
    <3>1. ButtonArmed' <=> KeyB \in down /\ ~s_gpio_last_pressed
      BY <2>1, <2>2, <2>4, <1>2 DEF ButtonArmed, KeyA, KeyB
    <3>2. KeyB \in down /\ ~s_gpio_last_pressed => ButtonArmed
      BY <2>2, <1>1 DEF ButtonArmed
    <3>3. request' = request
      BY <2>1, <2>4
    <3> QED BY <3>1, <3>2, <3>3, <1>2, ArmedCredit, QuietStep
  <2> QED BY <2>3, <2>4
<1>6. CASE PollButtonB
  <2>1. PICK pressed \in gpio_is_pressed(KeyB) : RisingEdge(pressed)
    BY <1>6 DEF PollButtonB
  <2>2. pressed = (KeyB \in down) /\ ppc = "pollB"
    BY <2>1, <1>1, <1>6, ConfiguredPin DEF PollButtonB
  <2>3. pressed /\ ~s_gpio_last_pressed => ButtonArmed
    BY <2>2 DEF ButtonArmed
  <2>4. ~pressed => (down # {} => ButtonArmed)
    BY <2>2, <1>3 DEF ButtonArmed
  <2>5. pressed \in BOOLEAN
    BY <2>2
  <2> QED BY <2>1, <2>3, <2>4, <2>5, <1>4
<1> QED BY <1>5, <1>6

LEMMA ButtonsStep ==
  ASSUME Buttons, MaxFaults = 0, PInv, BroughtUp, Next
  PROVE  UP!Next
<1>1. ~Keyboard /\ Ready /\ Driving
  BY BoardKinds DEF PInv
<1>2. CASE SampleA \/ SampleB \/ PollButtonA \/ PollButtonB
  BY <1>2, SampleStep, PollButtonStep
<1>3. CASE KeypadReady \/ KeypadPolled \/ PollKeypad \/ KeypadStep
  BY <1>1, <1>3, DriverStepKeeps
  DEF KeypadReady, KeypadPolled, PollKeypad, KeypadStep, Driving
<1>4. CASE InitEarly \/ InitPeripherals
  <2>1. /\ request' = request /\ down' = down
        /\ ppc' \in {"peripherals", "sampleA"}
        /\ s_presence_initialized' = s_presence_initialized
    BY <1>1, <1>4, NoFaults DEF InitEarly, InitPeripherals, chip
  <2>2. ~s_presence_initialized
    BY <1>1, <1>4 DEF InitEarly, InitPeripherals, Ready
  <2> QED BY <2>1, <2>2, ArmedCredit, QuietStep DEF ButtonArmed
<1>5. CASE Host
  <2>1. /\ ppc = "idle" /\ ppc' \in {"poll", "early"}
        /\ UNCHANGED <<down, s_presence_initialized, s_gpio_last_pressed>>
    BY <1>5 DEF Host, Ask, tcaVars, chip, statics
  <2>2. ButtonArmed' <=> ButtonArmed
    BY <2>1 DEF ButtonArmed
  <2>3. Credit' = Credit
    BY <1>1, <2>2 DEF Credit, Keyboard
  <2> QED BY <1>5, <2>3, AskStep
<1>6. CASE Boot \/ Restart
  <2>1. /\ request' \in {request, "none"} /\ down' = down
        /\ ppc' \in {"early", "off"} /\ ~s_presence_initialized'
    BY <1>1, <1>6 DEF Boot, Restart, tcaVars, chip, statics, Ready
  <2> QED BY <2>1, ArmedCredit, QuietStep DEF ButtonArmed
<1>7. CASE Delay
  <2>1. /\ request = "open" /\ request' \in {request, "refused"}
        /\ ppc = "delay" /\ ppc' \in {"poll", "idle"}
        /\ UNCHANGED <<down, s_presence_initialized, s_gpio_last_pressed>>
    BY <1>7 DEF Delay, Leave, tcaVars, chip, statics, PInv, Calling
  <2> QED BY <2>1, ArmedCredit, QuietStep DEF ButtonArmed
<1>8. CASE \E k \in Keys : UserStep(k)
  <2>1. PICK k \in Keys : PressButton(k) \/ ReleaseButton(k)
    BY <1>1, <1>8 DEF UserStep, PressKey, ReleaseKey
  <2>2. UNCHANGED <<ppc, request, s_presence_initialized, s_gpio_last_pressed>>
    BY <2>1 DEF PressButton, ReleaseButton, presenceVars, statics
  <2>3. CASE PressButton(k)
    <3>1. down \subseteq down' /\ (down # {} => down' # {})
      BY <2>3 DEF PressButton
    <3>2. ButtonArmed => ButtonArmed'
      BY <2>2, <3>1 DEF ButtonArmed, KeyA, KeyB
    <3> QED
      BY <2>2, <2>3, <3>2, ArmedCredit DEF PressButton, UP!Next, UP!Press
  <2>4. CASE ReleaseButton(k)
    <3>1. down' \subseteq down /\ (down' # {} => down # {})
      BY <2>4 DEF ReleaseButton
    <3>2. ButtonArmed' => ButtonArmed
      BY <2>2, <3>1 DEF ButtonArmed, KeyA, KeyB
    <3> QED
      BY <2>2, <2>4, <3>2, ArmedCredit DEF ReleaseButton, UP!Next, UP!Release
  <2> QED BY <2>1, <2>3, <2>4
<1> QED
  BY <1>2, <1>3, <1>4, <1>5, <1>6, <1>7, <1>8 DEF Next, Firmware

\* On the buttons a confirmation costs one press, if no call fails: with the
\* pins Left unconfigured by a failing bring-up it does not hold.
THEOREM ButtonsContract ==
  Buttons /\ MaxFaults = 0 => (Safety => Contract)
<1> SUFFICES ASSUME Buttons, MaxFaults = 0 PROVE Safety => Contract
  OBVIOUS
<1>1. Init => BroughtUp
  BY DEF Init, BroughtUp
<1>2. PInv /\ BroughtUp /\ [Next]_vars => BroughtUp'
  <2>1. UNCHANGED vars /\ BroughtUp => BroughtUp'
    BY DEF vars, presenceVars, statics, BroughtUp
  <2> QED BY <2>1, BroughtUpStep
<1>3. PInv /\ BroughtUp /\ [Next]_vars => [UP!Next]_(UP!upVars)
  BY ButtonsStep, UnchangedContract
<1> QED
  BY <1>1, <1>2, <1>3, ContractInit, PresenceInvariant, PTL
  DEF Safety, Contract, UP!Spec
=============================================================================
