--------------------------- MODULE Tca8418Proofs ---------------------------
(***************************************************************************)
(* Proofs about the keypad driver for every set of keys, every FIFO depth  *)
(* the chip's four-bit counter allows, every loop bound at least as large, *)
(* and any number of failures.                                             *)
(***************************************************************************)
EXTENDS Tca8418, TLAPS, FiniteSetTheorems, SequenceTheorems

(***************************************************************************)
(* How many presses a FIFO holds when an event is queued or taken off.     *)
(* Stated for any sequence of events, so that the driver's and the API's   *)
(* proofs can use them alike.                                              *)
(***************************************************************************)
PressedAt(s) == {i \in 1..Len(s) : s[i] = "press"}
Worth(e) == IF e = "press" THEN 1 ELSE 0

LEMMA PressedAtFinite ==
  ASSUME NEW s \in Seq(Events)
  PROVE  /\ IsFiniteSet(PressedAt(s))
         /\ Presses(s) = Cardinality(PressedAt(s))
         /\ Presses(s) \in Nat
<1>1. Len(s) \in Nat
  BY LenProperties
<1>2. IsFiniteSet(1..Len(s))
  BY <1>1, FS_Interval
<1>3. IsFiniteSet(PressedAt(s))
  BY <1>2, FS_Subset DEF PressedAt
<1>4. Presses(s) = Cardinality(PressedAt(s))
  BY DEF Presses, PressedAt
<1> QED BY <1>3, <1>4, FS_CardinalityType

LEMMA PressesEmpty == Presses(<<>>) = 0
<1>1. {i \in 1..Len(<<>>) : <<>>[i] = "press"} = {}
  BY EmptySeq
<1> QED BY <1>1, FS_EmptySet DEF Presses

\* Queueing an event adds what it is worth.
LEMMA PressesAppend ==
  ASSUME NEW s \in Seq(Events), NEW e \in Events
  PROVE  Presses(Append(s, e)) = Presses(s) + Worth(e)
<1> DEFINE t == Append(s, e)
<1>1. /\ t \in Seq(Events)
      /\ Len(t) = Len(s) + 1
      /\ \A i \in 1..Len(s) : t[i] = s[i]
      /\ t[Len(s) + 1] = e
      /\ Len(s) \in Nat
  BY AppendProperties, LenProperties
<1>2. Presses(t) = Cardinality(PressedAt(t))
  BY <1>1, PressedAtFinite
<1>3. CASE e = "press"
  <2>1. PressedAt(t) = PressedAt(s) \cup {Len(s) + 1}
    BY <1>1, <1>3 DEF PressedAt
  <2>2. Len(s) + 1 \notin PressedAt(s)
    BY <1>1 DEF PressedAt
  <2>3. Cardinality(PressedAt(t)) = Cardinality(PressedAt(s)) + 1
    BY <2>1, <2>2, PressedAtFinite, FS_AddElement
  <2> QED BY <1>2, <1>3, <2>3, PressedAtFinite DEF Worth
<1>4. CASE e # "press"
  <2>1. PressedAt(t) = PressedAt(s)
    BY <1>1, <1>4 DEF PressedAt
  <2> QED BY <1>2, <1>4, <2>1, PressedAtFinite DEF Worth
<1> QED BY <1>3, <1>4

\* Taking the oldest event off takes away what it is worth.
LEMMA PressesTail ==
  ASSUME NEW s \in Seq(Events), s # <<>>
  PROVE  Presses(s) = Presses(Tail(s)) + Worth(Head(s))
<1> DEFINE t == Tail(s)
           f == [i \in PressedAt(t) |-> i + 1]
<1>1. /\ t \in Seq(Events)
      /\ Len(t) = Len(s) - 1
      /\ \A i \in 1..Len(t) : t[i] = s[i + 1]
      /\ Len(s) \in Nat \ {0}
      /\ Len(t) \in Nat
  BY HeadTailProperties, EmptySeq, LenProperties
<1>2. Head(s) = s[1]
  OBVIOUS
<1>3. f \in Bijection(PressedAt(t), PressedAt(s) \ {1})
  <2>1. \A i \in PressedAt(t) : i + 1 \in PressedAt(s) \ {1}
    BY <1>1 DEF PressedAt
  <2>2. \A j \in PressedAt(s) \ {1} : j - 1 \in PressedAt(t) /\ (j - 1) + 1 = j
    BY <1>1 DEF PressedAt
  <2>3. f \in [PressedAt(t) -> PressedAt(s) \ {1}]
    BY <2>1
  <2>4. \A i, j \in PressedAt(t) : f[i] = f[j] => i = j
    BY <1>1 DEF PressedAt
  <2>5. \A j \in PressedAt(s) \ {1} : \E i \in PressedAt(t) : f[i] = j
    BY <2>2
  <2> QED BY <2>3, <2>4, <2>5 DEF Bijection, Injection, IsInjective, Surjection
<1>4. Cardinality(PressedAt(s) \ {1}) = Presses(t)
  <2>1. ExistsBijection(PressedAt(t), PressedAt(s) \ {1})
    BY <1>3 DEF ExistsBijection
  <2>2. IsFiniteSet(PressedAt(t)) /\ Presses(t) = Cardinality(PressedAt(t))
    BY <1>1, PressedAtFinite
  <2> HIDE DEF t, f
  <2>3. Cardinality(PressedAt(t)) = Cardinality(PressedAt(s) \ {1})
    BY <2>1, <2>2, FS_Bijection
  <2> QED BY <2>2, <2>3
<1>5. CASE Head(s) = "press"
  <2>1. 1 \in PressedAt(s)
    BY <1>1, <1>2, <1>5 DEF PressedAt
  <2>2. Cardinality(PressedAt(s) \ {1}) = Cardinality(PressedAt(s)) - 1
    BY <2>1, PressedAtFinite, FS_RemoveElement
  <2>3. Presses(s) - 1 = Presses(t)
    BY <2>2, <1>4, PressedAtFinite
  <2>4. Presses(s) \in Nat /\ Presses(t) \in Nat
    BY <1>1, PressedAtFinite
  <2> QED BY <2>3, <2>4, <1>5 DEF Worth
<1>6. CASE Head(s) # "press"
  <2>1. 1 \notin PressedAt(s)
    BY <1>1, <1>2, <1>6 DEF PressedAt
  <2>2. PressedAt(s) \ {1} = PressedAt(s)
    BY <2>1
  <2>3. Presses(s) = Presses(t) /\ Presses(t) \in Nat
    BY <2>2, <1>1, <1>4, PressedAtFinite
  <2> QED BY <2>3, <1>6 DEF Worth
<1> QED BY <1>5, <1>6

(***************************************************************************)
(* The FIFO.                                                               *)
(***************************************************************************)

\* Queueing an event keeps the FIFO within its depth, and never takes away
\* what is already queued.
LEMMA QueueBound ==
  ASSUME fifo \in Seq(Events), Len(fifo) <= FifoDepth,
         NEW e \in Events, Queue(e)
  PROVE  /\ fifo' \in Seq(Events)
         /\ Len(fifo') <= FifoDepth
         /\ Len(fifo') >= Len(fifo)
<1>1. Len(fifo) \in Nat /\ FifoDepth \in Nat
  BY FifoAssumption, LenProperties
<1>2. CASE Len(fifo) < FifoDepth
  <2>1. fifo' = Append(fifo, e)
    BY <1>2 DEF Queue
  <2>2. fifo' \in Seq(Events) /\ Len(fifo') = Len(fifo) + 1
    BY <2>1, AppendProperties
  <2> QED BY <2>2, <1>1, <1>2
<1>3. CASE ~(Len(fifo) < FifoDepth)
  BY <1>3, <1>1 DEF Queue
<1> QED BY <1>2, <1>3

\* Taking the oldest event off a FIFO that is not empty.
LEMMA TakeBound ==
  ASSUME fifo \in Seq(Events), fifo # <<>>
  PROVE  /\ Head(fifo) \in Events
         /\ Tail(fifo) \in Seq(Events)
         /\ Len(Tail(fifo)) = Len(fifo) - 1
         /\ Len(fifo) \in Nat /\ Len(fifo) > 0
BY HeadTailProperties, LenProperties, EmptySeq

(***************************************************************************)
(* The invariant that makes the ten iterations of a poll enough: at        *)
(* iteration n at most FifoDepth - n of the events that were queued when   *)
(* the poll began are still there.                                         *)
(***************************************************************************)
Where ==
  /\ tpc \in {"add", "write"} => op = "init"
  /\ tpc \in {"count", "event", "clear"} => op = "poll"
  /\ tpc = "idle" => op = "none"
  /\ tpc = "event" => fifo # <<>>
  /\ tpc = "clear" => event \in Events
  /\ tpc # "clear" => event = "none"

Countdown ==
  /\ backlog <= Len(fifo)
  /\ tpc \in {"count", "event"} => backlog = 0 \/ backlog + n <= FifoDepth
  /\ tpc = "clear" => backlog = 0 \/ backlog + n + 1 <= FifoDepth

IInv == TcaTypeOK /\ Where /\ Countdown /\ DrainComplete

FlagsOK == dev \in BOOLEAN /\ ret \in BOOLEAN /\ clean \in BOOLEAN

LEMMA InitIInv == TcaInit => IInv
<1> SUFFICES ASSUME TcaInit PROVE IInv
  OBVIOUS
<1>1. fifo = <<>> /\ fifo \in Seq(Events) /\ Len(fifo) = 0
  BY EmptySeq DEF TcaInit
<1>2. FlagsOK
  BY DEF TcaInit, FlagsOK
<1>2a. TcaTypeOK
  BY <1>1, <1>2, FifoAssumption, FaultsAssumption DEF TcaInit, TcaTypeOK, FlagsOK
<1>3. Where
  BY DEF TcaInit, Where
<1>4. Countdown
  BY <1>1 DEF TcaInit, Countdown
<1>5. DrainComplete
  BY DEF TcaInit, DrainComplete
<1> QED BY <1>2a, <1>3, <1>4, <1>5 DEF IInv

LEMMA UserIInv ==
  ASSUME IInv, NEW k \in Keys, Press(k) \/ Release(k)
  PROVE  IInv'
<1> USE DEF IInv
<1>1. fifo' \in Seq(Events) /\ Len(fifo') <= FifoDepth /\ Len(fifo') >= Len(fifo)
  <2>1. CASE Press(k)
    BY <2>1, QueueBound DEF Press, TcaTypeOK, Events
  <2>2. CASE Release(k)
    BY <2>2, QueueBound DEF Release, TcaTypeOK, Events
  <2> QED BY <2>1, <2>2
<1>2. Len(fifo) \in Nat /\ Len(fifo') \in Nat
  BY <1>1, LenProperties DEF TcaTypeOK
<1>3. down' \subseteq Keys /\ UNCHANGED <<matrix, driver, faults>>
  BY DEF Press, Release, TcaTypeOK
<1>4. TcaTypeOK'
  BY <1>1, <1>3 DEF TcaTypeOK, driver
<1>5. fifo' # <<>> \/ fifo = <<>>
  BY <1>1, <1>2, EmptySeq DEF TcaTypeOK
<1>6. Where'
  BY <1>3, <1>5 DEF Where, driver
<1>7. Countdown' /\ DrainComplete'
  BY <1>1, <1>2, <1>3 DEF Countdown, DrainComplete, driver, TcaTypeOK
<1> QED BY <1>4, <1>6, <1>7

LEMMA TransferFaults ==
  ASSUME faults \in 0..MaxFaults, NEW ok, NEW reached, Transfer(ok, reached)
  PROVE  faults' \in 0..MaxFaults
<1>1. faults' = faults \/ (faults > 0 /\ faults' = faults - 1)
  BY DEF Transfer
<1> QED BY <1>1, FaultsAssumption

\* The flags of the driver stay Boolean.
LEMMA FlagsStep ==
  ASSUME FlagsOK, CallInit \/ CallPoll \/ Return \/ DriverStep
  PROVE  FlagsOK'
<1>1. CASE CallInit \/ CallPoll \/ Return
  BY <1>1 DEF CallInit, CallPoll, Return, FlagsOK
<1>2. CASE AddDevice
  BY <1>2 DEF AddDevice, Finish, FlagsOK
<1>3. CASE WriteRegister
  BY <1>3 DEF WriteRegister, Finish, FlagsOK
<1>4. CASE ReadCount
  BY <1>4 DEF ReadCount, Finish, FlagsOK
<1>5. CASE ReadEvent
  BY <1>5 DEF ReadEvent, Finish, FlagsOK
<1>6. CASE ClearInterrupt
  BY <1>6 DEF ClearInterrupt, Finish, FlagsOK
<1> QED BY <1>1, <1>2, <1>3, <1>4, <1>5, <1>6 DEF DriverStep

LEMMA CallIInv ==
  ASSUME IInv, CallInit \/ CallPoll \/ Return
  PROVE  IInv'
<1> USE DEF IInv
<1>1. Len(fifo) \in Nat
  BY LenProperties DEF TcaTypeOK
<1>2. CASE CallInit
  BY <1>2, <1>1 DEF CallInit, chip, TcaTypeOK, Where, Countdown, DrainComplete
<1>3. CASE CallPoll
  BY <1>3, <1>1, FifoAssumption, PollAssumption
  DEF CallPoll, chip, TcaTypeOK, Where, Countdown, DrainComplete
<1>4. CASE Return
  <2>1. /\ tpc' = "idle" /\ op' = "none" /\ n' = 0 /\ backlog' = 0
        /\ event = "none"
        /\ UNCHANGED <<down, matrix, fifo, event, faults>>
    BY <1>4 DEF Return, chip, Where
  <2>2. FlagsOK'
    BY <1>4, FlagsStep DEF TcaTypeOK, FlagsOK
  <2>3. TcaTypeOK'
    BY <2>1, <2>2, FifoAssumption DEF TcaTypeOK, FlagsOK
  <2>4. Where' /\ Countdown' /\ DrainComplete'
    BY <2>1, <1>1 DEF Where, Countdown, DrainComplete
  <2> QED BY <2>3, <2>4
<1> QED BY <1>2, <1>3, <1>4

LEMMA AddDeviceIInv ==
  ASSUME IInv, AddDevice
  PROVE  IInv'
<1> USE DEF IInv
<1>1. faults' \in 0..MaxFaults
  BY TransferFaults DEF AddDevice, TcaTypeOK
<1>2. FlagsOK'
  BY FlagsStep DEF TcaTypeOK, FlagsOK, DriverStep
<1>3. /\ tpc = "add" /\ op' = "init" /\ tpc' \in {"write", "done"}
      /\ event' = "none"
      /\ UNCHANGED <<down, matrix, fifo, op, n, backlog>>
  BY DEF AddDevice, Finish, chip, Where
<1>4. TcaTypeOK'
  BY <1>1, <1>2, <1>3 DEF TcaTypeOK, FlagsOK
<1>5. Where' /\ Countdown' /\ DrainComplete'
  BY <1>3 DEF Where, Countdown, DrainComplete
<1> QED BY <1>4, <1>5

LEMMA WriteRegisterIInv ==
  ASSUME IInv, WriteRegister
  PROVE  IInv'
<1> USE DEF IInv
<1>1. faults' \in 0..MaxFaults
  BY TransferFaults DEF WriteRegister, TcaTypeOK
<1>2. FlagsOK'
  BY FlagsStep DEF TcaTypeOK, FlagsOK, DriverStep
<1>3. /\ tpc = "write" /\ op' = "init" /\ tpc' \in {"write", "done"}
      /\ event' = "none"
      /\ n' = n \/ n' = n + 1
      /\ UNCHANGED <<down, fifo, op, backlog>>
  BY DEF WriteRegister, Finish, Where
<1>4. matrix' \subseteq MatrixRegisters
  BY DEF WriteRegister, TcaTypeOK
<1>5. TcaTypeOK'
  BY <1>1, <1>2, <1>3, <1>4 DEF TcaTypeOK, FlagsOK
<1>6. Where' /\ Countdown' /\ DrainComplete'
  BY <1>3 DEF Where, Countdown, DrainComplete
<1> QED BY <1>5, <1>6

LEMMA ReadCountIInv ==
  ASSUME IInv, ReadCount
  PROVE  IInv'
<1> USE DEF IInv
<1>1. Len(fifo) \in 0..15 /\ EventCount = Len(fifo)
  <2>1. fifo \in Seq(Events) /\ Len(fifo) <= FifoDepth
    BY DEF TcaTypeOK
  <2>2. Len(fifo) \in Nat
    BY <2>1, LenProperties
  <2>3. Len(fifo) \in 0..15
    <3>1. \A i \in Nat : i <= FifoDepth => i \in 0..15
      BY FifoAssumption
    <3> QED BY <2>1, <2>2, <3>1
  <2>4. \A i \in 0..15 : i % 16 = i
    OBVIOUS
  <2> QED BY <2>3, <2>4 DEF EventCount
<1>2. Len(fifo) > 0 => fifo # <<>>
  BY <1>1, EmptySeq
<1>3. faults' \in 0..MaxFaults
  BY TransferFaults DEF ReadCount, TcaTypeOK
<1>4. FlagsOK'
  BY FlagsStep DEF TcaTypeOK, FlagsOK, DriverStep
<1>5. /\ tpc = "count" /\ op' = "poll" /\ event' = "none"
      /\ UNCHANGED <<down, matrix, fifo, op, n, backlog>>
  BY DEF ReadCount, Finish, chip, Where
<1>6. \/ tpc' = "event" /\ EventCount > 0
      \/ tpc' = "done" /\ EventCount = 0
      \/ tpc' = "done" /\ clean' = FALSE
  BY DEF ReadCount, Finish
<1>7. TcaTypeOK'
  BY <1>3, <1>4, <1>5, <1>6 DEF TcaTypeOK, FlagsOK
<1>8. Where' /\ Countdown'
  BY <1>1, <1>2, <1>5, <1>6 DEF Where, Countdown
<1>9. DrainComplete'
  <2>1. EventCount = 0 => backlog' = 0
    BY <1>1, <1>5 DEF Countdown, TcaTypeOK
  <2> QED BY <1>6, <2>1 DEF DrainComplete
<1> QED BY <1>7, <1>8, <1>9

LEMMA ReadEventIInv ==
  ASSUME IInv, ReadEvent
  PROVE  IInv'
<1> USE DEF IInv
<1>1. tpc = "event" /\ op' = "poll" /\ UNCHANGED <<down, matrix, op, n>>
  BY DEF ReadEvent, Where
<1>2. fifo \in Seq(Events) /\ fifo # <<>>
  BY <1>1 DEF Where, TcaTypeOK
<1>3. /\ Head(fifo) \in Events
      /\ Tail(fifo) \in Seq(Events)
      /\ Len(Tail(fifo)) = Len(fifo) - 1
      /\ Len(fifo) \in Nat /\ Len(fifo) > 0
  BY <1>2, TakeBound
<1>4. faults' \in 0..MaxFaults
  BY TransferFaults DEF ReadEvent, TcaTypeOK
<1>5. FlagsOK'
  BY FlagsStep DEF TcaTypeOK, FlagsOK, DriverStep
<1>6. \/ /\ fifo' = Tail(fifo)
         /\ backlog' = IF backlog > 0 THEN backlog - 1 ELSE backlog
      \/ fifo' = fifo /\ backlog' = backlog /\ tpc' = "done"
  BY DEF ReadEvent, Transfer, Finish
<1>7. \/ tpc' = "clear" /\ event' = Head(fifo) /\ fifo' = Tail(fifo)
      \/ tpc' = "done" /\ event' = "none" /\ clean' = FALSE
  BY DEF ReadEvent, Transfer, Finish
<1>8. TcaTypeOK'
  <2>1. backlog' \in 0..FifoDepth
    BY <1>6, FifoAssumption DEF TcaTypeOK
  <2>2. fifo' \in Seq(Events) /\ Len(fifo') <= FifoDepth
    BY <1>2, <1>3, <1>6, FifoAssumption DEF TcaTypeOK
  <2> QED BY <2>1, <2>2, <1>1, <1>3, <1>4, <1>5, <1>7 DEF TcaTypeOK, FlagsOK
<1>9. Where'
  BY <1>1, <1>3, <1>7 DEF Where, Events
<1>10. Countdown'
  BY <1>1, <1>3, <1>6, <1>7, FifoAssumption DEF Countdown, TcaTypeOK
<1>11. DrainComplete'
  BY <1>7 DEF DrainComplete
<1> QED BY <1>8, <1>9, <1>10, <1>11

LEMMA ClearInterruptIInv ==
  ASSUME IInv, ClearInterrupt
  PROVE  IInv'
<1> USE DEF IInv
<1>1. faults' \in 0..MaxFaults
  BY TransferFaults DEF ClearInterrupt, TcaTypeOK
<1>2. FlagsOK'
  BY FlagsStep DEF TcaTypeOK, FlagsOK, DriverStep
<1>3. /\ tpc = "clear" /\ op' = "poll" /\ event' = "none"
      /\ UNCHANGED <<down, matrix, fifo, op, backlog>>
  BY DEF ClearInterrupt, Finish, Continue, chip, Where
<1>4. \/ tpc' = "done" /\ n' = n /\ ret' = TRUE
      \/ tpc' = "count" /\ n' = n + 1 /\ n + 1 < PollLimit
      \/ tpc' = "done" /\ n' = n /\ ~(n + 1 < PollLimit)
      \/ tpc' = "done" /\ n' = n /\ clean' = FALSE
  BY DEF ClearInterrupt, Finish, Continue, MoreIterations
<1>5. TcaTypeOK'
  BY <1>1, <1>2, <1>3, <1>4 DEF TcaTypeOK, FlagsOK
<1>6. Where'
  BY <1>3, <1>4 DEF Where
<1>7. Countdown'
  BY <1>3, <1>4, FifoAssumption DEF Countdown, TcaTypeOK
<1>8. DrainComplete'
  <2>1. ~(n + 1 < PollLimit) => backlog' = 0
    BY <1>3, FifoAssumption, PollAssumption DEF Countdown, TcaTypeOK
  <2> QED BY <1>4, <2>1 DEF DrainComplete
<1> QED BY <1>5, <1>6, <1>7, <1>8

LEMMA NextIInv == IInv /\ [TcaNext]_tcaVars => IInv'
<1> SUFFICES ASSUME IInv, [TcaNext]_tcaVars PROVE IInv'
  OBVIOUS
<1>1. CASE User
  BY <1>1, UserIInv DEF User
<1>2. CASE CallInit \/ CallPoll \/ Return
  BY <1>2, CallIInv
<1>3. CASE DriverStep
  BY <1>3, AddDeviceIInv, WriteRegisterIInv, ReadCountIInv, ReadEventIInv, ClearInterruptIInv
  DEF DriverStep
<1>4. CASE UNCHANGED tcaVars
  BY <1>4
  DEF tcaVars, chip, driver, IInv, TcaTypeOK, Where, Countdown, DrainComplete
<1> QED BY <1>1, <1>2, <1>3, <1>4 DEF TcaNext

\* The strengthened invariant holds in every state of the driver.
THEOREM TcaInvariant == TcaSpec => []IInv
BY InitIInv, NextIInv, PTL DEF TcaSpec

\* Every variable of the chip and the driver keeps its type; in particular
\* the FIFO stays within its depth.
THEOREM TcaTypeCorrect == TcaSpec => []TcaTypeOK
<1>1. IInv => TcaTypeOK
  BY DEF IInv
<1> QED BY <1>1, TcaInvariant, PTL

\* A poll that answers "no key" without a bus error has consumed everything
\* that was queued when it began.
THEOREM TcaDrainComplete == TcaSpec => []DrainComplete
<1>1. IInv => DrainComplete
  BY DEF IInv
<1> QED BY <1>1, TcaInvariant, PTL

(***************************************************************************)
(* A successful init has written the three keypad registers: the write     *)
(* loop never gets past a register that was not set.                       *)
(***************************************************************************)
Written ==
  /\ tpc = "write" =>
       /\ n \in 1..9
       /\ n > 2 => "KP_GPIO1" \in matrix
       /\ n > 3 => "KP_GPIO2" \in matrix
       /\ n > 4 => "KP_GPIO3" \in matrix
  /\ tpc = "add" => n = 1
  /\ tpc = "done" /\ op = "init" /\ ret => MatrixRegisters \subseteq matrix

LEMMA WrittenStep == IInv /\ Written /\ [TcaNext]_tcaVars => Written'
<1> SUFFICES ASSUME IInv, Written, [TcaNext]_tcaVars PROVE Written'
  OBVIOUS
<1> USE DEF Written
<1>1. CASE User
  BY <1>1 DEF User, Press, Release, driver
<1>2. CASE CallInit
  BY <1>2 DEF CallInit, chip
<1>3. CASE CallPoll
  BY <1>3 DEF CallPoll, chip
<1>4. CASE Return
  <2>1. tpc' = "idle"
    BY <1>4 DEF Return
  <2> QED BY <2>1
<1>5. CASE AddDevice
  <2>1. n = 1 /\ n' = n
    BY <1>5 DEF AddDevice
  <2>2. tpc' = "write" \/ (tpc' = "done" /\ ~ret')
    BY <1>5 DEF AddDevice, Finish
  <2> QED BY <2>1, <2>2
<1>6. CASE WriteRegister
  <2>1. tpc = "write" /\ n \in 1..9
    BY <1>6 DEF WriteRegister
  <2>2. PICK ok \in BOOLEAN, reached \in BOOLEAN :
          /\ Transfer(ok, reached)
          /\ matrix' = IF reached
                       THEN matrix \cup ({InitRegisters[n]} \cap MatrixRegisters)
                       ELSE matrix
          /\ IF ok /\ n < Len(InitRegisters)
             THEN n' = n + 1 /\ UNCHANGED <<tpc, ret, event>>
             ELSE Finish(ok) /\ UNCHANGED n
    BY <1>6 DEF WriteRegister
  <2>3. Len(InitRegisters) = 9
    BY DEF InitRegisters
  <2>4. matrix \subseteq matrix'
    BY <2>2
  <2>5. CASE ~ok
    BY <2>5, <2>2 DEF Finish
  <2>6. CASE ok
    <3>1. InitRegisters[n] \in MatrixRegisters => InitRegisters[n] \in matrix'
      BY <2>6, <2>2 DEF Transfer
    <3>2. /\ n = 2 => "KP_GPIO1" \in matrix'
          /\ n = 3 => "KP_GPIO2" \in matrix'
          /\ n = 4 => "KP_GPIO3" \in matrix'
      BY <3>1 DEF InitRegisters, MatrixRegisters
    <3>3. CASE n < 9
      <4>1. n' = n + 1 /\ tpc' = "write"
        BY <3>3, <2>6, <2>1, <2>2, <2>3
      <4> QED BY <4>1, <3>2, <3>3, <2>1, <2>4
    <3>4. CASE n = 9
      <4>1. tpc' = "done"
        BY <3>4, <2>2, <2>3 DEF Finish
      <4>2. MatrixRegisters \subseteq matrix'
        BY <3>4, <2>1, <2>4 DEF MatrixRegisters
      <4> QED BY <4>1, <4>2
    <3> QED BY <3>3, <3>4, <2>1
  <2> QED BY <2>5, <2>6
<1>7. CASE ReadCount
  BY <1>7 DEF ReadCount, Finish, chip, IInv, Where
<1>8. CASE ReadEvent
  BY <1>8 DEF ReadEvent, Finish, IInv, Where
<1>9. CASE ClearInterrupt
  BY <1>9 DEF ClearInterrupt, Finish, Continue, chip, IInv, Where
<1>10. CASE UNCHANGED tcaVars
  BY <1>10 DEF tcaVars, chip, driver
<1> QED
  BY <1>1, <1>2, <1>3, <1>4, <1>5, <1>6, <1>7, <1>8, <1>9, <1>10
  DEF TcaNext, DriverStep

\* An init that reports success has attached every key to the scanner.
THEOREM TcaInitSound == TcaSpec => []InitSound
<1>1. TcaInit => Written
  BY DEF TcaInit, Written
<1>2. Written => InitSound
  BY DEF Written, InitSound, Scanned, MatrixRegisters
<1> QED BY <1>1, <1>2, TcaInvariant, WrittenStep, PTL DEF TcaSpec

(***************************************************************************)
(* Presses are never swallowed.                                            *)
(***************************************************************************)
LEMMA PendingType ==
  ASSUME TcaTypeOK
  PROVE  Presses(fifo) \in Nat /\ Pending \in Nat
BY PressedAtFinite DEF TcaTypeOK, Pending

SwallowsNothing ==
  Pending' < Pending =>
    /\ Pending' = Pending - 1
    /\ (tpc' = "done" /\ ret') \/ faults' < faults \/ (dev /\ ~dev')

LEMMA KeysSwallowNothing ==
  ASSUME IInv, NEW k \in Keys, Press(k) \/ Release(k)
  PROVE  SwallowsNothing
<1>1. fifo \in Seq(Events) /\ UNCHANGED event
  BY DEF IInv, TcaTypeOK, Press, Release, driver
<1>2. PICK e \in Events : Queue(e)
  BY DEF Press, Release, Events
<1>3. fifo' = Append(fifo, e) \/ fifo' = fifo
  BY <1>2 DEF Queue
<1>4. /\ Presses(fifo) \in Nat
      /\ Presses(fifo') = Presses(fifo) \/ Presses(fifo') = Presses(fifo) + 1
  <2>1. Presses(fifo) \in Nat /\ Worth(e) \in {0, 1}
    BY <1>1, PressedAtFinite DEF Worth
  <2>2. fifo' = Append(fifo, e) => Presses(fifo') = Presses(fifo) + Worth(e)
    BY <1>1, PressesAppend
  <2> QED BY <2>1, <2>2, <1>3
<1>5. /\ Pending \in Nat
      /\ Pending' = Pending \/ Pending' = Pending + 1
  BY <1>1, <1>4 DEF Pending
<1>6. ~(Pending' < Pending)
  BY <1>5
<1> QED BY <1>6 DEF SwallowsNothing

LEMMA ReadEventSwallowsNothing ==
  ASSUME IInv, ReadEvent
  PROVE  SwallowsNothing
<1>1. fifo \in Seq(Events) /\ fifo # <<>> /\ event = "none"
  BY DEF IInv, TcaTypeOK, Where, ReadEvent
<1>2. Presses(fifo) = Presses(Tail(fifo)) + Worth(Head(fifo))
  BY <1>1, PressesTail
<1>3. Tail(fifo) \in Seq(Events)
  BY <1>1, TakeBound
<1>4. /\ Presses(fifo) \in Nat /\ Presses(Tail(fifo)) \in Nat
      /\ Worth(Head(fifo)) \in {0, 1}
  BY <1>1, <1>3, PressedAtFinite DEF Worth
<1>5. Pending = Presses(fifo)
  BY <1>1, <1>4 DEF Pending
<1>6. \/ fifo' = Tail(fifo) /\ event' = Head(fifo)
      \/ fifo' \in {fifo, Tail(fifo)} /\ event' = "none" /\ faults' < faults
  <2>1. faults > 0 /\ faults' = faults - 1 => faults' < faults
    BY DEF IInv, TcaTypeOK
  <2> QED BY <2>1 DEF ReadEvent, Transfer, Finish
<1>7. CASE fifo' = Tail(fifo) /\ event' = Head(fifo)
  <2>1. Pending' = Presses(Tail(fifo)) + Worth(Head(fifo))
    BY <1>7 DEF Pending, Worth
  <2> QED BY <2>1, <1>2, <1>4, <1>5 DEF SwallowsNothing
<1>8. CASE fifo' \in {fifo, Tail(fifo)} /\ event' = "none" /\ faults' < faults
  <2>1. Pending' = Presses(fifo) \/ Pending' = Presses(Tail(fifo))
    <3>1. Pending' = Presses(fifo') + 0
      BY <1>8 DEF Pending
    <3>2. CASE fifo' = fifo
      BY <3>1, <3>2, <1>4
    <3>3. CASE fifo' = Tail(fifo)
      BY <3>1, <3>3, <1>4
    <3> QED BY <3>2, <3>3, <1>8
  <2>2. Pending' < Pending => Pending' = Pending - 1
    BY <2>1, <1>2, <1>4, <1>5
  <2> QED BY <2>2, <1>8 DEF SwallowsNothing
<1> QED BY <1>6, <1>7, <1>8

LEMMA ClearInterruptSwallowsNothing ==
  ASSUME IInv, ClearInterrupt
  PROVE  SwallowsNothing
<1>1. UNCHANGED fifo /\ event' = "none" /\ event \in Events
  BY DEF ClearInterrupt, Finish, Continue, chip, IInv, Where
<1>2. Presses(fifo) \in Nat
  BY PendingType DEF IInv
<1>3. /\ Pending' = Presses(fifo)
      /\ Pending = Presses(fifo) + Worth(event)
  BY <1>1, <1>2 DEF Pending, Worth
<1>4. event = "press" => (tpc' = "done" /\ ret') \/ faults' < faults
  <2>1. faults > 0 /\ faults' = faults - 1 => faults' < faults
    BY DEF IInv, TcaTypeOK
  <2> QED BY <2>1 DEF ClearInterrupt, Transfer, Finish, IsPress
<1> QED BY <1>2, <1>3, <1>4 DEF SwallowsNothing, Worth

LEMMA NextSwallowsNothing == IInv /\ [TcaNext]_tcaVars => SwallowsNothing
<1> SUFFICES ASSUME IInv, [TcaNext]_tcaVars PROVE SwallowsNothing
  OBVIOUS
<1>1. CASE User
  BY <1>1, KeysSwallowNothing DEF User
<1>2. CASE ReadEvent
  BY <1>2, ReadEventSwallowsNothing
<1>3. CASE ClearInterrupt
  BY <1>3, ClearInterruptSwallowsNothing
<1>4. CASE UNCHANGED <<fifo, event>>
  <2>1. Pending' = Pending /\ Pending \in Nat
    BY <1>4, PendingType DEF IInv, Pending
  <2> QED BY <2>1 DEF SwallowsNothing
<1>5. CASE CallInit \/ CallPoll \/ Return
  BY <1>4, <1>5 DEF CallInit, CallPoll, Return, chip
<1>6. CASE AddDevice \/ WriteRegister \/ ReadCount
  <2>1. event = "none" /\ event' = "none" /\ UNCHANGED fifo
    BY <1>6
    DEF AddDevice, WriteRegister, ReadCount, Finish, chip, IInv, Where
  <2> QED BY <2>1, <1>4
<1>7. CASE UNCHANGED tcaVars
  BY <1>4, <1>7 DEF tcaVars, chip, driver
<1> QED
  BY <1>1, <1>2, <1>3, <1>5, <1>6, <1>7 DEF TcaNext, DriverStep

\* A queued press leaves the driver only as an answer or by a bus failure.
THEOREM TcaNoPressSwallowed == TcaSpec => NoPressSwallowed
<1>1. IInv /\ [TcaNext]_tcaVars => [SwallowsNothing]_tcaVars
  BY NextSwallowsNothing
<1> QED
  BY <1>1, TcaInvariant, PTL DEF TcaSpec, NoPressSwallowed, SwallowsNothing

(***************************************************************************)
(* Calls are short: how many more steps the driver can take in this one.   *)
(* This is the part of CallsReturn that does not depend on fairness.       *)
(***************************************************************************)
StepsLeft ==
  CASE tpc = "add"   -> 10
    [] tpc = "write" -> 10 - n
    [] tpc = "count" -> 3 * (PollLimit - n)
    [] tpc = "event" -> 3 * (PollLimit - n) - 1
    [] tpc = "clear" -> 3 * (PollLimit - n) - 2
    [] OTHER         -> 0

StepsBounded ==
  StepsLeft \in 0..(IF op = "init" THEN 10 ELSE 3 * PollLimit)

DriverShortens ==
  /\ DriverStep => StepsLeft' \in 0..(StepsLeft - 1)
  /\ User => StepsLeft' = StepsLeft

LEMMA StepsLeftIs ==
  /\ tpc = "add" => StepsLeft = 10
  /\ tpc = "write" => StepsLeft = 10 - n
  /\ tpc = "count" => StepsLeft = 3 * (PollLimit - n)
  /\ tpc = "event" => StepsLeft = 3 * (PollLimit - n) - 1
  /\ tpc = "clear" => StepsLeft = 3 * (PollLimit - n) - 2
  /\ tpc \notin {"add", "write", "count", "event", "clear"} => StepsLeft = 0
BY DEF StepsLeft

LEMMA StepsLeftNext ==
  /\ tpc' = "write" => StepsLeft' = 10 - n'
  /\ tpc' = "count" => StepsLeft' = 3 * (PollLimit - n')
  /\ tpc' = "event" => StepsLeft' = 3 * (PollLimit - n') - 1
  /\ tpc' = "clear" => StepsLeft' = 3 * (PollLimit - n') - 2
  /\ tpc' = "done" => StepsLeft' = 0
BY DEF StepsLeft

\* Where the driver may be, in numbers.
LEMMA StepsType ==
  ASSUME IInv, Written
  PROVE  /\ PollLimit \in Nat /\ n \in Nat
         /\ tpc \in {"count", "event", "clear"} => n < PollLimit /\ op # "init"
         /\ tpc = "write" => n \in 1..9 /\ op = "init"
         /\ tpc = "add" => n = 1 /\ op = "init"
BY PollAssumption DEF IInv, TcaTypeOK, Where, Written

LEMMA StepsAreBounded ==
  ASSUME IInv, Written
  PROVE  StepsBounded
BY StepsLeftIs, StepsType DEF StepsBounded

LEMMA DriverStepShortens ==
  ASSUME IInv, Written
  PROVE  DriverShortens
<1>1. ASSUME DriverStep PROVE StepsLeft' \in 0..(StepsLeft - 1)
  <2>0. /\ PollLimit \in Nat /\ n \in Nat
        /\ tpc \in {"count", "event", "clear"} => n < PollLimit
        /\ tpc = "write" => n \in 1..9
        /\ tpc = "add" => n = 1
    BY StepsType
  <2>1. CASE AddDevice
    <3>1. tpc = "add" /\ n' = n /\ tpc' \in {"write", "done"}
      BY <2>1 DEF AddDevice, Finish
    <3>2. StepsLeft = 10 /\ StepsLeft' \in {9, 0}
      BY <2>0, <3>1, StepsLeftIs, StepsLeftNext
    <3> QED  BY <3>2
  <2>2. CASE WriteRegister
    <3>1. /\ tpc = "write"
          /\ (tpc' = "write" /\ n' = n + 1) \/ tpc' = "done"
      BY <2>2 DEF WriteRegister, Finish
    <3>2. /\ StepsLeft = 10 - n
          /\ StepsLeft' = 10 - (n + 1) \/ StepsLeft' = 0
      BY <3>1, StepsLeftIs, StepsLeftNext
    <3> QED  BY <2>0, <3>1, <3>2
  <2>3. CASE ReadCount
    <3>1. tpc = "count" /\ n' = n /\ tpc' \in {"event", "done"}
      BY <2>3 DEF ReadCount, Finish
    <3>2. /\ StepsLeft = 3 * (PollLimit - n)
          /\ StepsLeft' = 3 * (PollLimit - n) - 1 \/ StepsLeft' = 0
      BY <3>1, StepsLeftIs, StepsLeftNext
    <3> QED  BY <2>0, <3>1, <3>2
  <2>4. CASE ReadEvent
    <3>1. tpc = "event" /\ n' = n /\ tpc' \in {"clear", "done"}
      BY <2>4 DEF ReadEvent, Finish
    <3>2. /\ StepsLeft = 3 * (PollLimit - n) - 1
          /\ StepsLeft' = 3 * (PollLimit - n) - 2 \/ StepsLeft' = 0
      BY <3>1, StepsLeftIs, StepsLeftNext
    <3> QED  BY <2>0, <3>1, <3>2
  <2>5. CASE ClearInterrupt
    <3>1. /\ tpc = "clear"
          /\ (tpc' = "count" /\ n' = n + 1) \/ tpc' = "done"
      BY <2>5 DEF ClearInterrupt, Finish, Continue
    <3>2. /\ StepsLeft = 3 * (PollLimit - n) - 2
          /\ StepsLeft' = 3 * (PollLimit - (n + 1)) \/ StepsLeft' = 0
      BY <3>1, StepsLeftIs, StepsLeftNext
    <3> QED  BY <2>0, <3>1, <3>2
  <2> QED  BY <1>1, <2>1, <2>2, <2>3, <2>4, <2>5 DEF DriverStep
<1>2. ASSUME User PROVE StepsLeft' = StepsLeft
  BY <1>2 DEF User, Press, Release, driver, StepsLeft
<1> QED  BY <1>1, <1>2 DEF DriverShortens

\* An init takes at most 10 steps and a poll 3 * PollLimit, each at most one
\* transfer, whatever is queued meanwhile: every step of the driver brings the
\* end of the call nearer, and the keys do not put it off.
THEOREM TcaCallsShorten == TcaSpec => []StepsBounded /\ [][DriverShortens]_tcaVars
<1>1. TcaInit => Written
  BY DEF TcaInit, Written
<1>2. IInv /\ Written => StepsBounded
  BY StepsAreBounded
<1>3. IInv /\ Written /\ [TcaNext]_tcaVars => [DriverShortens]_tcaVars
  BY DriverStepShortens
<1> QED  BY <1>1, <1>2, <1>3, TcaInvariant, WrittenStep, PTL DEF TcaSpec
=============================================================================
