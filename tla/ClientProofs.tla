----------------------------- MODULE ClientProofs ----------------------------
(***************************************************************************)
(* Proofs about Client, for every length of the chat line and any number   *)
(* of messages and keys: the screen is used by one thread at a time, and   *)
(* nothing is left of an earlier message in the line of the next.          *)
(***************************************************************************)
EXTENDS Client, TLAPS

USE ClientAssumption DEF Positions

Booleans == init \in BOOLEAN /\ cancelled \in BOOLEAN /\ interrupted \in BOOLEAN /\ soiled \in BOOLEAN

Network == server \in {"up", "closed", "silent"} /\ inbox \in Seq({"chat", "end"})

Threads ==
  /\ main \in {"test", "poll", "lock", "draw", "flag", "left", "joinReader", "joinControl",
               "done", "killed"}
  /\ silence \in 0..3
  /\ reader \in {"test", "recv", "chat", "flag", "print", "ended"}
  /\ control \in {"test", "lock", "keys", "send", "quit", "ended"}
  /\ mutex \in {NOBODY, MAIN, READER, CONTROL} /\ end \in {0, 1}

Counts == chats \in 0..MaxChats /\ keys \in 0..MaxKeys

LineOK ==
  /\ tchat_mode \in {0, 1}
  /\ data \in [Positions -> Letters \cup {NUL, JUNK}]
  /\ cursor \in 0..SIZE_MAX_MESSAGE

LEMMA TypeParts == TypeOK <=> Booleans /\ Network /\ Threads /\ Counts /\ LineOK
BY DEF TypeOK, Booleans, Network, Threads, Counts, LineOK

-----------------------------------------------------------------------------
LEMMA InitType == Init => TypeOK
<1> SUFFICES ASSUME Init PROVE TypeOK
  OBVIOUS
<1>1. Booleans
  BY Zenon DEF Init, Booleans
<1>2. Network /\ Threads /\ Counts
  BY DEF Init, Network, Threads, Counts
<1>3. LineOK
  BY DEF Init, LineOK
<1> QED BY <1>1, <1>2, <1>3, TypeParts

LEMMA BooleansStep ==
  ASSUME Booleans, Next
  PROVE  Booleans'
<1>1. CASE Server
  BY Zenon, <1>1 DEF Server, SendChat, FinishMatch, Vanish, Booleans, display, line
<1>2. CASE Main
  <2>1. CASE PollUpdate
    BY Zenon, <2>1 DEF PollUpdate, Booleans, line
  <2> QED
    BY Zenon, <1>2, <2>1 DEF Main, Test, PollTimeout, PollFails, LockToDraw, Draw, GiveUp,
                             CancelReader, Join, Booleans, line
<1>3. CASE Reader \/ Interrupt
  BY Zenon, <1>3 DEF Reader, TestReader, ReadMessage, ReadEnd, Interrupt, ShowChat, SetEnd, UnlockEnd,
                     Cancelled, Booleans, display, line
<1>4. CASE Control
  BY Zenon, <1>4 DEF Control, TestControl, LockForKeys, NoKey, Key, Type, Backspace, Enter, Quit,
                     SendLine, SendFatal, SetEndByKey, Booleans, display, line
<1> QED BY <1>1, <1>2, <1>3, <1>4 DEF Next

LEMMA NetworkStep ==
  ASSUME Network, Next
  PROVE  Network'
<1>1. CASE SendChat \/ FinishMatch \/ Vanish
  BY <1>1 DEF SendChat, FinishMatch, Vanish, Network
<1>2. CASE Main \/ Interrupt
  BY <1>2 DEF Main, Test, PollUpdate, PollTimeout, PollFails, LockToDraw, Draw, GiveUp, CancelReader,
              Join, Interrupt, outside, Network
<1>3. CASE ReadMessage
  BY <1>3 DEF ReadMessage, Network
<1>4. CASE Reader /\ ~ReadMessage
  BY <1>4 DEF Reader, TestReader, ReadEnd, ShowChat, SetEnd, UnlockEnd, Cancelled, outside, Network
<1>5. CASE Control
  BY <1>5 DEF Control, TestControl, LockForKeys, NoKey, Key, Type, Backspace, Enter, Quit,
              SendLine, SendFatal, SetEndByKey, outside, Network
<1> QED BY <1>1, <1>2, <1>3, <1>4, <1>5 DEF Next, Server

LEMMA ThreadsStep ==
  ASSUME Threads, Next
  PROVE  Threads'
<1>1. CASE Server
  BY <1>1 DEF Server, SendChat, FinishMatch, Vanish, display, Threads
<1>2. CASE Main
  <2>1. CASE Test \/ PollFails
    BY <2>1 DEF Test, PollFails, Threads
  <2>5. CASE PollUpdate
    <3>1. main' \in {"lock", "left"}
      BY Zenon, <2>5 DEF PollUpdate
    <3> QED BY <2>5, <3>1 DEF PollUpdate, Threads
  <2>2. CASE PollTimeout
    <3>1. silence' \in 0..3 /\ main' \in {"flag", "test"}
      BY <2>2 DEF PollTimeout, Threads
    <3> QED BY <2>2, <3>1 DEF PollTimeout, Threads
  <2>3. CASE LockToDraw \/ Draw
    BY <2>3 DEF LockToDraw, Lock, Draw, Threads
  <2>4. CASE GiveUp \/ CancelReader \/ Join
    BY <2>4 DEF GiveUp, CancelReader, Join, Threads
  <2> QED BY <1>2, <2>1, <2>2, <2>3, <2>4, <2>5 DEF Main
<1>3. CASE Reader \/ Interrupt
  BY <1>3 DEF Reader, TestReader, ReadMessage, ReadEnd, Interrupt, ShowChat, SetEnd, Lock, UnlockEnd,
              Cancelled, display, Threads
<1>4. CASE Control
  BY <1>4 DEF Control, TestControl, LockForKeys, Lock, NoKey, Key, Type, Backspace, Enter, Quit,
              SendLine, SendFatal, SetEndByKey, display, Threads
<1> QED BY <1>1, <1>2, <1>3, <1>4 DEF Next

LEMMA CountsStep ==
  ASSUME Counts, Next
  PROVE  Counts'
<1>1. CASE Server
  BY <1>1 DEF Server, SendChat, FinishMatch, Vanish, Counts
<1>2. CASE Main
  BY <1>2 DEF Main, Test, PollUpdate, PollTimeout, PollFails, LockToDraw, Draw, GiveUp,
              CancelReader, Join, outside, Counts
<1>3. CASE Reader \/ Interrupt
  BY <1>3 DEF Reader, TestReader, ReadMessage, ReadEnd, Interrupt, ShowChat, SetEnd, UnlockEnd,
              Cancelled, outside, Counts
<1>4. CASE Control
  BY <1>4 DEF Control, TestControl, LockForKeys, NoKey, Key, Type, Backspace, Enter, Quit,
              SendLine, SendFatal, SetEndByKey, outside, Counts
<1> QED BY <1>1, <1>2, <1>3, <1>4 DEF Next

(* The keys that change the line, and the others.                          *)
LEMMA LineUntouched ==
  ASSUME Next, ~(\E c \in Letters : Type(c)), ~Backspace, ~Enter, ~SendLine
  PROVE  UNCHANGED line
<1>1. CASE Server
  BY <1>1 DEF Server, SendChat, FinishMatch, Vanish
<1>2. CASE Main
  BY <1>2 DEF Main, Test, PollUpdate, PollTimeout, PollFails, LockToDraw, Draw, GiveUp,
              CancelReader, Join
<1>3. CASE Reader \/ Interrupt
  BY <1>3 DEF Reader, TestReader, ReadMessage, ReadEnd, Interrupt, ShowChat, SetEnd, UnlockEnd,
              Cancelled
<1>4. CASE Control
  BY <1>4 DEF Control, TestControl, LockForKeys, NoKey, Quit, SendFatal, SetEndByKey
<1> QED BY <1>1, <1>2, <1>3, <1>4 DEF Next

LEMMA LineStep ==
  ASSUME LineOK, Next
  PROVE  LineOK'
<1>1. CASE \E c \in Letters : Type(c)
  BY <1>1 DEF Type, LineOK
<1>2. CASE Backspace
  BY <1>2 DEF Backspace, LineOK
<1>3. CASE Enter
  BY <1>3 DEF Enter, LineOK
<1>4. CASE SendLine
  BY <1>4 DEF SendLine, LineOK
<1>5. CASE UNCHANGED line
  BY <1>5 DEF line, LineOK
<1> QED BY <1>1, <1>2, <1>3, <1>4, <1>5, LineUntouched

LEMMA TypeStep == TypeOK /\ [Next]_vars => TypeOK'
<1>1. ASSUME TypeOK, UNCHANGED vars PROVE TypeOK'
  BY <1>1 DEF vars, outside, display, line, TypeOK
<1>2. ASSUME TypeOK, Next PROVE TypeOK'
  <2>1. Booleans /\ Network /\ Threads /\ Counts /\ LineOK
    BY <1>2, TypeParts
  <2>2. Booleans' /\ Network' /\ Threads' /\ Counts' /\ LineOK'
    BY <1>2, <2>1, BooleansStep, NetworkStep, ThreadsStep, CountsStep, LineStep
  <2> QED BY <2>2 DEF TypeOK, Booleans, Network, Threads, Counts, LineOK
<1> QED BY <1>1, <1>2

(* Every thread of a client is somewhere, the cursor stays on the line and *)
(* nothing is written beyond it, whatever is typed.                        *)
THEOREM ClientTypeCorrect == Spec => []TypeOK
BY InitType, TypeStep, PTL DEF Spec

-----------------------------------------------------------------------------
(* Who is in a critical section of pl->mutex holds it, and what main found *)
(* out under the mutex stays true until it releases it.                    *)
ScreenInv ==
  /\ main = "draw" => mutex = MAIN /\ end = 0
  /\ control = "keys" => mutex = CONTROL
  /\ reader = "print" => mutex = READER

LEMMA ScreenStep == ScreenInv /\ [Next]_vars => ScreenInv'
<1> SUFFICES ASSUME ScreenInv, [Next]_vars PROVE ScreenInv'
  OBVIOUS
<1> USE DEF NOBODY, MAIN, READER, CONTROL, ScreenInv
<1>1. CASE Server
  BY <1>1 DEF Server, SendChat, FinishMatch, Vanish, display
<1>2. CASE Main
  BY <1>2 DEF Main, Test, PollUpdate, PollTimeout, PollFails, LockToDraw, Lock, Draw, GiveUp,
              CancelReader, Join
<1>3. CASE Reader \/ Interrupt
  BY <1>3 DEF Reader, TestReader, ReadMessage, ReadEnd, Interrupt, ShowChat, SetEnd, Lock, UnlockEnd,
              Cancelled, display
<1>4. CASE Control
  BY <1>4 DEF Control, TestControl, LockForKeys, Lock, NoKey, Key, Type, Backspace, Enter, Quit,
              SendLine, SendFatal, SetEndByKey, display
<1>5. CASE UNCHANGED vars
  BY <1>5 DEF vars, display
<1> QED BY <1>1, <1>2, <1>3, <1>4, <1>5 DEF Next

(* However the threads interleave, nobody else is in ncurses while the     *)
(* display loop draws, and the game cannot end before it has drawn.        *)
THEOREM ScreenIsMains == Spec => []DrawsAlone
<1>1. Init => ScreenInv
  BY DEF Init, ScreenInv
<1>2. ScreenInv => DrawsAlone
  BY DEF ScreenInv, DrawsAlone, MAIN, CONTROL
<1> QED BY <1>1, <1>2, ScreenStep, PTL DEF Spec

-----------------------------------------------------------------------------
LEMMA CleanStep == TypeOK /\ LineIsClean /\ [Next]_vars => LineIsClean'
<1> SUFFICES ASSUME TypeOK, LineIsClean, [Next]_vars PROVE LineIsClean'
  OBVIOUS
<1> LineOK
  BY TypeParts
<1>1. ASSUME NEW c \in Letters, Type(c) PROVE LineIsClean'
  BY <1>1 DEF Type, LineOK, LineIsClean
<1>2. CASE Backspace
  BY <1>2 DEF Backspace, LineIsClean
<1>3. CASE Enter
  BY <1>3 DEF Enter, LineIsClean
<1>4. CASE SendLine
  BY <1>4 DEF SendLine, LineOK, LineIsClean
<1>5. CASE UNCHANGED line
  BY <1>5 DEF line, LineIsClean
<1> QED BY <1>1, <1>2, <1>3, <1>4, <1>5, LineUntouched DEF vars

(* Whatever is typed and sent, the line holds nothing beyond the cursor    *)
(* but on a line that was never cleared or with a character taken back.    *)
THEOREM LineStaysClean == Spec => []LineIsClean
<1>1. Init => LineIsClean
  BY DEF Init, LineIsClean
<1> QED BY <1>1, CleanStep, ClientTypeCorrect, PTL DEF Spec

=============================================================================
