---------------------------- MODULE PacketLogProofs ----------------------------
(* Theorems about PacketLog, for any threads and any number of packet handlers    *)
(* the client has yet to use.                                                     *)
EXTENDS PacketLog, TLAPS

HasMutex(t) ==
    \/ pc[t] \in {"unlock", "open", "aim", "unlockfile"} \cup Borrowing
    \/ pc[t] \in {"log", "logconsole", "logprint", "dump", "dumping"} /\ kind[t] = "receive"

\* The mutex is owned by the thread between its acquisition and its release.
Owned == \A t \in Thread : HasMutex(t) => mutex = t

\* A thread that notes a handler has met it before.
HandlerMet ==
    \A t \in Thread : pc[t] \in {"aimhandlers"} \cup Noting => fresh # NewHandlers

\* The reasons for which there may be no output: capture.txt or handlers.txt is no
\* file, or a thread has put the file of a packet in place that is none, and dies.
Stuck == \E t \in Thread : pc[t] \in {"dumpfile", "dumpingfile", "close"} /\ file[t] = NULL
Missing == defaultOutput = NULL \/ (handlersOutput = NULL /\ fresh # NewHandlers) \/ Stuck

\* A thread that is about to store the console has found no output, for one of them.
NullExplained ==
    _output = NULL \/ (\E t \in Thread : pc[t] \in {"logconsole", "infoconsole"}) => Missing

\* What the output is until the first handler is met: while a packet's file is in
\* place, that file, or the console if there was no output; the default one while a
\* thread that has the mutex prints to the log.
HeldBy(t) ==
    /\ pc[t] \in Borrowing =>
         _output \in {file[t]} \cup Stray(defaultOutput = NULL \/ file[t] = NULL)
    /\ pc[t] \in {"logprint", "dump", "dumping"} /\ kind[t] = "receive" => _output = Default

\* Where the dump has gone so far.
PlacedBy(t) ==
    /\ pc[t] = "dumping" /\ kind[t] = "receive" => where[t] = {Default}
    /\ pc[t] = "unlock" => where[t] = {Default}
    /\ pc[t] \in {"dumpingfile", "close"} /\ file[t] # NULL =>
         where[t] \subseteq {t} \cup Stray(defaultOutput = NULL)

OutputHeld ==
    \A t \in Thread :
        /\ file[t] \in {t, NULL}
        /\ fresh = NewHandlers => HeldBy(t) /\ PlacedBy(t)

Step(t) == Receive(t) \/ Send(t) \/ Meet(t) \/ Locks(t) \/ Progress(t)
-------------------------------------------------------------------------------
\* Every variable of PacketLog keeps its type; the two faults change none but crash.
THEOREM TypeCorrect == Spec => []TypeOK
<1>1. Init => TypeOK
  BY OutputAssumption, SMT DEF Init, TypeOK, Output, Steps
<1>2. TypeOK /\ [Next]_vars => TypeOK'
  <2> SUFFICES ASSUME TypeOK, [Next]_vars PROVE TypeOK'
    OBVIOUS
  <2> USE DEF TypeOK, Steps, globals
  <2>1. ASSUME NEW t \in Thread, Step(t)
        PROVE  TypeOK'
    <3> USE DEF Goes
    <3>o. {stdout, NULL} \cup Thread \cup {defaultOutput, handlersOutput} \subseteq Output
      BY DEF Output
    <3>p. ASSUME NEW S \in SUBSET Output, Prints(t, S)
          PROVE  where' \in [Thread -> SUBSET Output] /\ _output' \in Output
      BY <3>p DEF Prints
    <3>1. CASE Receive(t)
      BY <3>1 DEF Receive
    <3>2. CASE Send(t)
      BY <3>2 DEF Send
    <3>3. CASE Meet(t)
      BY <3>3, OutputAssumption DEF Meet
    <3>4. CASE Lock(t)
      BY <3>4 DEF Lock, WaitForSingleObject
    <3>5. CASE LockFile(t)
      BY <3>5 DEF LockFile, WaitForSingleObject
    <3>6. CASE Log(t)
      <4>1. where' \in [Thread -> SUBSET Output] /\ _output' \in Output
        BY <3>6, <3>o, <3>p DEF Log, TestOutput, TakeConsole, PrintText
      <4>2. pc' \in [Thread -> Steps]
        BY <3>6 DEF Log, TestOutput, TakeConsole, PrintText
      <4> QED  BY <3>6, <4>1, <4>2 DEF Log, TestOutput, TakeConsole, PrintText
    <3>7. CASE Dump(t)
      <4>1. where' \in [Thread -> SUBSET Output] /\ _output' \in Output
        BY <3>7, <3>p DEF Dump, BeginDump, GoOnDumping, EndDump
      <4>2. pc' \in [Thread -> Steps]
        BY <3>7 DEF Dump, BeginDump, GoOnDumping, EndDump
      <4> QED  BY <3>7, <4>1, <4>2 DEF Dump, BeginDump, GoOnDumping, EndDump
    <3>8. CASE Unlock(t)
      BY <3>8 DEF Unlock, ReleaseMutex
    <3>9. CASE OpenFile(t)
      BY <3>9 DEF OpenFile
    <3>10. CASE AimAtFile(t)
      BY <3>10, <3>o DEF AimAtFile, dbg_set_output
    <3>11. CASE DumpToFile(t)
      <4>1. where' \in [Thread -> SUBSET Output] /\ _output' \in Output
        BY <3>11, <3>p DEF DumpToFile, BeginDump, GoOnDumping, EndDump
      <4>2. pc' \in [Thread -> Steps]
        BY <3>11 DEF DumpToFile, BeginDump, GoOnDumping, EndDump
      <4> QED  BY <3>11, <4>1, <4>2 DEF DumpToFile, BeginDump, GoOnDumping, EndDump
    <3>12. CASE CloseFile(t)
      BY <3>12 DEF CloseFile
    <3>13. CASE Restore(t)
      BY <3>13, <3>o DEF Restore, dbg_set_output
    <3>14. CASE UnlockFile(t)
      BY <3>14 DEF UnlockFile, ReleaseMutex
    <3>15. CASE CallOriginal(t)
      BY <3>15 DEF CallOriginal
    <3>16. CASE AimAtHandlers(t)
      BY <3>16, <3>o DEF AimAtHandlers, dbg_set_output
    <3>17. CASE Info(t)
      <4>1. where' \in [Thread -> SUBSET Output] /\ _output' \in Output
        BY <3>17, <3>o, <3>p DEF Info, TestOutput, TakeConsole, PrintText
      <4>2. pc' \in [Thread -> Steps]
        BY <3>17 DEF Info, TestOutput, TakeConsole, PrintText
      <4> QED  BY <3>17, <4>1, <4>2 DEF Info, TestOutput, TakeConsole, PrintText
    <3>18. CASE RestoreHandlers(t)
      BY <3>18, <3>o DEF RestoreHandlers, dbg_set_output
    <3>19. CASE NullOutput(t) \/ ClosedOutput(t)
      BY <3>19 DEF NullOutput, ClosedOutput, Crashes
    <3> QED  BY <2>1, <3>1, <3>2, <3>3, <3>4, <3>5, <3>6, <3>7, <3>8, <3>9, <3>10, <3>11,
                <3>12, <3>13, <3>14, <3>15, <3>16, <3>17, <3>18, <3>19
             DEF Step, Locks, Progress
  <2>2. CASE UNCHANGED vars
    BY <2>2 DEF vars
  <2> QED  BY <2>1, <2>2 DEF Next, Step
<1> QED  BY <1>1, <1>2, PTL DEF Spec

-------------------------------------------------------------------------------
(* The output, between two borrowings of it.                                     *)

\* dbg.c's output is the log, or the console in its place; the log may be no file.
LEMMA DefaultFacts ==
    ASSUME TypeOK
    PROVE  /\ Default \in {capture, stdout} /\ Default # NULL
           /\ defaultOutput = NULL => Default = stdout
           /\ defaultOutput # NULL => Default = defaultOutput
  BY OutputAssumption DEF TypeOK, Default

\* A step of one thread leaves the others where they are, and the files of a run
\* for good; Meet is the only one to use a handler up.
LEMMA OthersStay ==
    ASSUME NEW t \in Thread, TypeOK, Step(t)
    PROVE  /\ \A u \in Thread \ {t} : /\ pc'[u] = pc[u] /\ kind'[u] = kind[u]
                                      /\ file'[u] = file[u] /\ where'[u] = where[u]
           /\ fresh' = NewHandlers => fresh = NewHandlers /\ ~ Meet(t)
           /\ UNCHANGED globals
           /\ Default' = Default
<1>1. UNCHANGED globals
  BY DEF Step, Receive, Send, Meet, Locks, Lock, LockFile, Progress, Log, Dump, Unlock, OpenFile,
          AimAtFile, DumpToFile, CloseFile, Restore, UnlockFile, CallOriginal, AimAtHandlers, Info,
          RestoreHandlers, NullOutput, ClosedOutput, Crashes, Goes, TestOutput, TakeConsole, PrintText,
          BeginDump, GoOnDumping, EndDump, Prints, dbg_set_output
<1>2. fresh' = NewHandlers => fresh = NewHandlers /\ ~ Meet(t)
  <2>1. CASE Meet(t)
    BY <2>1, OutputAssumption, SMT DEF Meet, TypeOK
  <2> QED  BY <2>1 DEF Step, Receive, Send, Meet, Locks, Lock, LockFile, Progress, Log, Dump,
         Unlock, OpenFile,
          AimAtFile, DumpToFile, CloseFile, Restore, UnlockFile, CallOriginal, AimAtHandlers, Info,
          RestoreHandlers, NullOutput, ClosedOutput, Crashes, Goes, TestOutput, TakeConsole, PrintText,
          BeginDump, GoOnDumping, EndDump, Prints, dbg_set_output
<1>3. ASSUME NEW u \in Thread \ {t}
      PROVE  pc'[u] = pc[u] /\ kind'[u] = kind[u] /\ file'[u] = file[u] /\ where'[u] = where[u]
  BY DEF TypeOK, Step, Receive, Send, Meet, Locks, Lock, LockFile, Progress, Log, Dump, Unlock, OpenFile,
          AimAtFile, DumpToFile, CloseFile, Restore, UnlockFile, CallOriginal, AimAtHandlers, Info,
          RestoreHandlers, NullOutput, ClosedOutput, Crashes, Goes, TestOutput, TakeConsole, PrintText,
          BeginDump, GoOnDumping, EndDump, Prints, dbg_set_output
<1> QED  BY <1>1, <1>2, <1>3 DEF globals, Default

\* Nobody notes a handler before one is met.
LEMMA HandlerMetKept ==
    ASSUME TypeOK, HandlerMet, NEW t \in Thread, Step(t)
    PROVE  HandlerMet'
<1> SUFFICES ASSUME NEW u \in Thread, pc'[u] \in {"aimhandlers"} \cup Noting, fresh' = NewHandlers
             PROVE  FALSE
  BY DEF HandlerMet
<1>1. fresh = NewHandlers /\ ~ Meet(t)
  BY OthersStay
<1>2. CASE u # t
  BY <1>1, <1>2, OthersStay DEF HandlerMet
<1>3. CASE u = t
  <2>1. pc[t] \notin {"aimhandlers"} \cup Noting
    BY <1>1 DEF HandlerMet
  <2> QED  BY <1>1, <1>3, <2>1 DEF Noting, TypeOK, Step, Receive, Send, Meet, Locks, Lock,
         LockFile, Progress, Log, Dump, Unlock, OpenFile,
          AimAtFile, DumpToFile, CloseFile, Restore, UnlockFile, CallOriginal, AimAtHandlers, Info,
          RestoreHandlers, NullOutput, ClosedOutput, Crashes, Goes, TestOutput, TakeConsole, PrintText,
          BeginDump, GoOnDumping, EndDump, Prints, dbg_set_output
<1> QED  BY <1>2, <1>3

\* A reason for there being no output stays one.
LEMMA MissingStays ==
    ASSUME TypeOK, Missing, NEW t \in Thread, Step(t)
    PROVE  Missing'
<1>1. UNCHANGED globals /\ (fresh' = NewHandlers => fresh = NewHandlers)
  BY OthersStay
<1>2. ASSUME NEW u \in Thread, pc[u] \in {"dumpfile", "dumpingfile", "close"}, file[u] = NULL
      PROVE  Stuck'
  <2>1. CASE u # t
    BY <1>2, <2>1, OthersStay DEF Stuck
  <2>2. CASE u = t
    <3>1. DumpToFile(t) \/ NullOutput(t) \/ ClosedOutput(t)
      BY <1>2, <2>2 DEF Step, Receive, Send, Meet, Locks, Lock, LockFile, Progress, Log, Dump,
             Unlock, OpenFile,
          AimAtFile, DumpToFile, CloseFile, Restore, UnlockFile, CallOriginal, AimAtHandlers, Info,
          RestoreHandlers, NullOutput, ClosedOutput, Crashes, Goes, TestOutput, TakeConsole, PrintText,
          BeginDump, GoOnDumping, EndDump, Prints, dbg_set_output
    <3>2. pc'[t] \in {"dumpfile", "dumpingfile", "close"} /\ file'[t] = NULL
      BY <1>2, <2>2, <3>1
      DEF TypeOK, DumpToFile, BeginDump, GoOnDumping, EndDump, NullOutput, ClosedOutput, Crashes,
          Goes
    <3> QED  BY <3>2 DEF Stuck
  <2> QED  BY <2>1, <2>2
<1> QED  BY <1>1, <1>2 DEF Missing, Stuck, globals

\* The output is none, or found to be none, only where a file is missing.
LEMMA NullExplainedKept ==
    ASSUME TypeOK, HandlerMet, NullExplained, NEW t \in Thread, Step(t)
    PROVE  NullExplained'
<1> SUFFICES ASSUME ~ Missing,
                    _output' = NULL \/ \E u \in Thread : pc'[u] \in {"logconsole", "infoconsole"}
             PROVE  Missing'
  BY MissingStays DEF NullExplained
<1>1. _output # NULL /\ \A u \in Thread : pc[u] \notin {"logconsole", "infoconsole"}
  BY DEF NullExplained
<1>2. defaultOutput # NULL /\ UNCHANGED globals
  BY OthersStay DEF Missing
<1>3. \A u \in Thread : pc'[u] \notin {"logconsole", "infoconsole"}
  <2> SUFFICES ASSUME NEW u \in Thread PROVE pc'[u] \notin {"logconsole", "infoconsole"}
    OBVIOUS
  <2>1. CASE u # t
    BY <1>1, <2>1, OthersStay
  <2>2. CASE u = t
    BY <1>1, <2>2 DEF TypeOK, Step, Receive, Send, Meet, Locks, Lock, LockFile, Progress, Log,
           Dump, Unlock, OpenFile,
          AimAtFile, DumpToFile, CloseFile, Restore, UnlockFile, CallOriginal, AimAtHandlers, Info,
          RestoreHandlers, NullOutput, ClosedOutput, Crashes, Goes, TestOutput, TakeConsole, PrintText,
          BeginDump, GoOnDumping, EndDump, Prints, dbg_set_output
  <2> QED  BY <2>1, <2>2
<1>4. _output' = NULL
  BY <1>3
<1>5. CASE AimAtFile(t)
  BY <1>4, <1>5 DEF AimAtFile, dbg_set_output, Goes, Missing, Stuck, TypeOK
<1>6. CASE AimAtHandlers(t)
  <2>1. fresh' # NewHandlers
    BY <1>6 DEF HandlerMet, AimAtHandlers, Goes
  <2> QED  BY <1>2, <1>4, <1>6, <2>1 DEF AimAtHandlers, dbg_set_output, Goes, Missing, globals
<1>7. CASE ~ AimAtFile(t) /\ ~ AimAtHandlers(t)
  BY <1>1, <1>2, <1>4, <1>7, OutputAssumption DEF Step, Receive, Send, Meet, Locks, Lock, LockFile,
         Progress, Log, Dump, Unlock, OpenFile,
          AimAtFile, DumpToFile, CloseFile, Restore, UnlockFile, CallOriginal, AimAtHandlers, Info,
          RestoreHandlers, NullOutput, ClosedOutput, Crashes, Goes, TestOutput, TakeConsole, PrintText,
          BeginDump, GoOnDumping, EndDump, Prints, dbg_set_output
<1> QED  BY <1>5, <1>6, <1>7

\* While nobody has a file in its place, the output is the default one.
LEMMA RestoredKept ==
    ASSUME TypeOK, HandlerMet, NullExplained, OutputRestored, NEW t \in Thread, Step(t)
    PROVE  OutputRestored'
<1> DEFINE Lent == \E u \in Thread : pc[u] \in Borrowing \cup Noting
<1> SUFFICES ASSUME ~ Lent'
             PROVE  _output' \in {Default', defaultOutput'}
                        \cup Stray(handlersOutput' = NULL /\ fresh' # NewHandlers)
  BY DEF OutputRestored
<1>g. UNCHANGED globals /\ Default' = Default /\ (fresh' = NewHandlers => fresh = NewHandlers)
  BY OthersStay
<1>d. defaultOutput = NULL => Default = stdout
  BY DefaultFacts
<1>t. pc \in [Thread -> Steps]
  BY DEF TypeOK
<1>1. CASE Restore(t) \/ RestoreHandlers(t)
  BY <1>1, <1>g DEF Restore, RestoreHandlers, dbg_set_output, Goes, globals
<1>2. CASE AimAtFile(t) \/ AimAtHandlers(t) \/ Info(t) \/ DumpToFile(t) \/ CloseFile(t)
  BY <1>2, <1>t DEF AimAtFile, AimAtHandlers, Info, DumpToFile, CloseFile, TestOutput, TakeConsole,
     PrintText, BeginDump, GoOnDumping, EndDump, Goes, Borrowing, Noting
<1>3. ASSUME ~ (Restore(t) \/ RestoreHandlers(t)),
             ~ (AimAtFile(t) \/ AimAtHandlers(t) \/ Info(t) \/ DumpToFile(t) \/ CloseFile(t))
      PROVE  ~ Lent /\ (_output' = _output \/ (_output' = stdout /\ pc[t] = "logconsole"))
  <2>1. _output' = _output \/ (_output' = stdout /\ pc[t] = "logconsole")
    BY <1>3 DEF Step, Receive, Send, Meet, Locks, Lock, LockFile, Progress, Log, Dump, Unlock, OpenFile,
          AimAtFile, DumpToFile, CloseFile, Restore, UnlockFile, CallOriginal, AimAtHandlers, Info,
          RestoreHandlers, NullOutput, ClosedOutput, Crashes, Goes, TestOutput, TakeConsole, PrintText,
          BeginDump, GoOnDumping, EndDump, Prints, dbg_set_output
  <2>2. pc[t] \notin Borrowing \cup Noting
    <3>1. pc'[t] \notin Borrowing \cup Noting
      OBVIOUS
    <3> QED  BY <1>3, <1>t, <3>1 DEF Step, Borrowing, Noting, Receive, Send, Meet, Locks, Lock,
           LockFile, Progress, Log, Dump, Unlock, OpenFile,
          AimAtFile, DumpToFile, CloseFile, Restore, UnlockFile, CallOriginal, AimAtHandlers, Info,
          RestoreHandlers, NullOutput, ClosedOutput, Crashes, Goes, TestOutput, TakeConsole, PrintText,
          BeginDump, GoOnDumping, EndDump, Prints, dbg_set_output
  <2> QED  BY <2>1, <2>2, OthersStay
<1>4. ASSUME ~ Lent, _output' = _output
      PROVE  _output' \in {Default', defaultOutput'}
                        \cup Stray(handlersOutput' = NULL /\ fresh' # NewHandlers)
  <2>1. _output \in {Default, defaultOutput}
                       \cup Stray(handlersOutput = NULL /\ fresh # NewHandlers)
    BY <1>4 DEF OutputRestored
  <2> QED  BY <1>4, <1>g, <2>1 DEF Stray, globals
<1>5. ASSUME ~ Lent, _output' = stdout, pc[t] = "logconsole"
      PROVE  _output' \in {Default', defaultOutput'}
                        \cup Stray(handlersOutput' = NULL /\ fresh' # NewHandlers)
  <2>1. Missing /\ ~ Stuck
    BY <1>5 DEF NullExplained, Stuck, Borrowing
  <2> QED  BY <1>5, <1>d, <1>g, <2>1 DEF Missing, Stray, globals
<1> HIDE DEF Lent
<1> QED  BY <1>1, <1>2, <1>3, <1>4, <1>5

\* OutputRestored is not inductive: a thread that comes out of _dbg's test may store the
\* console at any later time. What is added says why it found no output.
Known == TypeOK /\ HandlerMet /\ NullExplained /\ OutputRestored

\* Whatever is stored or put back, at any step of any thread, has a reason in the two
\* files that startInjection opens and in the packet files that writePacketToFile opens.
THEOREM KnownInductive == Spec => []Known
<1>1. Init => HandlerMet /\ NullExplained /\ OutputRestored
  BY DEF Init, HandlerMet, NullExplained, OutputRestored, Missing, Noting
<1>2. Known /\ [Next]_vars => (HandlerMet /\ NullExplained /\ OutputRestored)'
  <2> SUFFICES ASSUME Known, [Next]_vars PROVE (HandlerMet /\ NullExplained /\ OutputRestored)'
    OBVIOUS
  <2>1. ASSUME NEW t \in Thread, Step(t)
        PROVE  (HandlerMet /\ NullExplained /\ OutputRestored)'
    BY <2>1, HandlerMetKept, NullExplainedKept, RestoredKept DEF Known
  <2>2. CASE UNCHANGED vars
    BY <2>2 DEF vars, Known, HandlerMet, NullExplained, OutputRestored, Missing, Stuck, Default
  <2> QED  BY <2>1, <2>2 DEF Next, Step
<1> QED  BY <1>1, <1>2, TypeCorrect, PTL DEF Spec, Known

\* Whoever lent the output to a file of its own, and in whatever order they did, the
\* last one to give it back gives back the default; only a missing handlers.txt may
\* leave the console there.
THEOREM OutputRestoredCorrect == Spec => []OutputRestored
  BY KnownInductive, PTL DEF Known

-------------------------------------------------------------------------------
(* The dumps.                                                                    *)

\* The mutex keeps at most one thread between an acquisition and its release.
THEOREM OwnedCorrect == Spec => []Owned
<1>1. Init => Owned
  BY DEF Init, Owned, HasMutex, Borrowing
<1>2. TypeOK /\ Owned /\ [Next]_vars => Owned'
  <2> SUFFICES ASSUME TypeOK, Owned, [Next]_vars PROVE Owned'
    OBVIOUS
  <2>1. ASSUME NEW t \in Thread, Step(t)
        PROVE  Owned'
    <3> SUFFICES ASSUME NEW u \in Thread, HasMutex(u)' PROVE mutex' = u
      BY DEF Owned
    <3>1. CASE u = t
      <4>1. CASE Lock(t) \/ LockFile(t)
        BY <3>1, <4>1 DEF Lock, LockFile, WaitForSingleObject
      <4>2. CASE ~ (Lock(t) \/ LockFile(t))
        <5>1. HasMutex(t) /\ UNCHANGED mutex
          BY <2>1, <3>1, <4>2, OutputAssumption
          DEF HasMutex, Borrowing, TypeOK, ReleaseMutex, Step, Receive, Send, Meet, Locks, Lock,
                 LockFile, Progress, Log, Dump, Unlock, OpenFile,
          AimAtFile, DumpToFile, CloseFile, Restore, UnlockFile, CallOriginal, AimAtHandlers, Info,
          RestoreHandlers, NullOutput, ClosedOutput, Crashes, Goes, TestOutput, TakeConsole, PrintText,
          BeginDump, GoOnDumping, EndDump, Prints, dbg_set_output
        <5> QED  BY <3>1, <5>1 DEF Owned
      <4> QED  BY <4>1, <4>2
    <3>2. CASE u # t
      <4>1. HasMutex(u)
        BY <2>1, <3>2, OthersStay DEF HasMutex
      <4>2. mutex = u
        BY <4>1 DEF Owned
      <4>3. ~ HasMutex(t) /\ mutex # NoThread
        BY <3>2, <4>2, OutputAssumption DEF Owned
      <4>4. UNCHANGED mutex
        BY <2>1, <4>3
        DEF HasMutex, Borrowing, WaitForSingleObject, ReleaseMutex, Step, Receive, Send, Meet,
               Locks, Lock, LockFile, Progress, Log, Dump, Unlock, OpenFile,
          AimAtFile, DumpToFile, CloseFile, Restore, UnlockFile, CallOriginal, AimAtHandlers, Info,
          RestoreHandlers, NullOutput, ClosedOutput, Crashes, Goes, TestOutput, TakeConsole, PrintText,
          BeginDump, GoOnDumping, EndDump, Prints, dbg_set_output
      <4> QED  BY <4>2, <4>4
    <3> QED  BY <3>1, <3>2
  <2>2. CASE UNCHANGED vars
    BY <2>2 DEF vars, Owned, HasMutex
  <2> QED  BY <2>1, <2>2 DEF Next, Step
<1> QED  BY <1>1, <1>2, TypeCorrect, PTL DEF Spec

\* With the mutex and before a handler is met, no output means no capture.txt.
LEMMA NoCapture ==
    ASSUME Known, Owned, NEW t \in Thread, HasMutex(t), pc[t] \notin Borrowing,
           fresh = NewHandlers, _output = NULL \/ \E u \in Thread : pc[u] = "logconsole"
    PROVE  defaultOutput = NULL
<1>1. Missing
  BY DEF Known, NullExplained
<1>2. ~ Stuck
  BY DEF Stuck, Owned, HasMutex, Borrowing
<1> QED  BY <1>1, <1>2 DEF Missing

\* With the mutex, not lending the output and before a handler is met, a thread finds
\* the default one.
LEMMA FindsDefault ==
    ASSUME Known, Owned, NEW t \in Thread, HasMutex(t), pc[t] \notin Borrowing,
           fresh = NewHandlers
    PROVE  _output \in {Default, defaultOutput}
<1>1. \A u \in Thread : pc[u] \notin Borrowing \cup Noting
  BY DEF Known, Owned, HasMutex, HandlerMet
<1> QED  BY <1>1 DEF Known, OutputRestored, Stray

\* What a thread holds under the mutex is left alone by the steps of the others, but
\* for a console stored late.
LEMMA HeldByOther ==
    ASSUME Known, Owned, OutputHeld, NEW t \in Thread, Step(t), NEW u \in Thread \ {t},
           fresh' = NewHandlers
    PROVE  HeldBy(u)'
<1>s. /\ pc'[u] = pc[u] /\ kind'[u] = kind[u] /\ file'[u] = file[u]
      /\ fresh = NewHandlers /\ ~ Meet(t) /\ UNCHANGED globals /\ Default' = Default
  BY OthersStay DEF Known
<1>h. HeldBy(u) /\ pc[t] \notin {"aimhandlers"} \cup Noting
  BY <1>s DEF OutputHeld, Known, HandlerMet
<1>1. CASE _output' = _output
  BY <1>1, <1>s, <1>h DEF HeldBy, globals
<1>2. CASE ~ HasMutex(u)
  BY <1>2, <1>s DEF HeldBy, HasMutex
<1>3. CASE HasMutex(u) /\ _output' # _output
  <2>1. ~ HasMutex(t)
    BY <1>3 DEF Owned
  <2>2. pc[t] = "logconsole" /\ _output' = stdout
    BY <1>h, <1>3, <2>1 DEF Noting, HasMutex, Borrowing, Step, Receive, Send, Meet, Locks, Lock,
           LockFile, Progress, Log, Dump, Unlock, OpenFile,
          AimAtFile, DumpToFile, CloseFile, Restore, UnlockFile, CallOriginal, AimAtHandlers, Info,
          RestoreHandlers, NullOutput, ClosedOutput, Crashes, Goes, TestOutput, TakeConsole, PrintText,
          BeginDump, GoOnDumping, EndDump, Prints, dbg_set_output
  <2>3. CASE pc[u] \in Borrowing
    <3>1. Missing
      BY <2>2 DEF Known, NullExplained
    <3>2. Stuck => file[u] = NULL
      BY <1>3 DEF Stuck, Owned, HasMutex, Borrowing
    <3> QED  BY <1>s, <2>2, <2>3, <3>1, <3>2 DEF HeldBy, Missing, Stray, globals, Borrowing
  <2>4. CASE pc[u] \notin Borrowing
    <3>1. defaultOutput = NULL
      BY <1>3, <1>s, <2>2, <2>4, NoCapture
    <3> QED  BY <1>s, <2>2, <2>4, <3>1, DefaultFacts DEF HeldBy, Known
  <2> QED  BY <2>3, <2>4
<1> QED  BY <1>1, <1>2, <1>3

\* The thread that takes the step.
LEMMA HeldByStepper ==
    ASSUME Known, Owned, OutputHeld, NEW t \in Thread, Step(t), fresh' = NewHandlers
    PROVE  HeldBy(t)'
<1>s. fresh = NewHandlers /\ ~ Meet(t) /\ UNCHANGED globals /\ Default' = Default
  BY OthersStay DEF Known
<1>h. HeldBy(t) /\ pc[t] \notin {"aimhandlers"} \cup Noting
  BY <1>s DEF OutputHeld, Known, HandlerMet
<1>t. /\ pc \in [Thread -> Steps] /\ kind \in [Thread -> {"receive", "send"}]
      /\ file \in [Thread -> Thread \cup {NULL}]
  BY DEF Known, TypeOK
<1>1. CASE Log(t)
  <2>1. ASSUME kind[t] = "receive" PROVE pc'[t] = "logconsole" \/ _output' = Default
    <3>1. HasMutex(t) /\ pc[t] \notin Borrowing
      BY <1>1, <2>1 DEF Log, TestOutput, TakeConsole, PrintText, Goes, HasMutex, Borrowing
    <3>2. /\ _output \in {Default, defaultOutput}
          /\ _output = NULL \/ pc[t] = "logconsole" => defaultOutput = NULL
      BY <1>s, <3>1, FindsDefault, NoCapture
    <3>3. /\ defaultOutput = NULL => Default = stdout
          /\ defaultOutput # NULL => Default = defaultOutput
      BY DefaultFacts DEF Known
    <3>4. CASE TestOutput(t, "log", "logconsole", "logprint")
      BY <1>t, <3>2, <3>3, <3>4 DEF TestOutput, Goes
    <3>5. CASE TakeConsole(t, "logconsole", "logprint")
      BY <3>2, <3>3, <3>5 DEF TakeConsole, Goes
    <3>6. CASE PrintText(t, "logprint", "dump")
      BY <1>h, <2>1, <3>6 DEF PrintText, Prints, Goes, HeldBy
    <3> QED  BY <1>1, <3>4, <3>5, <3>6 DEF Log
  <2>2. pc'[t] \notin Borrowing /\ kind'[t] = kind[t] /\ pc'[t] # "log"
    BY <1>1, <1>t DEF Log, TestOutput, TakeConsole, PrintText, Goes, Borrowing
  <2> QED  BY <1>s, <2>1, <2>2 DEF HeldBy
<1>2. CASE Dump(t) \/ DumpToFile(t)
  <2>1. _output' = _output /\ kind'[t] = kind[t] /\ file'[t] = file[t]
    BY <1>2 DEF Dump, DumpToFile, BeginDump, GoOnDumping, EndDump, Prints
  <2>2. CASE Dump(t)
    <3>1. pc'[t] \notin Borrowing \cup {"logprint", "dump"} /\ pc[t] \in {"dump", "dumping"}
      BY <1>t, <2>2 DEF Dump, BeginDump, GoOnDumping, EndDump, Goes, Borrowing
    <3> QED  BY <1>h, <1>s, <2>1, <3>1 DEF HeldBy
  <2>3. CASE DumpToFile(t)
    <3>1. /\ pc'[t] \in Borrowing /\ pc[t] \in Borrowing
          /\ pc'[t] \notin {"logprint", "dump", "dumping"}
      BY <1>t, <2>3 DEF DumpToFile, BeginDump, GoOnDumping, EndDump, Goes, Borrowing
    <3> QED  BY <1>h, <1>s, <2>1, <3>1 DEF HeldBy, globals
  <2> QED  BY <1>2, <2>2, <2>3
<1>3. CASE AimAtFile(t) \/ CloseFile(t)
  BY <1>3, <1>s, <1>h, <1>t DEF AimAtFile, CloseFile, dbg_set_output, Goes, Borrowing, HeldBy, globals
<1>4. CASE \/ Receive(t) \/ Send(t) \/ Locks(t) \/ Unlock(t) \/ UnlockFile(t)
           \/ CallOriginal(t) \/ OpenFile(t) \/ Restore(t)
  BY <1>4, <1>t DEF Receive, Send, Locks, Lock, LockFile, Unlock, UnlockFile, CallOriginal, OpenFile,
     Restore, Goes, Borrowing, HeldBy
<1>5. CASE AimAtHandlers(t) \/ Info(t) \/ RestoreHandlers(t)
  BY <1>5, <1>h DEF AimAtHandlers, Info, RestoreHandlers, TestOutput, TakeConsole, PrintText, Goes, Noting
<1>6. CASE NullOutput(t) \/ ClosedOutput(t)
  BY <1>6, <1>s, <1>h DEF NullOutput, ClosedOutput, Crashes, HeldBy, globals
<1> QED  BY <1>1, <1>2, <1>3, <1>4, <1>5, <1>6, <1>s DEF Step, Progress

\* Where its dump has gone, piece by piece.
LEMMA PlacedByStepper ==
    ASSUME Known, OutputHeld, NEW t \in Thread, Step(t), fresh' = NewHandlers
    PROVE  PlacedBy(t)'
<1>s. fresh = NewHandlers /\ ~ Meet(t) /\ UNCHANGED globals /\ Default' = Default
  BY OthersStay DEF Known
<1>h. HeldBy(t) /\ PlacedBy(t) /\ file[t] \in {t, NULL} /\ pc[t] \notin {"aimhandlers"} \cup Noting
  BY <1>s DEF OutputHeld, Known, HandlerMet
<1>t. /\ pc \in [Thread -> Steps] /\ kind \in [Thread -> {"receive", "send"}]
      /\ file \in [Thread -> Thread \cup {NULL}] /\ where \in [Thread -> SUBSET Output]
  BY DEF Known, TypeOK
<1>1. CASE Dump(t)
  <2>1. kind'[t] = kind[t] /\ pc'[t] \in {"dumping", "unlock", "lockfile"}
    BY <1>1, <1>t DEF Dump, BeginDump, GoOnDumping, EndDump, Goes
  <2>2. pc'[t] = "unlock" => kind[t] = "receive"
    BY <1>1, <1>t DEF Dump, BeginDump, GoOnDumping, EndDump, Goes
  <2>3. ASSUME kind[t] = "receive" PROVE where'[t] = {Default}
    <3>1. _output = Default
      BY <1>1, <1>h, <2>3 DEF HeldBy, Dump, BeginDump, GoOnDumping, EndDump, Goes
    <3>2. CASE BeginDump(t, "dump", "dumping")
      BY <1>t, <3>1, <3>2 DEF BeginDump, Prints
    <3>3. CASE ~ BeginDump(t, "dump", "dumping")
      <4>1. pc[t] = "dumping" /\ Prints(t, where[t])
        BY <1>1, <3>3 DEF Dump, GoOnDumping, EndDump, Goes
      <4>2. where[t] = {Default}
        BY <1>h, <2>3, <4>1 DEF PlacedBy
      <4> QED  BY <1>t, <3>1, <4>1, <4>2 DEF Prints
    <3> QED  BY <3>2, <3>3
  <2> QED  BY <1>s, <2>1, <2>2, <2>3 DEF PlacedBy
<1>2. CASE DumpToFile(t)
  <2>1. file'[t] = file[t] /\ pc'[t] \in {"dumpingfile", "close"} /\ pc[t] \in Borrowing
    BY <1>2, <1>t DEF DumpToFile, BeginDump, GoOnDumping, EndDump, Goes, Borrowing
  <2>2. ASSUME file[t] # NULL PROVE where'[t] \subseteq {t} \cup Stray(defaultOutput = NULL)
    <3>1. _output \in {t} \cup Stray(defaultOutput = NULL)
      BY <1>h, <2>1, <2>2 DEF HeldBy, Stray
    <3>2. CASE BeginDump(t, "dumpfile", "dumpingfile")
      BY <1>t, <3>1, <3>2 DEF BeginDump, Prints
    <3>3. CASE ~ BeginDump(t, "dumpfile", "dumpingfile")
      <4>1. pc[t] = "dumpingfile" /\ Prints(t, where[t])
        BY <1>2, <3>3 DEF DumpToFile, GoOnDumping, EndDump, Goes
      <4>2. where[t] \subseteq {t} \cup Stray(defaultOutput = NULL)
        BY <1>h, <2>2, <4>1 DEF PlacedBy
      <4> QED  BY <1>t, <3>1, <4>1, <4>2 DEF Prints
    <3> QED  BY <3>2, <3>3
  <2> QED  BY <1>s, <2>1, <2>2 DEF PlacedBy, globals
<1>3. CASE Log(t)
  BY <1>3, <1>t DEF Log, TestOutput, TakeConsole, PrintText, Goes, PlacedBy
<1>4. CASE \/ Receive(t) \/ Send(t) \/ Locks(t) \/ Unlock(t) \/ UnlockFile(t) \/ CallOriginal(t)
           \/ OpenFile(t) \/ AimAtFile(t) \/ CloseFile(t) \/ Restore(t)
  BY <1>4, <1>t DEF Receive, Send, Locks, Lock, LockFile, Unlock, UnlockFile, CallOriginal, OpenFile,
     AimAtFile, CloseFile, Restore, Goes, PlacedBy
<1>5. CASE AimAtHandlers(t) \/ Info(t) \/ RestoreHandlers(t)
  BY <1>5, <1>h DEF AimAtHandlers, Info, RestoreHandlers, TestOutput, TakeConsole, PrintText, Goes, Noting
<1>6. CASE NullOutput(t) \/ ClosedOutput(t)
  BY <1>6, <1>s, <1>h DEF NullOutput, ClosedOutput, Crashes, PlacedBy, globals
<1> QED  BY <1>1, <1>2, <1>3, <1>4, <1>5, <1>6, <1>s DEF Step, Progress

\* Until the first handler is met, what goes to the output under the mutex goes where
\* the thread that owns the mutex sent it, unless there is no capture.txt.
THEOREM DumpsPlacedCorrect == Spec => []DumpsPlaced
<1>1. Init => OutputHeld
  BY DEF Init, OutputHeld, HeldBy, PlacedBy, Borrowing
<1>2. Known /\ Owned /\ OutputHeld /\ [Next]_vars => OutputHeld'
  <2> SUFFICES ASSUME Known, Owned, OutputHeld, [Next]_vars PROVE OutputHeld'
    OBVIOUS
  <2>1. ASSUME NEW t \in Thread, Step(t)
        PROVE  OutputHeld'
    <3> SUFFICES ASSUME NEW u \in Thread
                 PROVE  /\ file'[u] \in {u, NULL}
                        /\ fresh' = NewHandlers => HeldBy(u)' /\ PlacedBy(u)'
      BY DEF OutputHeld
    <3>1. CASE u = t
      <4>1. file'[t] \in {t, NULL}
        BY <2>1 DEF Known, TypeOK, OutputHeld, Step, Receive, Send, Meet, Locks, Lock, LockFile,
               Progress, Log, Dump, Unlock, OpenFile,
          AimAtFile, DumpToFile, CloseFile, Restore, UnlockFile, CallOriginal, AimAtHandlers, Info,
          RestoreHandlers, NullOutput, ClosedOutput, Crashes, Goes, TestOutput, TakeConsole, PrintText,
          BeginDump, GoOnDumping, EndDump, Prints, dbg_set_output
      <4> QED  BY <2>1, <3>1, <4>1, HeldByStepper, PlacedByStepper
    <3>2. CASE u # t
      <4>s. /\ pc'[u] = pc[u] /\ kind'[u] = kind[u] /\ file'[u] = file[u] /\ where'[u] = where[u]
            /\ UNCHANGED globals /\ Default' = Default
            /\ fresh' = NewHandlers => fresh = NewHandlers
        BY <2>1, <3>2, OthersStay DEF Known
      <4>1. fresh' = NewHandlers => PlacedBy(u)'
        BY <4>s DEF OutputHeld, PlacedBy, globals
      <4>2. fresh' = NewHandlers => HeldBy(u)'
        BY <2>1, <3>2, HeldByOther
      <4> QED  BY <4>s, <4>1, <4>2 DEF OutputHeld
    <3> QED  BY <3>1, <3>2
  <2>2. CASE UNCHANGED vars
    BY <2>2 DEF vars, OutputHeld, HeldBy, PlacedBy, Default
  <2> QED  BY <2>1, <2>2 DEF Next, Step
<1>3. OutputHeld => DumpsPlaced
  BY DEF OutputHeld, PlacedBy, DumpsPlaced
<1> QED  BY <1>1, <1>2, <1>3, KnownInductive, OwnedCorrect, PTL DEF Spec

===============================================================================
