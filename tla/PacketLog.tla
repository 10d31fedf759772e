------------------------------- MODULE PacketLog ------------------------------
(* Where PacketLogger's dumps go. dbg.c writes to one global FILE, _output, which *)
(* is capture.txt except while a thread has another file in its place: the file  *)
(* of a packet (writePacketToFile, under the mutex), or handlers.txt when Recv    *)
(* meets a new packet handler (without it). Received packets are logged under the *)
(* mutex, sent ones are not.                                                     *)
EXTENDS Naturals

CONSTANTS
    Thread,         \* the client's threads; a thread names the packet file it opens
    NoThread,       \* nobody owns the mutex
    capture, handlers, stdout,
    NULL,           \* a file that could not be opened
    NewHandlers     \* bound: the packet handlers the client has yet to use

ASSUME OutputAssumption ==
    /\ NoThread \notin Thread
    /\ {capture, handlers, stdout, NULL} \cap Thread = {}
    /\ NULL \notin {capture, handlers, stdout}
    /\ NewHandlers \in Nat

VARIABLES
    mutex,                          \* its owner
    _output,                        \* dbg.c's global
    defaultOutput, handlersOutput,  \* main.c's globals
    closed,                         \* the packet files that were closed
    pc, kind, file,                 \* a thread's step, packet direction, packet file
    where,                          \* the files its latest text went to
    fresh,                          \* handlers not met yet
    crash

globals == <<defaultOutput, handlersOutput>>
vars == <<mutex, _output, defaultOutput, handlersOutput, closed, pc, kind, file,
          where, fresh, crash>>

Output == Thread \cup {capture, handlers, stdout, NULL}

Steps == {"idle", "lock", "log", "logconsole", "logprint", "dump", "dumping", "unlock",
          "lockfile", "open", "aim", "dumpfile", "dumpingfile", "close", "restore",
          "unlockfile", "original", "aimhandlers", "info", "infoconsole", "infoprint",
          "restorehandlers"}

TypeOK ==
    /\ mutex \in Thread \cup {NoThread}
    /\ _output \in Output
    /\ defaultOutput \in {capture, NULL}
    /\ handlersOutput \in {handlers, NULL}
    /\ closed \subseteq Thread
    /\ pc \in [Thread -> Steps]
    /\ kind \in [Thread -> {"receive", "send"}]
    /\ file \in [Thread -> Thread \cup {NULL}]
    /\ where \in [Thread -> SUBSET Output]
    /\ fresh \in 0 .. NewHandlers
    /\ crash \in {"none", "null_output", "closed_output"}

\* startInjection builds the names of its two files with an argument too few, so
\* either may come out as one that cannot be opened.
Init ==
    /\ mutex = NoThread
    /\ defaultOutput \in {capture, NULL}
    /\ handlersOutput \in {handlers, NULL}
    /\ _output = defaultOutput
    /\ closed = {}
    /\ pc = [t \in Thread |-> "idle"]
    /\ kind = [t \in Thread |-> "receive"]
    /\ file = [t \in Thread |-> NULL]
    /\ where = [t \in Thread |-> {}]
    /\ fresh = NewHandlers
    /\ crash = "none"

Goes(t, here, there) ==
    /\ crash = "none"
    /\ pc[t] = here
    /\ pc' = [pc EXCEPT ![t] = there]
    /\ UNCHANGED <<globals, crash>>

-------------------------------------------------------------------------------
(* dbg.c and the mutex.                                                          *)

dbg_set_output(f) == _output' = f

\* What a thread prints goes to _output as it is then. What goes to a closed file is
\* lost, or kills the client (ClosedOutput).
Prints(t, before) ==
    /\ _output # NULL
    /\ where' = [where EXCEPT ![t] = before \cup {_output}]
    /\ UNCHANGED _output

\* _dbg tests _output, stores the console if it was NULL, and prints to what _output
\* is then: three reads and writes without a lock of its own.
TestOutput(t, here, console, print) ==
    /\ Goes(t, here, IF _output = NULL THEN console ELSE print)
    /\ UNCHANGED <<_output, where>>

TakeConsole(t, here, there) ==
    /\ Goes(t, here, there)
    /\ _output' = stdout
    /\ UNCHANGED where

PrintText(t, here, there) == Goes(t, here, there) /\ Prints(t, {})

\* _buffer_print prints piece after piece, and reads _output for each.
BeginDump(t, here, there) == Goes(t, here, there) /\ Prints(t, {})
GoOnDumping(t, here) == Goes(t, here, here) /\ Prints(t, where[t])
EndDump(t, here, there) == Goes(t, here, there) /\ Prints(t, where[t])

WaitForSingleObject(t) == mutex = NoThread /\ mutex' = t
ReleaseMutex == mutex' = NoThread

-------------------------------------------------------------------------------
(* The hooks.                                                                    *)

\* A packet handler's hook is called.
Receive(t) ==
    /\ Goes(t, "idle", "lock")
    /\ kind' = [kind EXCEPT ![t] = "receive"]
    /\ UNCHANGED <<mutex, _output, closed, file, where, fresh>>

\* imcCrypt__NetEncrypt is called: it logs without the mutex.
Send(t) ==
    /\ Goes(t, "idle", "log")
    /\ kind' = [kind EXCEPT ![t] = "send"]
    /\ UNCHANGED <<mutex, _output, closed, file, where, fresh>>

\* Mutated: a handler is never remembered.
MeetAgain(t) ==
    /\ Goes(t, "idle", "aimhandlers")
    /\ fresh' = fresh - 1
    /\ UNCHANGED <<mutex, _output, closed, kind, file, where>>

\* CNetUsr__Recv is called for a handler it has not met.
Meet(t) ==
    /\ Goes(t, "idle", "aimhandlers")
    /\ fresh > 0
    /\ fresh' = fresh - 1
    /\ UNCHANGED <<mutex, _output, closed, kind, file, where>>

Lock(t) ==
    /\ Goes(t, "lock", "log")
    /\ WaitForSingleObject(t)
    /\ UNCHANGED <<_output, closed, kind, file, where, fresh>>

\* The name of the packet's type.
Log(t) ==
    /\ \/ TestOutput(t, "log", "logconsole", "logprint")
       \/ TakeConsole(t, "logconsole", "logprint")
       \/ PrintText(t, "logprint", "dump")
    /\ UNCHANGED <<mutex, closed, kind, file, fresh>>

\* Its bytes.
Dump(t) ==
    /\ \/ BeginDump(t, "dump", "dumping")
       \/ GoOnDumping(t, "dumping")
       \/ EndDump(t, "dumping", IF kind[t] = "receive" THEN "unlock" ELSE "lockfile")
    /\ UNCHANGED <<mutex, closed, kind, file, fresh>>

Unlock(t) ==
    /\ Goes(t, "unlock", "lockfile")
    /\ ReleaseMutex
    /\ UNCHANGED <<_output, closed, kind, file, where, fresh>>

\* Mutated: the packet's file is opened and put in place without the mutex.
LockFileNot(t) ==
    /\ Goes(t, "lockfile", "open")
    /\ UNCHANGED <<mutex, _output, closed, kind, file, where, fresh>>

\* writePacketToFile. Its file name is a static buffer, filled under the mutex.
LockFile(t) ==
    /\ Goes(t, "lockfile", "open")
    /\ WaitForSingleObject(t)
    /\ UNCHANGED <<_output, closed, kind, file, where, fresh>>

OpenFile(t) ==
    /\ Goes(t, "open", "aim")
    /\ \/ file' = [file EXCEPT ![t] = t] /\ closed' = closed \ {t}
       \/ file' = [file EXCEPT ![t] = NULL] /\ UNCHANGED closed
    /\ UNCHANGED <<mutex, _output, kind, where, fresh>>

AimAtFile(t) ==
    /\ Goes(t, "aim", "dumpfile")
    /\ dbg_set_output(file[t])
    /\ UNCHANGED <<mutex, closed, kind, file, where, fresh>>

DumpToFile(t) ==
    /\ \/ BeginDump(t, "dumpfile", "dumpingfile")
       \/ GoOnDumping(t, "dumpingfile")
       \/ EndDump(t, "dumpingfile", "close")
    /\ UNCHANGED <<mutex, closed, kind, file, fresh>>

CloseFile(t) ==
    /\ Goes(t, "close", "restore")
    /\ file[t] # NULL
    /\ closed' = closed \cup {t}
    /\ UNCHANGED <<mutex, _output, kind, file, where, fresh>>

\* Mutated: the output is left at the packet's file.
RestoreNothing(t) ==
    /\ Goes(t, "restore", "unlockfile")
    /\ UNCHANGED <<mutex, _output, closed, kind, file, where, fresh>>

Restore(t) ==
    /\ Goes(t, "restore", "unlockfile")
    /\ dbg_set_output(defaultOutput)
    /\ UNCHANGED <<mutex, closed, kind, file, where, fresh>>

\* Mutated: the mutex is not released.
KeepFileLocked(t) ==
    /\ Goes(t, "unlockfile", "original")
    /\ UNCHANGED <<mutex, _output, closed, kind, file, where, fresh>>

UnlockFile(t) ==
    /\ Goes(t, "unlockfile", "original")
    /\ ReleaseMutex
    /\ UNCHANGED <<_output, closed, kind, file, where, fresh>>

\* The original handler, or the original encryption or what stands for it.
CallOriginal(t) ==
    /\ Goes(t, "original", "idle")
    /\ UNCHANGED <<mutex, _output, closed, kind, file, where, fresh>>

\* Recv's note of the new handler.
AimAtHandlers(t) ==
    /\ Goes(t, "aimhandlers", "info")
    /\ dbg_set_output(handlersOutput)
    /\ UNCHANGED <<mutex, closed, kind, file, where, fresh>>

Info(t) ==
    /\ \/ TestOutput(t, "info", "infoconsole", "infoprint")
       \/ TakeConsole(t, "infoconsole", "infoprint")
       \/ PrintText(t, "infoprint", "restorehandlers")
    /\ UNCHANGED <<mutex, closed, kind, file, fresh>>

RestoreHandlers(t) ==
    /\ Goes(t, "restorehandlers", "idle")
    /\ dbg_set_output(defaultOutput)
    /\ UNCHANGED <<mutex, closed, kind, file, where, fresh>>

\* Writing to no file or closing no file kills the client, writing to a closed one may.
Crashes(reason) ==
    /\ crash = "none"
    /\ crash' = reason
    /\ UNCHANGED <<mutex, _output, globals, closed, pc, kind, file, where, fresh>>

Printing == {"logprint", "infoprint", "dump", "dumping", "dumpfile", "dumpingfile"}

NullOutput(t) ==
    /\ \/ pc[t] \in Printing /\ _output = NULL
       \/ pc[t] = "close" /\ file[t] = NULL
    /\ Crashes("null_output")

ClosedOutput(t) ==
    /\ pc[t] \in Printing
    /\ _output \in closed
    /\ Crashes("closed_output")

Locks(t) == Lock(t) \/ LockFile(t)

Progress(t) ==
    \/ Log(t) \/ Dump(t) \/ Unlock(t) \/ OpenFile(t) \/ AimAtFile(t) \/ DumpToFile(t)
    \/ CloseFile(t) \/ Restore(t) \/ UnlockFile(t) \/ CallOriginal(t)
    \/ AimAtHandlers(t) \/ Info(t) \/ RestoreHandlers(t)
    \/ NullOutput(t) \/ ClosedOutput(t)

Next ==
    \E t \in Thread : Receive(t) \/ Send(t) \/ Meet(t) \/ Locks(t) \/ Progress(t)

Spec == Init /\ [][Next]_vars

\* A thread that runs goes on, and the system serves the waiters of a mutex in turn.
Fairness == \A t \in Thread : WF_vars(Progress(t)) /\ SF_vars(Locks(t))

FairSpec == Spec /\ Fairness

-------------------------------------------------------------------------------
(* What must hold.                                                               *)

Default == IF defaultOutput = NULL THEN stdout ELSE capture

\* A thread that has found no output stores the console in its place, however late.
Stray(missing) == IF missing THEN {stdout} ELSE {}

\* Until a handler is met while packets are logged, the whole dump of a received
\* packet goes to capture.txt (the console, if that could not be opened) and the whole
\* second dump of every packet to the packet's file, whatever the threads that send
\* are doing to the log meanwhile. Only without a capture.txt may such a thread turn
\* the rest of a packet's dump to the console: it has found no output before.
DumpsPlaced ==
    fresh = NewHandlers =>
        \A t \in Thread :
            /\ pc[t] = "unlock" => where[t] = {Default}
            /\ pc[t] = "close" /\ file[t] # NULL =>
                 where[t] \subseteq {t} \cup Stray(defaultOutput = NULL)

Borrowing == {"dumpfile", "dumpingfile", "close", "restore"}
Noting == {"info", "infoconsole", "infoprint", "restorehandlers"}

\* When no thread has a file in its place, the output is the default one again,
\* however the threads that borrowed it overlapped. Only where handlers.txt could not
\* be opened and a handler was met may it be the console instead: a thread that found
\* no output meanwhile stores that after the default was put back.
OutputRestored ==
    (\A t \in Thread : pc[t] \notin Borrowing \cup Noting) =>
        _output \in {Default, defaultOutput}
                    \cup Stray(handlersOutput = NULL /\ fresh # NewHandlers)

\* Logging delays a packet and does not keep it: each one comes to the original.
PassedOn ==
    \A t \in Thread :
        pc[t] \in {"lock", "log"} ~> pc[t] = "original" \/ crash # "none"
===============================================================================
