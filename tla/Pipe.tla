--------------------------------- MODULE Pipe ---------------------------------
(***************************************************************************)
(* The pipes of io/: clients write through one SynchronizedPipe into a     *)
(* BithreadPipe, from which one thread reads through a BufferedPipe. The   *)
(* BithreadPipe has no storage: it refers to the writer's bytes, and Write *)
(* waits until they have been taken.                                       *)
(***************************************************************************)
EXTENDS Integers, Sequences

CONSTANTS
    Clients, NoClient,
    Sizes,          \* of what is written at a time
    ReadSizes,      \* of what is read at a time
    BufferSize,     \* of the BufferedPipe
    MaxWrites,      \* bound: the calls of Write
    NoWrite

\* What the constants must satisfy.
PipeAssumption ==
    /\ Sizes \cup ReadSizes \cup {BufferSize} \subseteq Nat \ {0}
    /\ MaxWrites \in Nat
    /\ NoClient \notin Clients

VARIABLES
    holder,     \* who has swapped the pipe out of SynchronizedPipe::_pipe
    data,       \* BithreadPipe::_data; <<>> is null
    buffer,     \* BufferedPipe: the bytes of _buffer from _bufferOffset on
    pc,         \* where each client is
    write,      \* the write each client is in: its number and size
    reading,    \* where the reader is
    got,        \* history: what the reader has been given
    returned,   \* history: the writes that returned
    writes      \* history: their number

pipeVars == <<holder, data, buffer>>
histVars == <<got, returned, writes>>
vars == <<pipeVars, pc, write, reading, histVars>>

BytesOf(w) == [i \in 1..w[2] |-> <<w[1], i>>]

Init ==
    /\ holder = NoClient
    /\ data = <<>> /\ buffer = <<>>
    /\ pc = [c \in Clients |-> "idle"]
    /\ write = [c \in Clients |-> NoWrite]
    /\ reading = "idle"
    /\ got = <<>> /\ returned = {} /\ writes = 0

Goto(c, l) == pc' = [pc EXCEPT ![c] = l]

-----------------------------------------------------------------------------
(* SynchronizedPipe::Write *)

\* The pipe is there or the client waits for it.
TakeOrWait(c) ==
    /\ IF holder = NoClient THEN holder' = c /\ Goto(c, "starting")
                            ELSE holder' = holder /\ Goto(c, "queued")
    /\ UNCHANGED <<data, buffer, reading, got, returned>>

Enter(c, size) ==
    /\ pc[c] = "idle" /\ writes < MaxWrites
    /\ write' = [write EXCEPT ![c] = <<writes + 1, size>>]
    /\ writes' = writes + 1
    /\ TakeOrWait(c)

\* After the broadcast, or for no reason.
WakeUp(c) ==
    /\ pc[c] \in {"queued", "sending"}
    /\ Goto(c, IF pc[c] = "queued" THEN "woken" ELSE "told")
    /\ UNCHANGED <<pipeVars, write, reading, histVars>>

Retry(c) ==
    /\ pc[c] = "woken"
    /\ TakeOrWait(c)
    /\ UNCHANGED <<write, writes>>

\* Cancelled or timed out before it got the pipe.
GiveUp(c) ==
    /\ pc[c] \in {"queued", "woken"}
    /\ Goto(c, "idle")
    /\ UNCHANGED <<pipeVars, write, reading, histVars>>

\* Mutated form of HandBack: nobody is woken.
HandBackQuietly(c) ==
    /\ holder' = NoClient
    /\ Goto(c, "idle")

\* Leaving Write, in whatever way, gives the pipe back and wakes the others.
HandBack(c) ==
    /\ holder' = NoClient
    /\ pc' = [d \in Clients |-> IF d = c THEN "idle"
                                ELSE IF pc[d] = "queued" THEN "woken" ELSE pc[d]]

Return(c) ==
    /\ pc[c] = "sent"
    /\ returned' = returned \cup {write[c]}
    /\ HandBack(c)
    /\ UNCHANGED <<data, buffer, write, reading, got, writes>>

\* After an exception of the inner Write; or CheckedWriteAll finds the token
\* cancelled, though all was sent.
ReturnThrowing(c) ==
    /\ pc[c] \in {"failed", "sent"}
    /\ HandBack(c)
    /\ UNCHANGED <<data, buffer, write, reading, got, returned, writes>>

-----------------------------------------------------------------------------
(* BithreadPipe::Write, called by CheckedWriteAll unless it is cancelled *)

NotStarted(c) ==
    /\ pc[c] = "starting"
    /\ Goto(c, "failed")
    /\ UNCHANGED <<pipeVars, write, reading, histVars>>

StartWrite(c) ==
    /\ pc[c] = "starting"
    /\ data' = BytesOf(write[c])
    /\ reading' = IF reading = "waiting" THEN "woken" ELSE reading
    /\ Goto(c, "sending")
    /\ UNCHANGED <<holder, buffer, write, histVars>>

\* Whoever was woken in Write looks whether everything was taken.
LookAgain(c) ==
    /\ pc[c] = "told"
    /\ Goto(c, IF data = <<>> THEN "sent" ELSE "sending")
    /\ UNCHANGED <<pipeVars, write, reading, histVars>>

\* Mutated form of Abandon: the pipe still refers to the writer's bytes.
AbandonForgetting(c) ==
    /\ pc[c] \in {"sending", "told"}
    /\ Goto(c, "failed")
    /\ UNCHANGED <<pipeVars, write, reading, histVars>>

\* Cancelled or timed out, perhaps with nothing left to send.
Abandon(c) ==
    /\ pc[c] \in {"sending", "told"}
    /\ data' = <<>>
    /\ Goto(c, "failed")
    /\ UNCHANGED <<holder, buffer, write, reading, histVars>>

-----------------------------------------------------------------------------
(* BufferedPipe::Read and BithreadPipe::Read *)

Least(m, n) == IF m < n THEN m ELSE n

\* The reader is given up to n of the bytes in the buffer.
Give(bytes, n) ==
    LET size == Least(n, Len(bytes))
    IN /\ got' = got \o SubSeq(bytes, 1, size)
       /\ buffer' = SubSeq(bytes, size + 1, Len(bytes))

ReadBuffered(n) ==
    /\ reading = "idle" /\ buffer # <<>>
    /\ Give(buffer, n)
    /\ UNCHANGED <<holder, data, pc, write, reading, returned, writes>>

\* The buffer is filled; the writer is woken when nothing is left.
ReadThrough(n) ==
    /\ reading \in {"idle", "woken"} /\ buffer = <<>>
    /\ data # <<>>
    /\ LET size == Least(BufferSize, Len(data))
       IN /\ Give(SubSeq(data, 1, size), n)
          /\ data' = SubSeq(data, size + 1, Len(data))
    /\ pc' = IF data' # <<>> THEN pc
             ELSE [c \in Clients |-> IF pc[c] = "sending" THEN "told" ELSE pc[c]]
    /\ reading' = "idle"
    /\ UNCHANGED <<holder, write, returned, writes>>

WaitForData ==
    /\ reading \in {"idle", "woken"} /\ buffer = <<>>
    /\ data = <<>>
    /\ reading' = "waiting"
    /\ UNCHANGED <<pipeVars, pc, write, histVars>>

WakeUpReader ==
    /\ reading = "waiting"
    /\ reading' = "woken"
    /\ UNCHANGED <<pipeVars, pc, write, histVars>>

\* Cancelled or timed out, perhaps with something to read.
CancelRead ==
    /\ reading \in {"waiting", "woken"}
    /\ reading' = "idle"
    /\ UNCHANGED <<pipeVars, pc, write, histVars>>

-----------------------------------------------------------------------------

Read ==
    \/ \E n \in ReadSizes : ReadBuffered(n) \/ ReadThrough(n)
    \/ WaitForData

WriterStep(c) ==
    StartWrite(c) \/ LookAgain(c) \/ Retry(c) \/ Return(c) \/ ReturnThrowing(c)

Next ==
    \/ \E c \in Clients :
        \/ \E size \in Sizes : Enter(c, size)
        \/ WakeUp(c) \/ GiveUp(c) \/ NotStarted(c) \/ Abandon(c)
        \/ WriterStep(c)
    \/ Read \/ WakeUpReader \/ CancelRead

\* A client in Write goes on, and somebody keeps reading. Nobody has to be
\* cancelled, and nobody wakes up for no reason.
Fairness ==
    /\ \A c \in Clients : WF_vars(WriterStep(c))
    /\ WF_vars(Read)

Spec == Init /\ [][Next]_vars /\ Fairness

-----------------------------------------------------------------------------
(* Properties *)

Sending(c) == pc[c] \in {"sending", "told", "sent"}

Underway == IF \E c \in Clients : Sending(c)
            THEN write[CHOOSE c \in Clients : Sending(c)] ELSE NoWrite

Channel == INSTANCE Rendezvous WITH
    Writes <- (1..MaxWrites) \X Sizes,
    sending <- Underway, rest <- data, delivered <- got \o buffer

(***************************************************************************)
(* The pipes are a rendezvous: the writes of several clients do not mix,   *)
(* what is read is a beginning of each, all of it if the write returned,   *)
(* and the bytes of a write that has ended are not looked at any more.     *)
(***************************************************************************)
ImplementsRendezvous == Channel!Spec

(***************************************************************************)
(* Every Write ends as long as somebody reads: the reader is woken by a    *)
(* write, the writer when the last byte is taken, and those that wait for  *)
(* the pipe whenever it is handed back.                                    *)
(***************************************************************************)
WritesEnd == \A c \in Clients : pc[c] # "idle" ~> pc[c] = "idle"
=============================================================================
