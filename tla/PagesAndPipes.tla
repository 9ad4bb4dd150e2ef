----------------------------- MODULE PagesAndPipes -----------------------------
(***************************************************************************)
(* What a reader waits at: a PagedBuffer, the pipes, or a future; which of *)
(* them is decided at the start.                                           *)
(***************************************************************************)
EXTENDS PagedBuffer

CONSTANTS
    Clients,        \* who writes to the pipes, or gets the result of the future
    Nobody,
    PipeSizes, ReadSizes, BufferSize, MaxWrites,    \* of the pipes
    Values, Broken                                  \* of the future

VARIABLES
    kind,           \* "pages", "pipes" or "future"
    pHolder, pData, pBuffer, pPc, pWrite, pReading, pGot, pReturned, pWrites,
    fResult, fPromised, fPc

pipeVars == <<pHolder, pData, pBuffer, pPc, pWrite, pReading, pGot, pReturned, pWrites>>
futureVars == <<fResult, fPromised, fPc>>
allVars == <<vars, pipeVars, futureVars, kind>>

Pipe == INSTANCE Pipe WITH
    NoClient <- Nobody, NoWrite <- Nobody, Sizes <- PipeSizes,
    holder <- pHolder, data <- pData, buffer <- pBuffer, pc <- pPc,
    write <- pWrite, reading <- pReading, got <- pGot,
    returned <- pReturned, writes <- pWrites

Future == INSTANCE Future WITH
    Getters <- Clients, NoResult <- Nobody,
    result <- fResult, promised <- fPromised, pc <- fPc

ASSUME OtherAssumptions == Pipe!PipeAssumption /\ Future!ResultAssumption

ReadInit ==
    /\ kind \in {"pages", "pipes", "future"}
    /\ Init /\ Pipe!Init /\ Future!Init

ReadNext ==
    \/ kind = "pages" /\ Next /\ UNCHANGED <<pipeVars, futureVars, kind>>
    \/ kind = "pipes" /\ Pipe!Next /\ UNCHANGED <<vars, futureVars, kind>>
    \/ kind = "future" /\ Future!Next /\ UNCHANGED <<vars, pipeVars, kind>>

ReadSpec == ReadInit /\ [][ReadNext]_allVars

ReadFairness ==
    /\ kind = "pipes" => Pipe!Fairness
    /\ kind = "future" => Future!Fairness

-----------------------------------------------------------------------------
(* Properties *)

\* Writes through the pipes come out whole and in order.
PipesAreARendezvous == Pipe!ImplementsRendezvous

\* A write ends while somebody reads, and a get when the promise is kept or
\* has gone.
WritesAndGetsEnd == Pipe!WritesEnd /\ Future!GetsEnd
=============================================================================
