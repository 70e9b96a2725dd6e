----------------------------- MODULE TickStream -----------------------------
(***************************************************************************)
(* What the async feed promises its handler: the ticks the feed accepts    *)
(* are handled once each, in the order of the source, and a stop returns   *)
(* only when every accepted tick has been handled ("Gracefully stop        *)
(* producer, drain queue, stop consumer", async_feed.py).  Ticks are       *)
(* numbered in the order of the source.  Stopping the consumer by itself    *)
(* abandons the stream: nothing is handled or promised afterwards.         *)
(***************************************************************************)
EXTENDS Naturals, Sequences

VARIABLES
    accepted,   \* how many ticks the feed has taken charge of
    handled,    \* the ticks handled, in order
    stopping,   \* a caller is inside stop()
    open        \* the consumer has not been stopped

vars == <<accepted, handled, stopping, open>>

Init == /\ accepted = 0
        /\ handled = <<>>
        /\ stopping = FALSE
        /\ open = TRUE

Accept == /\ accepted' = accepted + 1
          /\ UNCHANGED <<handled, stopping, open>>

Handle == /\ open
          /\ Len(handled) < accepted
          /\ handled' = Append(handled, Len(handled) + 1)
          /\ UNCHANGED <<accepted, stopping, open>>

Stop == /\ stopping' = TRUE
        /\ UNCHANGED <<accepted, handled, open>>

StopReturns == /\ stopping
               /\ open => Len(handled) = accepted
               /\ stopping' = FALSE
               /\ open' = FALSE
               /\ UNCHANGED <<accepted, handled>>

Abandon == /\ open' = FALSE
           /\ UNCHANGED <<accepted, handled, stopping>>

Next == Accept \/ Handle \/ Stop \/ StopReturns \/ Abandon

Spec == Init /\ [][Next]_vars
=============================================================================
