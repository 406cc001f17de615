-------------------------- MODULE MCCircularBuffer --------------------------
(* Instances of CircularBuffer for TLC.                                    *)
EXTENDS CircularBuffer, TLC

CONSTANTS r1, r2, source

(* A FIR filter that looks back two elements and compensates its delay,    *)
(* and a plain decimating reader.                                          *)
TwoReaders == {r1, r2}
FilterHistory == (r1 :> 2) @@ (r2 :> 1)
FilterDelay == (r1 :> 1) @@ (r2 :> 0)
FilterRequired == (r1 :> 1) @@ (r2 :> 2)
FilterSuggested == (r1 :> 2) @@ (r2 :> 2)

(* A sink that needs no history and takes everything it is given.          *)
OneReader == {r1}
PlainHistory == (r1 :> 0)
PlainDelay == (r1 :> 0)
PlainRequired == (r1 :> 1)
PlainSuggested == (r1 :> 1)
=============================================================================
