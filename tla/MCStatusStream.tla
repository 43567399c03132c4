--------------------------- MODULE MCStatusStream ---------------------------
(***************************************************************************)
(* Instances of StatusStream for TLC; the constants are set in the cfg.    *)
(***************************************************************************)
EXTENDS StatusStream

\* Bounds: a new recognition or a fault, not both; and no opening of another session
\* while something is under way, which all the properties about it make an exception of.
InBounds ==
  /\ redos = 0 \/ faults = [break |-> 0, fail |-> 0, retry |-> 0]
  /\ \A g \in under : of[g] = of[open]

\* Bound: only the session on the screen changes.  (Openings that find a session
\* changed before are those of the same session again.)
OpenOnesChange ==
  \A s \in Sessions :
    status'[s] # status[s] \/ diar'[s] # diar[s] => open > 0 /\ s = of[open]

MCStreamNext == StreamNext /\ InBounds' /\ OpenOnesChange

\* No step that a fair process has to take is out of bounds: a fault is never the only
\* way for one to go on; openings, recognitions and changes are not fair.
MCStreamSpec == StreamInit /\ [][MCStreamNext]_streamVars /\ StreamFairness
=============================================================================
