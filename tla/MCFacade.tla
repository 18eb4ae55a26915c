------------------------------ MODULE MCFacade ------------------------------
EXTENDS Facade

CONSTANTS Rare, MaxRare  \* bound of the model: calls of the rarer operations

\* The first call is an unlock, which may fail: nothing is lost by that, a
\* facade that refused an unlock is as it was spawned. Only differences of the
\* host clock matter, so it starts at 0.
Bounded(s) ==
  /\ s # <<>> => s[1] = "unlock"
  /\ Cardinality({n \in DOMAIN s : s[n] \in Rare}) <= MaxRare

MCInit == Init /\ now = 0
MCNext == Next /\ Bounded(calls')
MCSpec == MCInit /\ [][MCNext]_vars /\ WF_vars(Commands) /\ WF_vars(Selects) /\ WF_vars(Inline)
=============================================================================
