------------------------------- MODULE SignOn -------------------------------
(***************************************************************************)
(* What signing on promises.  A level comes in parts (names of sounds and  *)
(* models, blocks of its state).  A client that enters a level first loads *)
(* all its parts, in order; if the level changes before it has entered, it *)
(* starts again; and when levels stop changing it enters.                  *)
(***************************************************************************)
EXTENDS Naturals, Sequences

CONSTANTS Parts, MaxLevel

VARIABLES
  level,    \* what the server plays, 0 when it has no level to load
  joined,   \* the level the client loads, 0 at first
  loaded,   \* what it has loaded of it
  entered   \* it has entered

vars == <<level, joined, loaded, entered>>

Init == level \in {0, 1} /\ joined = 0 /\ loaded = << >> /\ entered = FALSE

Change ==
  /\ level > 0 /\ level < MaxLevel /\ ~entered
  /\ level' = level + 1
  /\ UNCHANGED <<joined, loaded, entered>>

\* The client may hear of a level that is over by now.
Restart ==
  /\ \E l \in joined + 1 .. level : joined' = l
  /\ loaded' = << >>
  /\ UNCHANGED <<level, entered>>

Load ==
  /\ joined > 0
  /\ \E n \in Len(loaded) + 1 .. Len(Parts) : loaded' = SubSeq(Parts, 1, n)
  /\ UNCHANGED <<level, joined, entered>>

Enter ==
  /\ joined = level /\ loaded = Parts /\ ~entered
  /\ entered' = TRUE
  /\ UNCHANGED <<level, joined, loaded>>

Next == Change \/ Restart \/ Load \/ Enter

Spec ==
  /\ Init /\ [][Next]_vars
  /\ WF_vars(Restart) /\ WF_vars(Load) /\ WF_vars(Enter)

=============================================================================
