--------------------------- MODULE ConnectionPool ---------------------------
(***************************************************************************)
(* What the server promises of the connections it holds, with no threads,  *)
(* queues or locks: it takes a connection while it is up and holds fewer   *)
(* than Bound, gives each one up exactly once, and is down only when it    *)
(* holds none.  Once down it stays down and takes nothing.                 *)
(***************************************************************************)
EXTENDS Naturals, FiniteSets

CONSTANTS Conn,  \* the connections that clients may open
          Bound  \* how many may be held at a time

VARIABLES held,  \* taken and not given up yet
          over,  \* given up, or turned away at once
          down   \* has the server been torn down?

vars == <<held, over, down>>

Init == held = {} /\ over = {} /\ down = FALSE

Take(c) ==
  /\ ~down
  /\ c \notin held \cup over
  /\ Cardinality(held) < Bound
  /\ held' = held \cup {c}
  /\ UNCHANGED <<over, down>>

TurnAway(some) ==
  /\ some \cap held = {}
  /\ over' = over \cup some
  /\ UNCHANGED held

GiveUp(some) ==
  /\ some \subseteq held
  /\ held' = held \ some
  /\ over' = over \cup some
  /\ UNCHANGED down

TearDown(some) ==
  /\ held = {}
  /\ TurnAway(some)
  /\ down' = TRUE

Next ==
  \/ \E c \in Conn : Take(c)
  \/ \E some \in SUBSET Conn :
       \/ TurnAway(some) /\ UNCHANGED down
       \/ GiveUp(some)
       \/ TearDown(some)

Spec == Init /\ [][Next]_vars

=============================================================================
