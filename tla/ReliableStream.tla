--------------------------- MODULE ReliableStream ---------------------------
(***************************************************************************)
(* What one direction of the reliable channel promises: items are written  *)
(* in some order and read exactly once, in that order, possibly several    *)
(* at a time.  Items are named by the order in which they were written, so *)
(* the i-th item read has to be item i.                                    *)
(***************************************************************************)
EXTENDS Naturals, Sequences

VARIABLES
  written,  \* how many items have been written
  read      \* the items read so far, in the order they were read

vars == <<written, read>>

\* The n items that follow item k.
Items(k, n) == [i \in 1..n |-> k + i]

Init == written \in Nat /\ read = << >>

Write == written' = written + 1 /\ UNCHANGED read

\* The reader is handed the next n unread items in one packet.
Read ==
  /\ \E n \in 1..(written - Len(read)) : read' = read \o Items(Len(read), n)
  /\ UNCHANGED written

Next == Write \/ Read

Spec == Init /\ [][Next]_vars

=============================================================================
