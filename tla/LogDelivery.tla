---------------------------- MODULE LogDelivery ----------------------------
(***************************************************************************)
(* What a reader of a log promises: no entry is handed over before those   *)
(* that precede it, so none is ever passed over.  An entry may be handed   *)
(* over again.  That entries are handed over at all is not said here.      *)
(***************************************************************************)
EXTENDS Naturals

VARIABLES
  length, \* of the log
  given   \* the entries handed over

LogInit == length = 0 /\ given = {}

Append1 == length' = length + 1 /\ UNCHANGED given

Give(i) ==
  /\ i <= length
  /\ 1..(i - 1) \subseteq given
  /\ given' = given \cup {i}
  /\ UNCHANGED length

LogNext == Append1 \/ \E i \in 1..length : Give(i)

LogSpec == LogInit /\ [][LogNext]_<<length, given>>
=============================================================================
