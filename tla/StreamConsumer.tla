--------------------------- MODULE StreamConsumer ---------------------------
(***************************************************************************)
(* realtime-svc, stream-consumer.js and stream-producer.js: a Redis stream *)
(* read in batches, the last id kept in a file.  Stream ids are 1, 2, ...  *)
(*                                                                         *)
(* writeFileSync opens (and empties) the file, then writes it: the process *)
(* may end in between.  Redis refuses to read from an empty id; the        *)
(* rejection ends the process.                                             *)
(***************************************************************************)
EXTENDS Restarting

CONSTANT MaxMessages  \* bound: messages added

ASSUME StreamAssumption == MaxMessages \in Nat

VARIABLES
  added,   \* the newest id of the stream
  saved,   \* the id in the file; 0 where there is no file
  torn,    \* the file is empty
  reader,  \* at: where the loop is; pos: lastId; upto: the end of the batch
  printed  \* how often each message was printed

streamVars == <<added, saved, torn, reader, printed>>

Down == [at |-> "down", pos |-> 0, upto |-> 0]

StreamInit ==
  /\ added = 0 /\ saved = 0 /\ torn = FALSE
  /\ reader = Down
  /\ printed = [i \in 1..MaxMessages |-> 0]

Produce ==
  /\ added < MaxMessages
  /\ added' = added + 1
  /\ UNCHANGED <<saved, torn, reader, printed, crashes>>

\* Seeded fault: starts with what is new.
StartAtEnd ==
  /\ reader.at = "down"
  /\ reader' = [at |-> "reading", pos |-> added, upto |-> added]
  /\ UNCHANGED <<added, saved, torn, printed, crashes>>

Start ==
  /\ reader.at = "down"
  /\ reader' = [at |-> "reading", pos |-> saved, upto |-> saved]
  /\ UNCHANGED <<added, saved, torn, printed, crashes>>

Read ==
  /\ reader.at = "reading"
  /\ \/ torn /\ reader' = Down
     \/ ~torn /\ reader.pos < added /\ reader' = [reader EXCEPT !.at = "printing", !.upto = added]
  /\ UNCHANGED <<added, saved, torn, printed, crashes>>

\* Seeded fault: lastId is set after the batch.
PrintSame ==
  /\ reader.at = "printing" /\ reader.pos < reader.upto
  /\ printed' = [printed EXCEPT ![reader.pos + 1] = @ + 1]
  /\ reader' = [reader EXCEPT !.at = "reading"]
  /\ UNCHANGED <<added, saved, torn, crashes>>

PrintMessage ==
  /\ reader.at = "printing" /\ reader.pos < reader.upto
  /\ printed' = [printed EXCEPT ![reader.pos + 1] = @ + 1]
  /\ reader' = [reader EXCEPT !.pos = @ + 1]
  /\ UNCHANGED <<added, saved, torn, crashes>>

OpenFile ==
  /\ reader.at = "printing" /\ reader.pos = reader.upto
  /\ torn' = TRUE
  /\ reader' = [reader EXCEPT !.at = "saving"]
  /\ UNCHANGED <<added, saved, printed, crashes>>

\* Seeded fault: the loop ends with the first batch.
WriteFileOnce ==
  /\ reader.at = "saving"
  /\ saved' = reader.pos /\ torn' = FALSE
  /\ reader' = [reader EXCEPT !.at = "ended"]
  /\ UNCHANGED <<added, printed, crashes>>

WriteFile ==
  /\ reader.at = "saving"
  /\ saved' = reader.pos /\ torn' = FALSE
  /\ reader' = [reader EXCEPT !.at = "reading"]
  /\ UNCHANGED <<added, printed, crashes>>

StreamCrash ==
  /\ reader.at # "down" /\ Crash
  /\ reader' = Down
  /\ UNCHANGED <<added, saved, torn, printed>>

Consume == Start \/ Read \/ PrintMessage \/ OpenFile \/ WriteFile

StreamNext == Produce \/ Consume \/ StreamCrash

StreamSpec == crashes = 0 /\ StreamInit /\ [][StreamNext]_<<streamVars, crashes>>

----------------------------------------------------------------------------
\* Whatever crashes there are, no message is printed before those that precede it:
\* none is passed over.  That all are printed is EventuallyPrinted.
Delivery == INSTANCE LogDelivery WITH length <- added, given <- {i \in 1..MaxMessages : printed[i] > 0}
ImplementsDelivery == Delivery!LogSpec

\* A message is printed again only after a crash, and never once its batch was saved.
RepeatsAccounted ==
  [][\A i \in 1..MaxMessages : printed'[i] # printed[i] =>
       i > saved /\ printed[i] <= crashes]_<<streamVars, crashes>>

\* Every message is printed in the end, unless a crash left an empty file: no later
\* start gets past that.
EventuallyPrinted ==
  \A i \in 1..MaxMessages : (added >= i) ~> (printed[i] > 0 \/ (torn /\ reader.at # "saving"))
=============================================================================
