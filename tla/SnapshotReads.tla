--------------------------- MODULE SnapshotReads ---------------------------
(***************************************************************************)
(* What a read of the hosted service promises: its answer describes the    *)
(* profile as it was at one instant between the question and the answer,   *)
(* however many storage calls it took; and it is refused because of other  *)
(* clients' writes only when two of them were committed meanwhile.         *)
(*                                                                         *)
(* Whole(request, db) is the answer a profile "db" would give if it stood  *)
(* still, the refusal of an oversized result included.                     *)
(***************************************************************************)
EXTENDS Naturals

CONSTANTS None, Conflict, Whole(_, _)

VARIABLES db,        \* the profile
          request,   \* the question being answered, or None
          answer,    \* the last answer, or None
          commits    \* the commits since the question was asked, counted up to two

vars == <<db, request, answer, commits>>

Init == request = None /\ answer = None /\ commits = 0

Ask == /\ request = None /\ request' # None
       /\ answer' = None /\ commits' = 0
       /\ UNCHANGED db

Commit == /\ db' # db
          /\ commits' = IF commits = 2 THEN 2 ELSE commits + 1
          /\ UNCHANGED <<request, answer>>

Answer == /\ request # None /\ request' = None
          /\ \/ answer' = Whole(request, db)
             \/ answer' = Conflict /\ commits = 2
          /\ UNCHANGED <<db, commits>>

Next == Ask \/ Commit \/ Answer
Spec == Init /\ [][Next]_vars

=============================================================================
