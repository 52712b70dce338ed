---------------------------- MODULE OutputPromise ----------------------------
(***************************************************************************)
(* What a script may count on when it writes text files: every write it    *)
(* hands over is stored or lost; the writes to one file are stored in the  *)
(* order they were made; and a call that waits for all of them answers     *)
(* only when each is settled, with an error that names the files of those  *)
(* lost, unless it gives up at its deadline and says so.                   *)
(***************************************************************************)
EXTENDS Naturals, Sequences, FiniteSets

CONSTANTS Names, Resolve, MaxWrites

VARIABLES
  dest,    (* the path of each write handed over            *)
  stored,  (* the writes that reached their file            *)
  lost,    (* those that never will                         *)
  told,    (* the lost ones whose file an error has named   *)
  answer   (* what the last call told the script            *)

Unsettled == DOMAIN dest \ (stored \cup lost)

Init == dest = <<>> /\ stored = {} /\ lost = {} /\ told = {} /\ answer = "none"

Accept ==
  /\ Len(dest) < MaxWrites
  /\ \E n \in Names : dest' = Append(dest, n)
  /\ answer' = "none"
  /\ UNCHANGED <<stored, lost, told>>

(* A write is stored, before any later one to its file, or some are lost. *)
Store ==
  /\ \E w \in Unsettled :
       /\ \A v \in Unsettled : v < w => Resolve[dest[v]] # Resolve[dest[w]]
       /\ stored' = stored \cup {w}
  /\ UNCHANGED <<dest, lost, told, answer>>

Lose ==
  /\ \E L \in SUBSET Unsettled : lost' = lost \cup L
  /\ UNCHANGED <<dest, stored, told, answer>>

(* A file fails in the call that stored its text. *)
StoreAndLose ==
  /\ \E w \in Unsettled, L \in SUBSET Unsettled :
       /\ w \notin L
       /\ \A v \in Unsettled : v < w => Resolve[dest[v]] # Resolve[dest[w]]
       /\ stored' = stored \cup {w} /\ lost' = lost \cup L
  /\ UNCHANGED <<dest, told, answer>>

AnswerSaved ==
  /\ Unsettled = {} /\ lost \subseteq told
  /\ answer' = "saved"
  /\ UNCHANGED <<dest, stored, lost, told>>

AnswerLosses ==
  /\ Unsettled = {}
  /\ told' = lost
  /\ answer' = "losses"
  /\ UNCHANGED <<dest, stored, lost>>

(* Any other answer says nothing of what was written. *)
AnswerElse ==
  /\ answer' \in {"none", "released", "gave_up", "interrupted", "ended"}
  /\ UNCHANGED <<dest, stored, lost, told>>

Next ==
  Lose \/ Accept \/ Store \/ StoreAndLose \/ AnswerSaved \/ AnswerLosses \/ AnswerElse

Spec == Init /\ [][Next]_<<dest, stored, lost, told, answer>>
=============================================================================
