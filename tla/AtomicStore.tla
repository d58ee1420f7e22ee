----------------------------- MODULE AtomicStore -----------------------------
(***************************************************************************)
(* What Storage promises its Session (Storage.hpp): a batch is persisted    *)
(* whole or not at all, only a commit changes what is stored, and stopping, *)
(* failing and reopening change nothing.  What is stored is what reads of   *)
(* the current point give after a reopen at this moment.                    *)
(***************************************************************************)
EXTENDS StorageState

CONSTANT Batches   \* the batches a client may commit

VARIABLES
  state,     \* the batches committed, as the state they lead to
  shown,     \* what a reopen shows
  service    \* "down", "up" or "poisoned"

contract == <<state, shown, service>>

Init == state = Empty /\ shown = View(Empty) /\ service = "down"

(* Every write must be possible where the batch reaches it.  Versions are   *)
(* not promised.                                                            *)
Accepted(s, b) ==
  \A i \in DOMAIN b : Admitted(Applied(s, b, s.nextSeq)[i - 1], b, i)

(* The commit may still be answered with an error, or with none at all:     *)
(* whoever reopens the store finds the batch.                               *)
After(s) == {ApplyBatch(s, b, s.nextSeq) : b \in {c \in Batches : Accepted(s, c)}}
Commit ==
  /\ service = "up"
  /\ service' \in {"up", "poisoned", "down"}
  /\ state'.nextSeq = state.nextSeq + 1
  /\ state' \in After(state) /\ shown' = View(state')

(* Anything else. *)
Serve ==
  /\ service' # service
  /\ UNCHANGED <<state, shown>>

Next == Commit \/ Serve
Spec == Init /\ [][Next]_contract
=============================================================================
