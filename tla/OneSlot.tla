------------------------------ MODULE OneSlot ------------------------------
(***************************************************************************)
(* What a worker thread promises to the hub: one piece of work at a time   *)
(* is taken over, done, and only then is the place free for the next; what *)
(* is not taken over stays with the one who offered it.                    *)
(***************************************************************************)
CONSTANT Works
VARIABLE status     \* work -> "new", "taken", "done", "refused", "gone"

Busy == \E w \in Works : status[w] \in {"taken", "done"}

SlotInit == status = [w \in Works |-> "new"]

Move(w, from, to) == status[w] = from /\ status' = [status EXCEPT ![w] = to]

TakeOver(w) == ~Busy /\ Move(w, "new", "taken")
TurnAway(w) == Busy /\ Move(w, "new", "refused")
Discard(w)  == Move(w, "refused", "gone")  \* by the one who offered it
Perform(w)  == Move(w, "taken", "done")
Release(w)  == Move(w, "done", "gone")
Abandon(w)  == Move(w, "taken", "gone")    \* the thread's object is destroyed

SlotNext == \E w \in Works : \/ TakeOver(w) \/ TurnAway(w) \/ Discard(w)
                             \/ Perform(w) \/ Release(w) \/ Abandon(w)

SlotSpec == SlotInit /\ [][SlotNext]_status
=============================================================================
