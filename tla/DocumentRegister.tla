-------------------------- MODULE DocumentRegister --------------------------
(***************************************************************************)
(* What the numbered documents of the ledger promise, seen from outside,   *)
(* without tables, lines or accounts.  Numbers are issued one by one with  *)
(* no gap and are not issued again until the register is cleared.  A       *)
(* document is live until it is cancelled by a new document (which can be  *)
(* cancelled in turn) or removed by the main administrator.                *)
(* Cancelling is for ever: neither half of a cancelled pair is removed,    *)
(* and a register that holds such a pair is never cleared.                 *)
(***************************************************************************)
EXTENDS Naturals, Sequences

VARIABLE doc  \* doc[n]: the document that got number n

States == {"live", "cancelled", "removed"}

Document == [state : States, cancels : Nat]

Fresh(n) == [state |-> "live", cancels |-> n]

Init == doc = << >>

\* One transaction may issue several documents; they get consecutive numbers.
Issue ==
  /\ Len(doc') > Len(doc)
  /\ \A n \in 1..Len(doc') : doc'[n] = IF n <= Len(doc) THEN doc[n] ELSE Fresh(0)

\* The cancelling document gets the next number.
Cancel(n) ==
  /\ doc[n].state = "live"
  /\ doc' = Append([doc EXCEPT ![n].state = "cancelled"], Fresh(n))

Remove(n) ==
  /\ doc[n] = Fresh(0)
  /\ doc' = [doc EXCEPT ![n].state = "removed"]

Clear ==
  /\ \A n \in DOMAIN doc : doc[n].state # "cancelled"
  /\ doc' = << >>

Next ==
  \/ Issue
  \/ \E n \in DOMAIN doc : Cancel(n)
  \/ \E n \in DOMAIN doc : Remove(n)
  \/ Clear

Spec == Init /\ [][Next]_doc
=============================================================================
