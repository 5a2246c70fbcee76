------------------------------ MODULE MCAskpass ------------------------------
(***************************************************************************)
(* One command that asks twice, as ssh does for a security key, which      *)
(* wants a touch and then a PIN.                                           *)
(***************************************************************************)
EXTENDS Askpass

CONSTANTS fetch, touch, pin

AsksTwice == [c \in {touch, pin} |-> fetch]
=============================================================================
