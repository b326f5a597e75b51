----------------------------- MODULE MCUTXOSet ------------------------------
(* The bucket of one node, the money of all of them, and a wallet file. *)
EXTENDS UTXOSet, Ledger, WalletFile

CONSTANTS Ann, Bob, Shell, Command1, Command2

\* The three have no state in common: a behaviour is one of any of them.
VARIABLE part

UInit == part \in {"bucket", "money", "keys"} /\ Init /\ LInit /\ WInit
UNext ==
  \/ part = "bucket" /\ Next /\ UNCHANGED <<lvars, wvars, part>>
  \/ part = "money" /\ LNext /\ UNCHANGED <<vars, wvars, part>>
  \/ part = "keys" /\ WNext /\ UNCHANGED <<vars, lvars, part>>
USpec == UInit /\ [][UNext]_<<vars, lvars, wvars, part>>
=============================================================================
