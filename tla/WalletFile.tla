----------------------------- MODULE WalletFile ------------------------------
(***************************************************************************)
(* The wallet file of a node (src/src/wallets.go) and the commands that    *)
(* use it (src/src/cli.go), run by the shell of the node and by further    *)
(* processes at the same time.  A command reads the whole file;            *)
(* createWallet then writes all of it back, in place and without a lock.   *)
(***************************************************************************)
EXTENDS Integers, FiniteSets

CONSTANTS
  Process,  \* the shell of the node and the commands run next to it
  MaxKeys   \* bound: key pairs ever made

ASSUME WalletAssumption == MaxKeys \in Nat

\* A file that was emptied, or written in part, does not decode ("torn").
Absent    == [is |-> "absent", keys |-> {}]
Torn      == [is |-> "torn", keys |-> {}]
Whole(ks) == [is |-> "whole", keys |-> ks]

VARIABLES
  file,       \* the wallet file
  at,         \* at[p]: what process p does next
  held,       \* held[p]: the wallets it has in memory
  keysMade,   \* how many key pairs were made
  announced,  \* history: the keys whose address a user was told
  base,       \* history: base[p]: the last file written to the end when p read it
  latest,     \* history: the last file written to the end
  overlapped, \* history: two createWallet ran at the same time
  cut         \* history: a write did not come to its end

wvars == <<file, at, held, keysMade, announced, base, latest, overlapped, cut>>

Making == {p \in Process : at[p] \in {"add", "open", "write"}}

WInit ==
  /\ file = Absent /\ latest = Absent
  /\ at = [p \in Process |-> "idle"]
  /\ held = [p \in Process |-> {}] /\ base = [p \in Process |-> {}]
  /\ keysMade = 0 /\ announced = {}
  /\ overlapped = FALSE /\ cut = FALSE

\* Mutant: whatever is wrong with the file, createWallet starts a new one.
NewWalletsLenient(p, next) ==
  /\ next = "show" => file.is = "whole"
  /\ held' = [held EXCEPT ![p] = file.keys]
  /\ base' = [base EXCEPT ![p] = latest.keys]
  /\ at' = [at EXCEPT ![p] = next]
  /\ overlapped' = (overlapped \/ (next = "add" /\ Making # {}))
  /\ UNCHANGED <<file, keysMade, announced, latest, cut>>

\* NewWallets of a command whose next step is next: a torn file panics in
\* LoadFromFile; without a file createWallet goes on, and all others panic.
\* A panic ends the command, in the shell as outside, and changes nothing.
NewWallets(p, next) ==
  /\ file.is # "torn"
  /\ file.is = "absent" => next = "add"
  /\ held' = [held EXCEPT ![p] = file.keys]
  /\ base' = [base EXCEPT ![p] = latest.keys]
  /\ at' = [at EXCEPT ![p] = next]
  /\ overlapped' = (overlapped \/ (next = "add" /\ Making # {}))
  /\ UNCHANGED <<file, keysMade, announced, latest, cut>>

\* listAddresses, getAllBalances and send only read.
Show(p) ==
  /\ at[p] = "show"
  /\ at' = [at EXCEPT ![p] = "idle"]
  /\ UNCHANGED <<file, held, keysMade, announced, base, latest, overlapped, cut>>

\* Mutant: the new wallet replaces those that were read.
CreateWalletAlone(p) ==
  /\ at[p] = "add"
  /\ keysMade < MaxKeys
  /\ keysMade' = keysMade + 1
  /\ held' = [held EXCEPT ![p] = {keysMade + 1}]
  /\ at' = [at EXCEPT ![p] = "open"]
  /\ UNCHANGED <<file, announced, base, latest, overlapped, cut>>

CreateWallet(p) ==
  /\ at[p] = "add"
  /\ keysMade < MaxKeys
  /\ keysMade' = keysMade + 1
  /\ held' = [held EXCEPT ![p] = @ \cup {keysMade + 1}]
  /\ at' = [at EXCEPT ![p] = "open"]
  /\ UNCHANGED <<file, announced, base, latest, overlapped, cut>>

\* ioutil.WriteFile empties the file first.
Truncate(p) ==
  /\ at[p] = "open"
  /\ file' = Torn
  /\ at' = [at EXCEPT ![p] = "write"]
  /\ UNCHANGED <<held, keysMade, announced, base, latest, overlapped, cut>>

\* What follows the first value in a file is ignored when it is decoded, so of
\* two writers the later one counts.  The address is printed after the write.
Write(p) ==
  /\ at[p] = "write"
  /\ file' = Whole(held[p]) /\ latest' = file'
  /\ announced' = announced \cup (held[p] \ base[p])
  /\ at' = [at EXCEPT ![p] = "idle"]
  /\ UNCHANGED <<held, keysMade, base, overlapped, cut>>

\* A process is killed, or its write fails: between emptying the file and the
\* end of the write it leaves nothing or a part of what it had to write.
Stop(p) ==
  /\ at[p] # "idle"
  /\ at' = [at EXCEPT ![p] = "idle"]
  /\ file' \in (IF at[p] = "write" THEN {file, Torn} ELSE {file})
  /\ cut' = (cut \/ at[p] = "write")
  /\ UNCHANGED <<held, keysMade, announced, base, latest, overlapped>>

WNext ==
  \E p \in Process :
    \/ at[p] = "idle" /\ \E next \in {"add", "show"} : NewWallets(p, next)
    \/ Show(p) \/ CreateWallet(p) \/ Truncate(p) \/ Write(p) \/ Stop(p)

WSpec == WInit /\ [][WNext]_wvars

-----------------------------------------------------------------------------
(* Nobody works from a file that another process is in the middle of       *)
(* writing: what a command shows, adds to or pays from holds everything    *)
(* the last complete file held.  LoadFromFile has no lock and rests on the *)
(* decoder for it, and createWallet ignores the error of NewWallets.       *)
NeverFromHalfAFile ==
  \A p \in Process : at[p] # "idle" => base[p] \subseteq held[p]

(* No user is told an address whose key is not in the file, or in the      *)
(* hands of a process about to write it, unless two createWallet ran at    *)
(* the same time or a write did not come to its end.                       *)
AnnouncedKept ==
  ~overlapped /\ ~cut =>
    \/ file.is = "whole" /\ announced \subseteq file.keys
    \/ file.is = "absent" /\ announced = {}
    \/ \E p \in Process : at[p] = "write" /\ announced \subseteq held[p]

(* A file that is torn while nobody is making a wallet stays as it is: no  *)
(* later command covers the damage with a new file in which the old keys   *)
(* are missing, although createWallet begins one when there is none.       *)
Damaged      == file = Torn /\ Making = {}
DamageIsKept == [][Damaged => Damaged']_wvars

=============================================================================
