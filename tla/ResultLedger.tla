----------------------------- MODULE ResultLedger -----------------------------
(***************************************************************************)
(* What the CI promises about the results it publishes: the life of one    *)
(* entry of a commit's .capnp file, as a reader of the dashboard sees it,   *)
(* whatever executors, batches and daemon restarts happen behind it.       *)
(*                                                                         *)
(* A subtest is first announced as in progress; only an announced subtest  *)
(* gets a status; a verdict is final.  A restart may withdraw an           *)
(* announcement, and, when the operator asks for it, a FailedToRun.        *)
(*                                                                         *)
(* A rewrite of a file may be lost.  The next one of that commit then      *)
(* brings several steps of an entry's life at once; a verdict that a run   *)
(* gave is final even so.                                                  *)
(***************************************************************************)
EXTENDS TestStatus

CONSTANTS Commits, Keys

VARIABLES ledger,    \* ledger[c][k]: the published status of subtest k of commit c
          behind     \* commits with a rewrite that was lost and not made up for

\* How the published status of one subtest may change.
MayMove(old, new) ==
  \/ new = old
  \/ old \in {None, "Unknown"} /\ new = "Inprogress"
  \/ old = "Inprogress"
  \/ old = "FailedToRun" /\ new = None

\* How it may change when rewrites were lost in between.
MayCatchUp(old, new) == old \in {"Passed", "Failed", "Notrun"} => new = old

LedgerInit == ledger = [c \in Commits |-> [k \in Keys |-> None]] /\ behind = {}

\* One rewrite of one commit's file moves any number of its entries.
Rewrite(c) ==
  /\ ledger' \in [Commits -> [Keys -> Status \cup {None}]]
  /\ \A k \in Keys : IF c \in behind THEN MayCatchUp(ledger[c][k], ledger'[c][k])
                                     ELSE MayMove(ledger[c][k], ledger'[c][k])
  /\ \A d \in Commits \ {c} : ledger'[d] = ledger[d]
  /\ behind' = behind \ {c}

\* A rewrite is lost.
Lose(c) == behind' = behind \cup {c} /\ UNCHANGED ledger

\* The daemon starts again from the files: nothing is ahead of them any more.
Restart == behind' = {} /\ UNCHANGED ledger

LedgerNext == Restart \/ \E c \in Commits : Rewrite(c) \/ Lose(c)

LedgerSpec == LedgerInit /\ [][LedgerNext]_<<ledger, behind>>

===============================================================================
