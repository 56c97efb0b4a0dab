---------------------------- MODULE ExactAmounts ----------------------------
(***************************************************************************)
(* What arithmetic on amounts of money promises (taler_amount_lib.h).  A   *)
(* register holds a number of smallest units, a command computes the exact *)
(* result, and one whose result does not exist or is larger than the       *)
(* largest amount leaves the register invalid, never wrong.  The last      *)
(* command is part of the state, so that an implementation has to give the *)
(* result of this command and not of some other one.                       *)
(***************************************************************************)
EXTENDS Integers

CONSTANTS
    Largest,   \* the largest amount, in smallest units
    Commands   \* records with the name of an operation ("load", "add",
               \* "subtract", "divide" or "round") and its argument, a number
               \* of smallest units, a divisor (not 0) or Invalid

Invalid == -1

VARIABLES total, last

exactVars == <<total, last>>

Result(n) == IF n \in 0..Largest THEN n ELSE Invalid

\* The register after a command.  An invalid operand or register spoils the
\* result; only loading a number makes the register valid again.
Exact(cmd) ==
    IF cmd.name = "load" THEN Result(cmd.arg)
    ELSE IF Invalid \in {total, cmd.arg} THEN Invalid
    ELSE CASE cmd.name = "add" -> Result(total + cmd.arg)
           [] cmd.name = "subtract" -> Result(total - cmd.arg)
           [] cmd.name = "divide" -> total \div cmd.arg
           [] cmd.name = "round" ->
                 IF cmd.arg = 0 THEN total ELSE total - (total % cmd.arg)

Do(cmd) ==
    /\ last' = cmd
    /\ total' = Exact(cmd)

ExactInit == total = 0 /\ last = [name |-> "add", arg |-> 0]

ExactNext == \E cmd \in Commands : Do(cmd)

ExactSpec == ExactInit /\ [][ExactNext]_exactVars
=============================================================================
