---------------------------- MODULE MCModeration ----------------------------
EXTENDS Moderation, TLC

\* A violation that suspends, and a correction that clears.
Guilty  == [outcome |-> "violation", status |-> "final",
            recommended |-> {"suspend_user"}, findings |-> {"high"}]
Cleared == [outcome |-> "no_violation", status |-> "corrected",
            recommended |-> {"no_action"}, findings |-> {}]

Rulings  == {Guilty, Cleared}
Payloads == Rulings \cup {Malformed}
=============================================================================
