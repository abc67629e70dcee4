--------------------------- MODULE MCConnectorSync ---------------------------
(* Instances of ConnectorSync for TLC. *)
EXTENDS ConnectorSync, TLC

\* What is pushed holds a file; the newest mail of the second instance's first mailbox
\* has no sender; the rest is text.
AllText == [m \in Msg |-> IF m \in Pushed THEN "file" ELSE "text"]
OneUnsigned == [m \in Msg |-> IF m = 3 THEN "other" ELSE AllText[m]]

\* One Gmail mailbox, the environment's too, and one Outlook mailbox.
OneOfEach ==
    [c \in Gmail \cup Outlook \cup {"env"} |-> IF c \in Outlook THEN {11, 12} ELSE {1}]

\* One Gmail connector reads the mailbox of the environment's credentials, the other not.
TwoMailboxes ==
    LET other == CHOOSE c \in Gmail : TRUE
    IN  [c \in Gmail \cup Outlook \cup {"env"} |-> IF c = other THEN {1, 2, 3} ELSE {4}]

\* Runs are interchangeable.
Symmetry == Permutations(Run)
=============================================================================
