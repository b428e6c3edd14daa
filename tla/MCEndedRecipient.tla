------------------------- MODULE MCEndedRecipient -------------------------
(* Small instances of EndedRecipient. *)
EXTENDS EndedRecipient, TLC

CONSTANTS l1, l2, Boss, Peer, Operator

\* Two sessions write a letter each.
TwoSenders == (l1 :> Boss) @@ (l2 :> Peer)
OneLetter == l1 :> Boss

\* A restart is a stop and a revival in one.
AllButRestart == {"stop", "revive", "archive", "hibernate", "send", "relay",
                  "neighbour"}

\* Which board or which caller moves is all one to the safety of the mail.
Alike == Permutations(Managers) \cup Permutations(Callers)
===========================================================================
