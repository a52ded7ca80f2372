------------------------- MODULE AtMostOnceCommands -------------------------
(***************************************************************************)
(* What the process_commands table promises its senders: a command, once   *)
(* posted, is taken by one consumer and performed at most once; it may be  *)
(* lost before or after it is taken, and a lost or performed command never *)
(* comes back.  Several commands may move in one step, as one poll takes   *)
(* a whole batch and one crash loses one.                                  *)
(***************************************************************************)
CONSTANT Commands

VARIABLE phase   \* where each command is

Phases == {"new", "posted", "taken", "done", "lost"}

Move == {<<"new", "posted">>, <<"posted", "taken">>, <<"posted", "lost">>,
         <<"taken", "done">>, <<"taken", "lost">>}

Init == phase = [c \in Commands |-> "new"]

Next ==
    /\ phase' \in [Commands -> Phases]
    /\ \A c \in Commands : phase'[c] # phase[c] => <<phase[c], phase'[c]>> \in Move

Spec == Init /\ [][Next]_phase
=============================================================================
