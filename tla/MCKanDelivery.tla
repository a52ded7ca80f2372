--------------------------- MODULE MCKanDelivery ---------------------------
(* Instances of KanDelivery for TLC. *)
EXTENDS KanDelivery

CONSTANTS s1, s2, c1, c2, m1

MCMonitors == {m1}
MCStories  == {s1, s2}
MCOneStory == {s1}
MCChannels == {c1, c2}
=============================================================================
