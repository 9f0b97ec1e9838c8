---------------------------- MODULE MCSlackEvents ----------------------------
(* Instance of SlackEvents for TLC. *)
EXTENDS SlackEvents

CONSTANTS h1, h2, p1, p2, hi, bye, here, there

OnMessage(pattern, mention, channel) ==
    [on |-> TRUE, channel |-> channel, pattern |-> pattern, mention |-> mention,
     names |-> Unset, operation |-> "Unspecified", filter |-> Unset]

OnReaction(names, operation, filter) ==
    [on |-> TRUE, channel |-> None, pattern |-> Unset, mention |-> FALSE,
     names |-> names, operation |-> operation, filter |-> filter]

MCRow ==
    {OnMessage({{hi}}, FALSE, None), OnMessage({{hi}}, TRUE, here), OnMessage(Unset, TRUE, None),
     OnReaction({{hi}}, "Added", Unset), OnReaction({{hi}}, "Unspecified", {{bye}}),
     OnReaction(Unset, "Removed", Unset),
     [OnMessage({{hi, bye}}, FALSE, None) EXCEPT !.on = FALSE]}

\* Handlers for messages and mentions only.
MCMessageRow == {row \in MCRow : HasMessageCondition(row)}

Said(kinds, word) == [kinds |-> kinds, channel |-> here, word |-> word, user |-> bye]

MCHappening ==
    {Said({"message", "mention"}, hi), Said({"message"}, bye),
     Said({"added"}, hi), Said({"removed"}, hi)}

=============================================================================
