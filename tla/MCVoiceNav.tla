----------------------------- MODULE MCVoiceNav -----------------------------
EXTENDS VoiceNav, TLC

\* Two named groups, of which one has a long item; a plain list that is cut into
\* groups; a list too short for groups; a question back.
MCReplies == {
    [lines |-> <<"text", "heading", "item", "long", "heading", "item">>, wordy |-> FALSE],
    [lines |-> <<"item", "item", "long", "item", "item">>, wordy |-> FALSE],
    [lines |-> <<"heading", "item", "item", "item">>, wordy |-> TRUE],
    [lines |-> <<"item", "text">>, wordy |-> FALSE]}

Alike == Permutations(Tabs) \cup Permutations(Sids)
=============================================================================
