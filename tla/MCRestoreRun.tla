---------------------------- MODULE MCRestoreRun ---------------------------
EXTENDS RestoreRun

MCOrder == <<"foo", "bar">>
MCStems == [p \in {"foo", "bar"} |-> IF p = "foo" THEN "foo.de" ELSE "bar.de"]
MCHolds == {<<"foo", "ce">>, <<"foo", "de">>}
MCExtras == <<>>
MCOptions ==
  {[mode |-> "root", apks |-> TRUE, data |-> TRUE, named |-> FALSE],
   [mode |-> "standard", apks |-> FALSE, data |-> TRUE, named |-> FALSE]}
MCBoth == {"foo", "bar"}
MCChoices ==
  {[apks |-> TRUE, data |-> TRUE, rooted |-> TRUE, sel |-> MCBoth],
   [apks |-> TRUE, data |-> TRUE, rooted |-> FALSE, sel |-> MCBoth],
   [apks |-> TRUE, data |-> FALSE, rooted |-> TRUE, sel |-> MCBoth],
   [apks |-> FALSE, data |-> TRUE, rooted |-> TRUE, sel |-> MCBoth],
   [apks |-> FALSE, data |-> TRUE, rooted |-> TRUE, sel |-> {"bar"}]}
=============================================================================
