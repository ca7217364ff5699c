---------------------------- MODULE MCBackupRun ----------------------------
EXTENDS BackupRun

\* The whole run's device: one package keeps both trees, the other nothing.
MCOrder == <<"foo", "bar">>
MCStems == [p \in {"foo", "bar"} |-> IF p = "foo" THEN "foo.de" ELSE "bar.de"]
MCHolds == {<<"foo", "ce">>, <<"foo", "de">>}

\* A device where one package's device-protected archive is named as another's.
MCNamesakes == <<"foo", "foo.de">>
MCNamesakeStems == [p \in {"foo", "foo.de"} |-> IF p = "foo" THEN "foo.de" ELSE "foo.de.de"]
MCNamesakesHold == {<<"foo", "de">>, <<"foo.de", "ce">>}

MCExtras == <<"shared">>
MCNone == <<>>
MCOptions ==
  {[mode |-> "root", apks |-> TRUE, data |-> TRUE, named |-> FALSE],
   [mode |-> "root", apks |-> FALSE, data |-> FALSE, named |-> FALSE],
   [mode |-> "standard", apks |-> FALSE, data |-> TRUE, named |-> TRUE]}
MCRootData == {[mode |-> "root", apks |-> FALSE, data |-> TRUE, named |-> FALSE]}
=============================================================================
